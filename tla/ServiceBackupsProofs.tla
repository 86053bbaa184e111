------------------------ MODULE ServiceBackupsProofs ------------------------
(***************************************************************************)
(* Theorems of ServiceBackups, for any schedules, editors, backups,        *)
(* channels and bounds: JobsFollowFile, CompletedStored, OneVerdict and    *)
(* TypeOK.                                                                 *)
(***************************************************************************)
EXTENDS ServiceBackups, TLAPS

-----------------------------------------------------------------------------
(* The jobs.                                                               *)

\* The registry has the names that the last load took, with one job each.
JobsInv ==
    /\ registered = Taken(asRead)
    /\ jobs = [n \in Names |-> IF n \in registered THEN 1 ELSE 0]

LEMMA JobsInit == Init => JobsInv
BY DEF Init, JobsInv, Taken

\* A load adds one job for each name it takes, and none for the others.
LEMMA Loaded ==
    ASSUME NEW before, before = [n \in Names |-> 0], Load(before)
    PROVE  JobsInv'
<1> DEFINE schedules == IF torn THEN <<>> ELSE file
<1>1. asRead' = schedules /\ registered' = Taken(schedules)
  BY DEF Load
<1>2. jobs' = [n \in Names |-> before[n] + registerSchedule(schedules)[n]]
  BY DEF Load
<1>3. ASSUME NEW n \in Names
      PROVE  before[n] + registerSchedule(schedules)[n] = IF n \in registered' THEN 1 ELSE 0
  BY <1>1 DEF registerSchedule
<1> QED
  BY <1>1, <1>2, <1>3 DEF JobsInv

LEMMA JobsUntouched == JobsInv /\ UNCHANGED cron => JobsInv'
BY DEF JobsInv, cron, Taken

LEMMA JobsStep == JobsInv /\ [Next]_vars => JobsInv'
<1> SUFFICES ASSUME JobsInv, [Next]_vars PROVE JobsInv'
  OBVIOUS
<1>1. CASE \E e \in Editors : EditStep(e)
  BY <1>1, JobsUntouched DEF EditStep, scheduleCommand, addNewSchedule, addSchedule, removeSchedule,
     toggleSchedule, updateSchedule, clearAllSchedules, EditRefused, saveConfig, EditorStops, Save,
     Unedited
<1>2. CASE onModuleInit \/ loadAndValidateConfig
  BY <1>2, Loaded DEF onModuleInit, loadAndValidateConfig, JobsInv, Taken
<1>3. CASE reloadSchedules
  <2> DEFINE before == [n \in Names |-> IF n \in registered THEN jobs[n] - 1 ELSE jobs[n]]
  <2>1. before = [n \in Names |-> 0]
    BY DEF JobsInv
  <2>2. Load(before)
    BY <1>3 DEF reloadSchedules
  <2> HIDE DEF before
  <2> QED
    BY <2>1, <2>2, Loaded
<1>4. CASE \E b \in Backups : BackupStep(b)
  BY <1>4, JobsUntouched DEF BackupStep, executeScheduledBackup, triggerScheduledBackup, createBackup,
     DumpEnds, SpawnError, uploadStream, UploadFails, saveMetadata, SaveFails, saveFailure,
     SaveFailureFails, sendAlert, AlertFails, BackupReturns, Ages, Apart
<1>5. CASE RetentionStep
  BY <1>5, JobsUntouched DEF RetentionStep, applyRetentionPolicy, cleanupOldBackups, ListingFails,
     deleteBackup, deleteMetadata, DeletionFails, cleanupOldWalFiles, purgeTrash, Untouched
<1>6. CASE HostEnds
  BY <1>6 DEF HostEnds, JobsInv, Taken
<1>7. CASE UNCHANGED vars
  BY <1>7, JobsUntouched DEF vars
<1> QED
  BY <1>1, <1>2, <1>3, <1>4, <1>5, <1>6, <1>7 DEF Next, archiveWalFile, HostStops

LEMMA JobsFollow == JobsInv => JobsFollowFile
<1> SUFFICES ASSUME JobsInv, NEW n \in Names
             PROVE  jobs[n] = IF \E i \in DOMAIN asRead : asRead[i].name = n
                                     /\ asRead[i].enabled /\ asRead[i].fires
                              THEN 1 ELSE 0
  BY DEF JobsFollowFile
<1>1. n \in Taken(asRead) <=> \E i \in DOMAIN asRead : asRead[i].name = n
                                  /\ asRead[i].enabled /\ asRead[i].fires
  BY DEF Taken
<1> QED
  BY <1>1 DEF JobsInv

(* Reloading never leaves a job behind or starts one twice                 *)
(* (scheduler.service.ts:115-124).                                         *)
THEOREM ReloadsAreClean == Spec => []JobsFollowFile
<1>1. Init => JobsInv
  BY JobsInit
<1>2. JobsInv /\ [Next]_vars => JobsInv'
  BY JobsStep
<1>3. JobsInv => JobsFollowFile
  BY JobsFollow
<1> QED
  BY <1>1, <1>2, <1>3, PTL DEF Spec

-----------------------------------------------------------------------------
(* The backups.                                                            *)

Early == {"unused", "dumping", "stuck", "saving"}
Sent(b, news) == \E c \in Channels : <<c, news>> \in told[b]

\* What the retention works on was completed; when it comes to the metadata, the
\* objects are in the trash.
VictimsDone ==
    /\ \A b \in victim : phase[b] \notin Early
    /\ clean = "metadata" => victim \subseteq removed

\* Nothing is completed, told or tried before the metadata are saved, and what is
\* there to be saved is more than nothing; who ends without all channels tried has
\* tried none.
EarlyInv(b) ==
    /\ phase[b] \in Early => meta[b] # "completed"
    /\ phase[b] \in Early \cup {"failing"} => told[b] = {}
    /\ phase[b] = "saving" => object[b] \in {"whole", "cut"}
    /\ phase[b] \in Early \cup {"failing"} => todo[b] = Channels
    /\ phase[b] = "returned" => todo[b] = {}
    /\ phase[b] = "rejected" => todo[b] \in {{}, Channels}

StoredInv(b) == meta[b] = "completed" => object[b] \in {"whole", "cut"} \/ b \in removed

\* Which news has been told is known from where the backup is.
ToldInv(b) ==
    /\ phase[b] \in {"announcing", "returned"} \/ Sent(b, "success") =>
          meta[b] = "completed" \/ b \in removed
    /\ phase[b] = "reporting" \/ Sent(b, "failure") => meta[b] = "failed" \/ b \in removed
    /\ Sent(b, "success") => phase[b] \in {"announcing", "returned", "stopped"}
    /\ Sent(b, "failure") => phase[b] \in {"reporting", "rejected", "stopped"}
    /\ ~(Sent(b, "success") /\ Sent(b, "failure"))

BackupTypes ==
    /\ phase \in [Backups -> Phases]
    /\ object \in [Backups -> {"none", "whole", "cut", "empty", "trash"}]
    /\ meta \in [Backups -> {"none", "bare", "completed", "failed"}]
    /\ todo \in [Backups -> SUBSET Channels]
    /\ told \in [Backups -> SUBSET (Channels \X {"success", "failure"})]
    /\ victim \subseteq Backups

BackupInv ==
    /\ BackupTypes /\ VictimsDone
    /\ \A b \in Backups : EarlyInv(b) /\ StoredInv(b) /\ ToldInv(b)

LEMMA BackupInit == Init => BackupInv
BY DEF Init, BackupInv, BackupTypes, VictimsDone, EarlyInv, StoredInv, ToldInv, Sent, Early, Phases

\* A step of one backup is a matter of that backup.
LEMMA OneBackup ==
    ASSUME BackupInv, NEW b \in Backups,
           UNCHANGED retention, BackupTypes',
           \A c \in Backups \ {b} : /\ phase'[c] = phase[c] /\ object'[c] = object[c]
                                    /\ meta'[c] = meta[c] /\ todo'[c] = todo[c]
                                    /\ told'[c] = told[c],
           phase'[b] \in Early => phase[b] \in Early,
           EarlyInv(b)', StoredInv(b)', ToldInv(b)'
    PROVE  BackupInv'
<1>1. VictimsDone'
  <2>1. ASSUME NEW c \in victim' PROVE phase'[c] \notin Early
    <3>1. c \in Backups /\ c \in victim
      BY DEF BackupInv, BackupTypes, retention
    <3> QED
      BY <3>1 DEF BackupInv, VictimsDone
  <2> QED
    BY <2>1 DEF BackupInv, VictimsDone, retention
<1>2. ASSUME NEW c \in Backups PROVE EarlyInv(c)' /\ StoredInv(c)' /\ ToldInv(c)'
  <2>1. CASE c = b
    BY <2>1
  <2>2. CASE c # b
    BY <2>2 DEF BackupInv, EarlyInv, StoredInv, ToldInv, Sent, retention
  <2> QED
    BY <2>1, <2>2
<1> QED
  BY <1>1, <1>2 DEF BackupInv

\* What the steps of a backup change, and where they begin and end.
LEMMA Starting ==
    ASSUME BackupInv, NEW b \in Backups, createBackup(b)
    PROVE  BackupInv'
<1> USE DEF createBackup, createPgDumpStream, Go, Apart, stored
<1>1. BackupTypes'
  BY DEF BackupInv, BackupTypes, Phases, retention
<1>2. EarlyInv(b)' /\ StoredInv(b)' /\ ToldInv(b)'
  BY DEF BackupInv, BackupTypes, EarlyInv, StoredInv, ToldInv, Sent, Early, retention
<1> QED
  BY <1>1, <1>2, OneBackup DEF BackupInv, BackupTypes, Early

LEMMA Dumping ==
    ASSUME BackupInv, NEW b \in Backups,
           DumpEnds(b) \/ SpawnError(b) \/ uploadStream(b) \/ UploadFails(b)
    PROVE  BackupInv'
<1> USE DEF DumpEnds, SpawnError, uploadStream, UploadFails, Go, Apart, stored
<1>1. BackupTypes'
  BY DEF BackupInv, BackupTypes, Phases, retention
<1>2. EarlyInv(b)' /\ StoredInv(b)' /\ ToldInv(b)'
  BY DEF BackupInv, BackupTypes, EarlyInv, StoredInv, ToldInv, Sent, Early, retention
<1> QED
  BY <1>1, <1>2, OneBackup DEF BackupInv, BackupTypes, Early

LEMMA Saving ==
    ASSUME BackupInv, NEW b \in Backups,
           saveMetadata(b) \/ SaveFails(b) \/ saveFailure(b) \/ SaveFailureFails(b)
    PROVE  BackupInv'
<1> USE DEF saveMetadata, SaveFails, saveFailure, SaveFailureFails, Go, Apart, stored
<1>1. BackupTypes'
  BY DEF BackupInv, BackupTypes, Phases, retention
<1>2. EarlyInv(b)' /\ StoredInv(b)' /\ ToldInv(b)'
  BY DEF BackupInv, BackupTypes, EarlyInv, StoredInv, ToldInv, Sent, Early, retention
<1> QED
  BY <1>1, <1>2, OneBackup DEF BackupInv, BackupTypes, Early

LEMMA Telling ==
    ASSUME BackupInv, NEW b \in Backups, NEW c \in Channels, sendAlert(b, c) \/ AlertFails(b, c)
    PROVE  BackupInv'
<1> USE DEF sendAlert, AlertFails, Announcing, News, Apart, stored
<1>1. BackupTypes'
  BY DEF BackupInv, BackupTypes, Phases, retention
<1>2. EarlyInv(b)' /\ StoredInv(b)'
  BY DEF BackupInv, BackupTypes, EarlyInv, StoredInv, Early, retention
<1>3. ToldInv(b)'
  <2>1. phase' = phase /\ meta' = meta /\ removed' = removed
    BY DEF retention
  <2>2. told'[b] = told[b] \/ told'[b] = told[b] \cup {<<c, News(b)>>}
    BY DEF BackupInv, BackupTypes
  <2>3. CASE phase[b] = "announcing"
    BY <2>1, <2>2, <2>3 DEF BackupInv, ToldInv, Sent
  <2>4. CASE phase[b] = "reporting"
    BY <2>1, <2>2, <2>4 DEF BackupInv, ToldInv, Sent
  <2> QED
    BY <2>3, <2>4
<1> QED
  BY <1>1, <1>2, <1>3, OneBackup DEF BackupInv, BackupTypes

LEMMA Returning ==
    ASSUME BackupInv, NEW b \in Backups, BackupReturns(b)
    PROVE  BackupInv'
<1> USE DEF BackupReturns, Go, Apart, stored
<1>1. BackupTypes'
  BY DEF BackupInv, BackupTypes, Phases, retention
<1>2. EarlyInv(b)' /\ StoredInv(b)' /\ ToldInv(b)'
  BY DEF BackupInv, BackupTypes, EarlyInv, StoredInv, ToldInv, Sent, Early, retention
<1> QED
  BY <1>1, <1>2, OneBackup DEF BackupInv, BackupTypes, Early

\* Whatever leaves the backups, their objects and the retention alone.
LEMMA BackupsUntouched ==
    BackupInv /\ UNCHANGED <<stored, backup, retention>> => BackupInv'
BY DEF BackupInv, BackupTypes, VictimsDone, EarlyInv, StoredInv, ToldInv, Sent, stored, backup,
   retention

\* The retention deletes what was completed, the object first.
LEMMA Retaining ==
    ASSUME BackupInv, RetentionStep
    PROVE  BackupInv'
<1> USE DEF Clean, Untouched, backup, stored
<1>1. CASE applyRetentionPolicy \/ ListingFails \/ DeletionFails \/ cleanupOldWalFiles
  BY <1>1 DEF applyRetentionPolicy, ListingFails, DeletionFails, cleanupOldWalFiles,
     BackupInv, BackupTypes, VictimsDone, EarlyInv, StoredInv, ToldInv, Sent
<1>2. CASE cleanupOldBackups
  <2>1. victim' \subseteq Completed
    BY <1>2 DEF cleanupOldBackups, evaluateBackupRetention
  <2>2. VictimsDone' /\ BackupTypes'
    BY <1>2, <2>1 DEF cleanupOldBackups, Completed, BackupInv, BackupTypes, VictimsDone, EarlyInv
  <2> QED
    BY <1>2, <2>2 DEF cleanupOldBackups, BackupInv, EarlyInv, StoredInv, ToldInv, Sent
<1>3. CASE deleteBackup
  <2> USE <1>3 DEF deleteBackup, BackupInv
  <2>1. BackupTypes' /\ VictimsDone'
    BY DEF BackupTypes, VictimsDone
  <2>2. ASSUME NEW b \in Backups PROVE EarlyInv(b)' /\ StoredInv(b)' /\ ToldInv(b)'
    BY <2>2 DEF BackupTypes, VictimsDone, EarlyInv, StoredInv, ToldInv, Sent, Early
  <2> QED
    BY <2>1, <2>2
<1>4. CASE deleteMetadata
  <2> USE <1>4 DEF deleteMetadata, BackupInv
  <2>1. BackupTypes' /\ VictimsDone'
    BY DEF BackupTypes, VictimsDone
  <2>2. ASSUME NEW b \in Backups PROVE EarlyInv(b)' /\ StoredInv(b)' /\ ToldInv(b)'
    BY <2>2 DEF BackupTypes, VictimsDone, EarlyInv, StoredInv, ToldInv, Sent, Early
  <2> QED
    BY <2>1, <2>2
<1>5. CASE purgeTrash
  <2> USE <1>5 DEF purgeTrash, BackupInv
  <2>1. BackupTypes' /\ VictimsDone'
    BY DEF BackupTypes, VictimsDone
  <2>2. ASSUME NEW b \in Backups PROVE EarlyInv(b)' /\ StoredInv(b)' /\ ToldInv(b)'
    BY <2>2 DEF BackupTypes, EarlyInv, StoredInv, ToldInv, Sent
  <2> QED
    BY <2>1, <2>2
<1> QED
  BY <1>1, <1>2, <1>3, <1>4, <1>5 DEF RetentionStep

\* What was running is stopped where it was.
LEMMA Ending ==
    ASSUME BackupInv, HostEnds
    PROVE  BackupInv'
<1> USE DEF HostEnds, BackupInv
<1>1. BackupTypes' /\ VictimsDone'
  BY DEF BackupTypes, VictimsDone, Phases
<1>2. ASSUME NEW b \in Backups PROVE EarlyInv(b)' /\ StoredInv(b)' /\ ToldInv(b)'
  <2>1. phase'[b] = phase[b] \/ phase'[b] = "stopped"
    BY DEF BackupTypes
  <2>2. phase'[b] \notin Early \ {"unused"} /\ phase'[b] \notin Running
    BY DEF BackupTypes, Early, Running, Phases
  <2>3. object'[b] = object[b] \/ object'[b] = "cut"
    BY DEF BackupTypes
  <2> QED
    BY <2>1, <2>2, <2>3 DEF BackupTypes, EarlyInv, StoredInv, ToldInv, Sent, Early, Running
<1> QED
  BY <1>1, <1>2

LEMMA BackupNext == BackupInv /\ [Next]_vars => BackupInv'
<1> SUFFICES ASSUME BackupInv, [Next]_vars PROVE BackupInv'
  OBVIOUS
<1>1. CASE \E e \in Editors : EditStep(e)
  BY <1>1, BackupsUntouched DEF EditStep, scheduleCommand, addNewSchedule, addSchedule,
     removeSchedule, toggleSchedule, updateSchedule, clearAllSchedules, EditRefused, saveConfig,
     EditorStops, Save, Unedited
<1>2. CASE loadAndValidateConfig \/ onModuleInit \/ reloadSchedules
  BY <1>2, BackupsUntouched DEF loadAndValidateConfig, onModuleInit, reloadSchedules
<1>3. ASSUME NEW b \in Backups, BackupStep(b) PROVE BackupInv'
  <2>1. CASE Ages(b)
    BY <2>1, BackupsUntouched DEF Ages
  <2> QED
    BY <1>3, <2>1, Starting, Dumping, Saving, Telling, Returning
       DEF BackupStep, executeScheduledBackup, triggerScheduledBackup
<1>4. CASE RetentionStep
  BY <1>4, Retaining
<1>5. CASE HostEnds
  BY <1>5, Ending
<1>6. CASE UNCHANGED vars
  BY <1>6, BackupsUntouched DEF vars
<1> QED
  BY <1>1, <1>2, <1>3, <1>4, <1>5, <1>6 DEF Next, archiveWalFile, HostStops

LEMMA BackupsShow == BackupInv => CompletedStored /\ OneVerdict
<1> SUFFICES ASSUME BackupInv PROVE CompletedStored /\ OneVerdict
  OBVIOUS
<1>1. CompletedStored
  BY DEF BackupInv, StoredInv, CompletedStored
<1>2. OneVerdict
  BY DEF BackupInv, EarlyInv, ToldInv, Sent, OneVerdict
<1> QED
  BY <1>1, <1>2

(* A backup listed as completed has an object with something of its dump,  *)
(* until the retention takes it (backup.service.ts:103-127, 148-171).      *)
THEOREM CompletedAreStored == Spec => []CompletedStored
<1>1. Init => BackupInv
  BY BackupInit
<1>2. BackupInv /\ [Next]_vars => BackupInv'
  BY BackupNext
<1>3. BackupInv => CompletedStored
  BY BackupsShow
<1> QED
  BY <1>1, <1>2, <1>3, PTL DEF Spec

(* Every channel is told one verdict of a backup, and success only where   *)
(* its metadata says so (backup.service.ts:122-171, alert.service.ts:      *)
(* 146-209).                                                               *)
THEOREM VerdictsAgree == Spec => []OneVerdict
<1>1. Init => BackupInv
  BY BackupInit
<1>2. BackupInv /\ [Next]_vars => BackupInv'
  BY BackupNext
<1>3. BackupInv => OneVerdict
  BY BackupsShow
<1> QED
  BY <1>1, <1>2, <1>3, PTL DEF Spec

-----------------------------------------------------------------------------
(* Types.                                                                  *)

LEMMA TypesInit == Init => TypeOK
<1> SUFFICES ASSUME Init PROVE TypeOK
  OBVIOUS
<1>1. file \in Seq(Schedule) /\ asRead \in Seq(Schedule)
  BY EntriesAssumption DEF Init
<1>2. draft \in [Editors -> Seq(Schedule)]
  BY DEF Init
<1>3. events \in 0..MaxEvents
  BY BoundsAssumption DEF Init
<1>4. QED
  BY <1>1, <1>2, <1>3 DEF Init, TypeOK, Phases

\* What an editor writes is a sequence of schedules.
LEMMA SavedTypes ==
    ASSUME TypeOK, NEW e \in Editors, NEW s \in Seq(Schedule), Save(e, s)
    PROVE  TypeOK'
<1>1. editor' \in [Editors -> {"idle", "asking", "writing"}] /\ draft' \in [Editors -> Seq(Schedule)]
  BY DEF Save, Edit, TypeOK
<1>2. QED
  BY <1>1 DEF Save, Unedited, TypeOK, cron, stored, backup, retention

LEMMA DroppedType ==
    ASSUME NEW s \in Seq(Schedule), NEW i \in DOMAIN s
    PROVE  Dropped(s, i) \in Seq(Schedule)
<1>1. i \in 1..Len(s)
  OBVIOUS
<1>2. SubSeq(s, 1, i - 1) \in Seq(Schedule)
  BY <1>1
<1>3. SubSeq(s, i + 1, Len(s)) \in Seq(Schedule)
  BY <1>1
<1>4. QED
  BY <1>2, <1>3 DEF Dropped

LEMMA EditTypes == ASSUME TypeOK, NEW e \in Editors, EditStep(e) PROVE TypeOK'
<1>1. draft[e] \in Seq(Schedule) /\ Entries \subseteq Schedule
  BY EntriesAssumption DEF TypeOK
<1>2. CASE addSchedule(e) \/ addNewSchedule(e)
  <2>1. PICK s \in Entries : Save(e, Append(draft[e], s))
    BY <1>2 DEF addSchedule, addNewSchedule
  <2>2. Append(draft[e], s) \in Seq(Schedule)
    BY <1>1
  <2>3. QED
    BY <2>1, <2>2, SavedTypes
<1>3. CASE removeSchedule(e)
  BY <1>1, <1>3, DroppedType, SavedTypes DEF removeSchedule
<1>4. CASE toggleSchedule(e)
  <2>1. PICK i \in DOMAIN draft[e] : Save(e, [draft[e] EXCEPT ![i].enabled = ~@])
    BY <1>4 DEF toggleSchedule
  <2>2. draft[e][i] \in Schedule
    BY <1>1, <2>1
  <2>3. [draft[e][i] EXCEPT !.enabled = ~@] \in Schedule
    BY <2>2 DEF Schedule
  <2>4. [draft[e] EXCEPT ![i].enabled = ~@] \in Seq(Schedule)
    BY <1>1, <2>1, <2>3
  <2>5. QED
    BY <2>1, <2>4, SavedTypes
<1>5. CASE updateSchedule(e)
  <2>1. PICK i \in DOMAIN draft[e], s \in Entries : Save(e, [draft[e] EXCEPT ![i] = s])
    BY <1>5 DEF updateSchedule
  <2>2. [draft[e] EXCEPT ![i] = s] \in Seq(Schedule)
    BY <1>1, <2>1
  <2>3. QED
    BY <2>1, <2>2, SavedTypes
<1>6. CASE clearAllSchedules(e)
  <2>1. <<>> \in Seq(Schedule)
    OBVIOUS
  <2>2. QED
    BY <1>6, <2>1, SavedTypes DEF clearAllSchedules
<1>7. CASE scheduleCommand(e) \/ EditRefused(e) \/ saveConfig(e) \/ EditorStops(e)
  <2>1. events' \in 0..MaxEvents
    <3>1. Event \/ UNCHANGED events
      BY <1>7 DEF scheduleCommand, EditRefused, saveConfig, EditorStops
    <3>2. QED
      BY <3>1, BoundsAssumption DEF Event, TypeOK
  <2>2. editor' \in [Editors -> {"idle", "asking", "writing"}]
    BY <1>7 DEF scheduleCommand, EditRefused, saveConfig, EditorStops, Edit, TypeOK
  <2>3. draft' \in [Editors -> Seq(Schedule)]
    <3>1. <<>> \in Seq(Schedule) /\ file \in Seq(Schedule)
      BY DEF TypeOK
    <3>2. QED
      BY <1>7, <3>1 DEF scheduleCommand, EditRefused, saveConfig, EditorStops, TypeOK
  <2>4. file' \in Seq(Schedule) /\ torn' \in BOOLEAN
    BY <1>1, <1>7 DEF scheduleCommand, EditRefused, saveConfig, EditorStops, TypeOK
  <2>5. UNCHANGED <<local, cron, stored, backup, old, retention>>
    BY <1>7 DEF scheduleCommand, EditRefused, saveConfig, EditorStops, Unedited
  <2>6. QED
    BY <2>1, <2>2, <2>3, <2>4, <2>5 DEF TypeOK, cron, stored, backup, retention
<1>8. QED
  BY <1>2, <1>3, <1>4, <1>5, <1>6, <1>7 DEF EditStep

\* What a load leaves, once it has stopped what was there.
LEMMA LoadTypes ==
    ASSUME TypeOK, JobsInv', asRead' = (IF torn THEN <<>> ELSE file), events' \in 0..MaxEvents,
           up' \in BOOLEAN, UNCHANGED configured, UNCHANGED <<local, edits, stored, backup, old, retention>>
    PROVE  TypeOK'
<1>1. asRead' \in Seq(Schedule)
  <2>1. <<>> \in Seq(Schedule) /\ file \in Seq(Schedule)
    BY DEF TypeOK
  <2>2. QED
    BY <2>1
<1>2. registered' \subseteq Names
  <2>1. \A i \in DOMAIN asRead' : asRead'[i] \in Schedule
    BY <1>1
  <2>2. \A s \in Schedule : s.name \in Names
    BY DEF Schedule
  <2>3. QED
    BY <2>1, <2>2 DEF JobsInv, Taken
<1>3. jobs' \in [Names -> Nat]
  BY DEF JobsInv
<1>4. QED
  BY <1>1, <1>2, <1>3 DEF TypeOK, edits, stored, backup, retention

\* The steps of a backup.
LEMMA CreateTypes == ASSUME TypeOK, NEW b \in Backups, BackupStep(b) PROVE TypeOK'
<1>1. events' \in 0..MaxEvents
  <2>1. events \in 0..MaxEvents /\ MaxEvents \in Nat
    BY BoundsAssumption DEF TypeOK
  <2>2. Event \/ UNCHANGED events
    BY DEF BackupStep, executeScheduledBackup, triggerScheduledBackup, createBackup, DumpEnds,
           SpawnError, uploadStream, UploadFails, saveMetadata, SaveFails, saveFailure,
           SaveFailureFails, sendAlert, AlertFails, BackupReturns, Ages
  <2>3. QED
    BY <2>1, <2>2 DEF Event
<1>2. UNCHANGED <<local, edits, cron, retention>>
  BY DEF BackupStep, executeScheduledBackup, triggerScheduledBackup, createBackup, DumpEnds,
         SpawnError, uploadStream, UploadFails, saveMetadata, SaveFails, saveFailure,
         SaveFailureFails, sendAlert, AlertFails, BackupReturns, Ages, Apart
<1>3. phase' \in [Backups -> Phases]
  <2>1. \/ UNCHANGED phase
        \/ \E from, to \in Phases : Go(b, from, to)
    BY DEF BackupStep, executeScheduledBackup, triggerScheduledBackup, createBackup, DumpEnds,
           SpawnError, uploadStream, UploadFails, saveMetadata, SaveFails, saveFailure,
           SaveFailureFails, sendAlert, AlertFails, BackupReturns, Ages, Phases, backup
  <2>2. QED
    BY <2>1 DEF Go, TypeOK
<1>4. dump' \in [Backups -> {"none", "running", "whole", "cut", "empty"}]
  BY DEF BackupStep, executeScheduledBackup, triggerScheduledBackup, createBackup, DumpEnds,
         SpawnError, uploadStream, UploadFails, saveMetadata, SaveFails, saveFailure,
         SaveFailureFails, sendAlert, AlertFails, BackupReturns, Ages, createPgDumpStream, TypeOK, backup
<1>5. object' \in [Backups -> {"none", "whole", "cut", "empty", "trash"}]
  BY DEF BackupStep, executeScheduledBackup, triggerScheduledBackup, createBackup, DumpEnds,
         SpawnError, uploadStream, UploadFails, saveMetadata, SaveFails, saveFailure,
         SaveFailureFails, sendAlert, AlertFails, BackupReturns, Ages, TypeOK, stored
<1>6. meta' \in [Backups -> {"none", "bare", "completed", "failed"}]
  BY DEF BackupStep, executeScheduledBackup, triggerScheduledBackup, createBackup, DumpEnds,
         SpawnError, uploadStream, UploadFails, saveMetadata, SaveFails, saveFailure,
         SaveFailureFails, sendAlert, AlertFails, BackupReturns, Ages, TypeOK, stored
<1>7. todo' \in [Backups -> SUBSET Channels]
  BY DEF BackupStep, executeScheduledBackup, triggerScheduledBackup, createBackup, DumpEnds,
         SpawnError, uploadStream, UploadFails, saveMetadata, SaveFails, saveFailure,
         SaveFailureFails, sendAlert, AlertFails, BackupReturns, Ages, TypeOK, backup
<1>8. told' \in [Backups -> SUBSET (Channels \X {"success", "failure"})]
  <2>1. CASE \E c \in Channels : sendAlert(b, c)
    <3>1. PICK c \in Channels : told' = [told EXCEPT ![b] = @ \cup {<<c, News(b)>>}]
      BY <2>1 DEF sendAlert
    <3>2. <<c, News(b)>> \in Channels \X {"success", "failure"}
      BY DEF News
    <3>3. QED
      BY <3>1, <3>2 DEF TypeOK
  <2>2. CASE ~ \E c \in Channels : sendAlert(b, c)
    BY <2>2 DEF BackupStep, executeScheduledBackup, triggerScheduledBackup, createBackup, DumpEnds,
         SpawnError, uploadStream, UploadFails, saveMetadata, SaveFails, saveFailure,
         SaveFailureFails, AlertFails, BackupReturns, Ages, TypeOK, backup
  <2>3. QED
    BY <2>1, <2>2
<1>9. old' \subseteq Backups
  BY DEF BackupStep, executeScheduledBackup, triggerScheduledBackup, createBackup, DumpEnds,
         SpawnError, uploadStream, UploadFails, saveMetadata, SaveFails, saveFailure,
         SaveFailureFails, sendAlert, AlertFails, BackupReturns, Ages, Apart, TypeOK
<1>10. QED
  BY <1>1, <1>2, <1>3, <1>4, <1>5, <1>6, <1>7, <1>8, <1>9 DEF TypeOK, edits, cron, retention

LEMMA RetentionTypes == ASSUME TypeOK, RetentionStep PROVE TypeOK'
<1>1. events' \in 0..MaxEvents
  <2>1. events \in 0..MaxEvents /\ MaxEvents \in Nat
    BY BoundsAssumption DEF TypeOK
  <2>2. Event \/ UNCHANGED events
    BY DEF RetentionStep, applyRetentionPolicy, cleanupOldBackups, ListingFails, deleteBackup,
           deleteMetadata, DeletionFails, cleanupOldWalFiles, purgeTrash, Event
  <2>3. QED
    BY <2>1, <2>2 DEF Event
<1>2. UNCHANGED <<local, edits, cron, backup, old>>
  BY DEF RetentionStep, applyRetentionPolicy, cleanupOldBackups, ListingFails, deleteBackup,
         deleteMetadata, DeletionFails, cleanupOldWalFiles, purgeTrash, Untouched
<1>3. clean' \in {"idle", "backups", "object", "metadata", "wal", "trash"}
  BY DEF RetentionStep, applyRetentionPolicy, cleanupOldBackups, ListingFails, deleteBackup,
         deleteMetadata, DeletionFails, cleanupOldWalFiles, purgeTrash, Clean
<1>4. victim' \subseteq Backups /\ removed' \subseteq Backups
  BY DEF RetentionStep, applyRetentionPolicy, cleanupOldBackups, ListingFails, deleteBackup,
         deleteMetadata, DeletionFails, cleanupOldWalFiles, purgeTrash, evaluateBackupRetention,
         Completed, TypeOK
<1>5. object' \in [Backups -> {"none", "whole", "cut", "empty", "trash"}]
  BY DEF RetentionStep, applyRetentionPolicy, cleanupOldBackups, ListingFails, deleteBackup,
         deleteMetadata, DeletionFails, cleanupOldWalFiles, purgeTrash, TypeOK, stored
<1>6. meta' \in [Backups -> {"none", "bare", "completed", "failed"}]
  BY DEF RetentionStep, applyRetentionPolicy, cleanupOldBackups, ListingFails, deleteBackup,
         deleteMetadata, DeletionFails, cleanupOldWalFiles, purgeTrash, TypeOK, stored
<1>7. QED
  BY <1>1, <1>2, <1>3, <1>4, <1>5, <1>6 DEF TypeOK, edits, cron, backup

LEMMA HostTypes == ASSUME TypeOK, HostEnds PROVE TypeOK'
<1>1. events' \in 0..MaxEvents
  BY BoundsAssumption DEF HostEnds, Event, TypeOK
<1>2. phase' \in [Backups -> Phases]
  BY DEF HostEnds, TypeOK, Phases
<1>3. /\ object' \in [Backups -> {"none", "whole", "cut", "empty", "trash"}]
      /\ dump' \in [Backups -> {"none", "running", "whole", "cut", "empty"}]
  BY DEF HostEnds, TypeOK
<1>4. jobs' \in [Names -> Nat] /\ asRead' \in Seq(Schedule)
  BY DEF HostEnds
<1>5. QED
  BY <1>1, <1>2, <1>3, <1>4 DEF HostEnds, TypeOK, edits

LEMMA TypesStep == TypeOK /\ JobsInv /\ [Next]_vars => TypeOK'
<1> SUFFICES ASSUME TypeOK, JobsInv, [Next]_vars PROVE TypeOK'
  OBVIOUS
<1>1. CASE onModuleInit \/ reloadSchedules
  <2>1. JobsInv'
    BY JobsStep
  <2>2. events' \in 0..MaxEvents
    BY <1>1, BoundsAssumption DEF onModuleInit, reloadSchedules, Event, TypeOK
  <2>3. asRead' = (IF torn THEN <<>> ELSE file) /\ up' \in BOOLEAN
    BY <1>1 DEF onModuleInit, reloadSchedules, Load, TypeOK
  <2>4. UNCHANGED <<local, edits, configured, stored, backup, old, retention>>
    BY <1>1 DEF onModuleInit, reloadSchedules
  <2>5. QED
    BY <2>1, <2>2, <2>3, <2>4, LoadTypes
<1>2. CASE UNCHANGED vars
  BY <1>2 DEF vars, edits, cron, stored, backup, retention, TypeOK
<1>3. CASE \E e \in Editors : EditStep(e)
  BY <1>3, EditTypes
<1>4. CASE \E b \in Backups : BackupStep(b)
  BY <1>4, CreateTypes
<1>5. CASE RetentionStep \/ HostEnds
  BY <1>5, RetentionTypes, HostTypes
<1>6. CASE loadAndValidateConfig
  BY <1>6 DEF loadAndValidateConfig, edits, stored, backup, retention, TypeOK
<1>7. QED
  BY <1>1, <1>2, <1>3, <1>4, <1>5, <1>6 DEF Next, archiveWalFile, HostStops

\* Every variable of the service stays in its range; that the jobs of a name are never
\* fewer than none needs the registry, since a reload stops one for each name in it
\* (scheduler.service.ts:115-124).
THEOREM TypeCorrect == Spec => []TypeOK
<1>1. Init => TypeOK /\ JobsInv
  BY TypesInit, JobsInit
<1>2. TypeOK /\ JobsInv /\ [Next]_vars => TypeOK' /\ JobsInv'
  BY TypesStep, JobsStep
<1>3. QED
  BY <1>1, <1>2, PTL DEF Spec
=============================================================================
