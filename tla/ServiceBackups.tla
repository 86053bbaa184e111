---------------------------- MODULE ServiceBackups ----------------------------
(***************************************************************************)
(* The backup service inside a NestJS application: the schedules it reads  *)
(* from dbdock.config.json, the backups it takes, their alerts, the daily  *)
(* retention, and the two editors of the schedules, `dbdock schedule` and  *)
(* ScheduleManager.  src/scheduler, src/backup, src/alerts, src/wal,       *)
(* src/storage/storage.service.ts, src/cli/commands/schedule.ts.           *)
(*                                                                         *)
(* A schedule is a name, whether it is enabled, and whether the cron       *)
(* library takes its expression.  A backup is an object, a metadata object *)
(* beside it and the news that was told of it.                             *)
(***************************************************************************)
EXTENDS Integers, Sequences, FiniteSets

CONSTANTS
    Names,         \* names of schedules
    Entries,       \* the entries that the schedules are made of
    FirstFiles,    \* the schedules the file may begin with
    Editors,       \* processes that edit the schedules
    Backups,       \* backups that may be taken
    Channels,      \* the configured channels: email, Slack, a webhook
    MinKept,       \* minBackupsToKeep of the retention policy
    MaxSchedules,  \* bound: entries in the file
    MaxEvents      \* bound: edits, backups, clean-ups, reloads and faults

Schedule == [name : Names, enabled : BOOLEAN, fires : BOOLEAN]

ASSUME EntriesAssumption ==
    /\ Entries \subseteq Schedule
    /\ FirstFiles \subseteq Seq(Schedule)
ASSUME BoundsAssumption == MinKept \in Nat /\ MaxSchedules \in Nat /\ MaxEvents \in Nat

Phases == {"unused", "dumping", "stuck", "saving", "announcing", "failing", "reporting",
           "returned", "rejected", "stopped"}
Running == {"dumping", "stuck", "saving", "announcing", "failing", "reporting"}

VARIABLES
    local,      \* backups are stored on local disk, or in a bucket
    file,       \* the schedules in dbdock.config.json
    torn,       \* the file is truncated and not yet written
    editor,     \* where each editor is
    draft,      \* the schedules each editor has read, then those it writes
    up,         \* the host process runs
    configured, \* the configuration it was constructed with: whether it has schedules
    jobs,       \* the number of cron jobs running for each name
    registered, \* registeredJobs, the names in the registry
    asRead,     \* history: the schedules that the last load read
    phase,      \* where createBackup is
    dump,       \* its pg_dump process, then what it has given to the upload
    object,     \* what is stored under its key
    meta,       \* the status in its metadata object
    todo,       \* the channels not tried with the present news
    told,       \* history: the news each channel was told of each backup
    old,        \* the backups older than backupRetentionDays
    clean,      \* where the retention is
    victim,     \* the backups it deletes
    removed,    \* history: backups whose object the retention has deleted
    events      \* counter of the bound

edits == <<file, torn, editor, draft>>
cron == <<up, configured, jobs, registered, asRead>>
stored == <<object, meta>>
backup == <<phase, dump, todo, told>>
retention == <<clean, victim, removed>>
vars == <<local, edits, cron, stored, backup, old, retention, events>>

TypeOK ==
    /\ local \in BOOLEAN /\ torn \in BOOLEAN /\ up \in BOOLEAN
    /\ file \in Seq(Schedule) /\ asRead \in Seq(Schedule)
    /\ editor \in [Editors -> {"idle", "asking", "writing"}]
    /\ draft \in [Editors -> Seq(Schedule)]
    /\ configured \in {"no", "empty", "schedules"}
    /\ jobs \in [Names -> Nat]
    /\ registered \subseteq Names
    /\ phase \in [Backups -> Phases]
    /\ dump \in [Backups -> {"none", "running", "whole", "cut", "empty"}]
    /\ object \in [Backups -> {"none", "whole", "cut", "empty", "trash"}]
    /\ meta \in [Backups -> {"none", "bare", "completed", "failed"}]
    /\ todo \in [Backups -> SUBSET Channels]
    /\ told \in [Backups -> SUBSET (Channels \X {"success", "failure"})]
    /\ clean \in {"idle", "backups", "object", "metadata", "wal", "trash"}
    /\ old \subseteq Backups /\ victim \subseteq Backups /\ removed \subseteq Backups
    /\ events \in 0..MaxEvents

Init ==
    /\ local \in BOOLEAN
    /\ file \in FirstFiles /\ torn = FALSE
    /\ editor = [e \in Editors |-> "idle"]
    /\ draft = [e \in Editors |-> <<>>]
    /\ up = FALSE /\ configured = "no"
    /\ jobs = [n \in Names |-> 0]
    /\ registered = {} /\ asRead = <<>>
    /\ phase = [b \in Backups |-> "unused"]
    /\ dump = [b \in Backups |-> "none"]
    /\ object = [b \in Backups |-> "none"]
    /\ meta = [b \in Backups |-> "none"]
    /\ todo = [b \in Backups |-> Channels]
    /\ told = [b \in Backups |-> {}]
    /\ old = {}
    /\ clean = "idle" /\ victim = {} /\ removed = {}
    /\ events = 0

Event == events < MaxEvents /\ events' = events + 1

-----------------------------------------------------------------------------
(* The schedules in the file.  Reading it, asking and writing it back are  *)
(* separate moments of another process.                                    *)

Edit(e, from, to) == editor[e] = from /\ editor' = [editor EXCEPT ![e] = to]
Unedited == UNCHANGED <<local, cron, stored, backup, old, retention>>

\* loadConfig: a file that is truncated is not JSON.
scheduleCommand(e) ==
    /\ Event
    /\ Edit(e, "idle", "asking")
    /\ ~torn
    /\ draft' = [draft EXCEPT ![e] = file]
    /\ UNCHANGED <<file, torn>> /\ Unedited

\* saveConfig begins: writeFileSync truncates the file.
Save(e, schedules) ==
    /\ Edit(e, "asking", "writing")
    /\ draft' = [draft EXCEPT ![e] = schedules]
    /\ torn' = TRUE
    /\ UNCHANGED <<file, events>> /\ Unedited

\* The command does not look whether the name is taken,
addSchedule(e) ==
    /\ Len(draft[e]) < MaxSchedules
    /\ \E s \in Entries : Save(e, Append(draft[e], s))

\* ScheduleManager.addSchedule does.
addNewSchedule(e) ==
    /\ Len(draft[e]) < MaxSchedules
    /\ \E s \in Entries : /\ \A i \in DOMAIN draft[e] : draft[e][i].name # s.name
                         /\ Save(e, Append(draft[e], s))

Dropped(s, i) == SubSeq(s, 1, i - 1) \o SubSeq(s, i + 1, Len(s))

removeSchedule(e) == \E i \in DOMAIN draft[e] : Save(e, Dropped(draft[e], i))

toggleSchedule(e) ==
    \E i \in DOMAIN draft[e] : Save(e, [draft[e] EXCEPT ![i].enabled = ~@])

\* The first of that name: updateSchedule, enableSchedule, disableSchedule.
updateSchedule(e) ==
    \E i \in DOMAIN draft[e] : \E s \in Entries :
        /\ s.name = draft[e][i].name
        /\ \A j \in 1..(i - 1) : draft[e][j].name # s.name
        /\ Save(e, [draft[e] EXCEPT ![i] = s])

clearAllSchedules(e) == Save(e, <<>>)

\* The question is not answered with yes, the name is taken or not found, the
\* expression does not have five parts: nothing is written.
EditRefused(e) ==
    /\ Edit(e, "asking", "idle")
    /\ draft' = [draft EXCEPT ![e] = <<>>]
    /\ UNCHANGED <<file, torn, events>> /\ Unedited

\* Of two that write at once, neither text need be left whole.
saveConfig(e) ==
    /\ Edit(e, "writing", "idle")
    /\ file' = draft[e]
    /\ torn' \in IF \E d \in Editors \ {e} : editor[d] = "writing" THEN BOOLEAN ELSE {FALSE}
    /\ draft' = [draft EXCEPT ![e] = <<>>]
    /\ UNCHANGED events /\ Unedited

EditorStops(e) ==
    /\ Event
    /\ Edit(e, "writing", "idle")
    /\ draft' = [draft EXCEPT ![e] = <<>>]
    /\ UNCHANGED <<file, torn>> /\ Unedited

-----------------------------------------------------------------------------
(* The jobs of the scheduler.                                              *)

\* registerSchedule: the library refuses an expression, the registry a name it
\* has; each is logged, and the others are registered.
Taken(schedules) == {s.name : s \in {schedules[i] : i \in {j \in DOMAIN schedules :
                                        schedules[j].enabled /\ schedules[j].fires}}}

registerSchedule(schedules) == [n \in Names |-> IF n \in Taken(schedules) THEN 1 ELSE 0]

\* A file that cannot be read leaves the service without jobs.
Load(before) ==
    LET schedules == IF torn THEN <<>> ELSE file
    IN  /\ asRead' = schedules
        /\ registered' = Taken(schedules)
        /\ jobs' = [n \in Names |-> before[n] + registerSchedule(schedules)[n]]

\* The file is read for the configuration first; without it nothing starts.
loadAndValidateConfig ==
    /\ configured = "no" /\ ~torn
    /\ configured' = IF file = <<>> THEN "empty" ELSE "schedules"
    /\ UNCHANGED <<local, edits, up, jobs, registered, asRead, stored, backup, old, retention, events>>

onModuleInit ==
    /\ Event
    /\ configured # "no"
    /\ ~up /\ up' = TRUE
    /\ Load([n \in Names |-> 0])
    /\ UNCHANGED <<local, edits, configured, stored, backup, old, retention>>

\* Slip: the jobs of the registry are forgotten without being stopped.
reloadUnstopped ==
    /\ Event /\ up
    /\ Load(jobs)
    /\ UNCHANGED <<local, edits, up, configured, stored, backup, old, retention>>

\* Every registered job is stopped and deleted, then the file is read.
reloadSchedules ==
    /\ Event /\ up
    /\ Load([n \in Names |-> IF n \in registered THEN jobs[n] - 1 ELSE jobs[n]])
    /\ UNCHANGED <<local, edits, up, configured, stored, backup, old, retention>>

-----------------------------------------------------------------------------
(* A backup.                                                               *)

Go(b, from, to) == phase[b] = from /\ phase' = [phase EXCEPT ![b] = to]
Apart == UNCHANGED <<local, edits, cron, old, retention>>

\* Whether pg_dump can be started shows later.
createPgDumpStream(b) == dump' = [dump EXCEPT ![b] = "running"]

\* pg_dump is started; its stream runs through counters, compression and
\* encryption into the upload.  A cipher that cannot be made leaves pg_dump
\* running with nobody to read it.
createBackup(b) ==
    /\ Event /\ up
    /\ \/ Go(b, "unused", "dumping") /\ createPgDumpStream(b)
       \/ Go(b, "unused", "failing") /\ (createPgDumpStream(b) \/ UNCHANGED dump)
    /\ UNCHANGED <<stored, todo, told>> /\ Apart

\* A cron job fires; backups may overlap.
executeScheduledBackup(b) == (\E n \in Names : jobs[n] > 0) /\ createBackup(b)

\* So it does when the application asks, with any schedule in the configuration that
\* it was constructed with.
triggerScheduledBackup(b) == configured = "schedules" /\ createBackup(b)

\* pg_dump ends; an exit code other than 0 is only logged.
DumpEnds(b) ==
    /\ phase[b] = "dumping" /\ dump[b] = "running"
    /\ \E d \in {"whole", "cut", "empty"} : dump' = [dump EXCEPT ![b] = d]
    /\ UNCHANGED <<events, phase, stored, todo, told>> /\ Apart

\* pg_dump cannot be started: its output is destroyed, which ends no pipe.
SpawnError(b) ==
    /\ dump[b] = "running"
    /\ Go(b, "dumping", "stuck")
    /\ dump' = [dump EXCEPT ![b] = "none"]
    /\ UNCHANGED <<events, stored, todo, told>> /\ Apart

\* Slip: what was read is not counted.
uploadedUncounted(b) ==
    /\ dump[b] \in {"whole", "cut", "empty"}
    /\ Go(b, "dumping", "saving")
    /\ object' = [object EXCEPT ![b] = dump[b]]
    /\ meta' = IF local THEN [meta EXCEPT ![b] = "bare"] ELSE meta
    /\ dump' = [dump EXCEPT ![b] = "none"]
    /\ UNCHANGED <<events, todo, told>> /\ Apart

\* The upload ends with the stream; nothing read is a failure.  On disk the
\* upload leaves a metadata object of its own.
uploadStream(b) ==
    /\ dump[b] \in {"whole", "cut", "empty"}
    /\ Go(b, "dumping", IF dump[b] = "empty" THEN "failing" ELSE "saving")
    /\ object' = [object EXCEPT ![b] = dump[b]]
    /\ meta' = IF local THEN [meta EXCEPT ![b] = "bare"] ELSE meta
    /\ dump' = [dump EXCEPT ![b] = "none"]
    /\ UNCHANGED <<events, todo, told>> /\ Apart

\* Nothing kills the pg_dump of an upload that fails; on disk a part stays.
UploadFails(b) ==
    /\ Event
    /\ Go(b, "dumping", "failing")
    /\ object' \in IF local THEN {object, [object EXCEPT ![b] = "cut"]} ELSE {object}
    /\ UNCHANGED <<dump, meta, todo, told>> /\ Apart

\* saveMetadata(COMPLETED), then the news for every channel.
saveMetadata(b) ==
    /\ Go(b, "saving", "announcing")
    /\ meta' = [meta EXCEPT ![b] = "completed"]
    /\ todo' = [todo EXCEPT ![b] = Channels]
    /\ UNCHANGED <<events, dump, object, told>> /\ Apart

\* The store refuses it, or has it and the answer is lost.
SaveFails(b) ==
    /\ Event
    /\ Go(b, "saving", "failing")
    /\ meta' \in {meta, [meta EXCEPT ![b] = "completed"]}
    /\ UNCHANGED <<dump, object, todo, told>> /\ Apart

\* The catch block.
saveFailure(b) ==
    /\ Go(b, "failing", "reporting")
    /\ meta' = [meta EXCEPT ![b] = "failed"]
    /\ todo' = [todo EXCEPT ![b] = Channels]
    /\ UNCHANGED <<events, dump, object, told>> /\ Apart

\* It fails as well, though the store may have it: the first error and the alert are lost.
SaveFailureFails(b) ==
    /\ Event
    /\ Go(b, "failing", "rejected")
    /\ meta' \in {meta, [meta EXCEPT ![b] = "failed"]}
    /\ UNCHANGED <<dump, object, todo, told>> /\ Apart

News(b) == IF phase[b] = "announcing" THEN "success" ELSE "failure"
Announcing(b) == phase[b] \in {"announcing", "reporting"}

\* One channel after the other, each on its own.
sendAlert(b, c) ==
    /\ Announcing(b) /\ c \in todo[b]
    /\ todo' = [todo EXCEPT ![b] = @ \ {c}]
    /\ told' = [told EXCEPT ![b] = @ \cup {<<c, News(b)>>}]
    /\ UNCHANGED <<events, phase, dump, stored>> /\ Apart

\* Slip: a channel that fails fails the backup.
AlertThrows(b, c) ==
    /\ Event
    /\ Announcing(b) /\ c \in todo[b]
    /\ phase' = [phase EXCEPT ![b] = IF @ = "announcing" THEN "failing" ELSE "rejected"]
    /\ UNCHANGED <<dump, stored, todo, told>> /\ Apart

\* Its error is logged.
AlertFails(b, c) ==
    /\ Event
    /\ Announcing(b) /\ c \in todo[b]
    /\ todo' = [todo EXCEPT ![b] = @ \ {c}]
    /\ UNCHANGED <<phase, dump, stored, told>> /\ Apart

BackupReturns(b) ==
    /\ todo[b] = {}
    /\ Go(b, "announcing", "returned") \/ Go(b, "reporting", "rejected")
    /\ UNCHANGED <<events, dump, stored, todo, told>> /\ Apart

\* Only the age of a completed backup is ever looked at.
Ages(b) ==
    /\ meta[b] = "completed" /\ b \notin old
    /\ old' = old \cup {b}
    /\ UNCHANGED <<local, edits, cron, stored, backup, retention, events>>

-----------------------------------------------------------------------------
(* The retention of a day; its three parts fail apart.                     *)

Clean(from, to) == clean = from /\ clean' = to
Untouched == UNCHANGED <<local, edits, cron, backup, old>>

applyRetentionPolicy ==
    /\ Event /\ up
    /\ Clean("idle", "backups")
    /\ UNCHANGED <<stored, victim, removed>> /\ Untouched

Completed == {b \in Backups : meta[b] = "completed"}

\* Sorting two completed backups calls getTime on the text of a date and
\* throws; the first minBackupsToKeep are kept, then those that are not old.
evaluateBackupRetention ==
    IF Cardinality(Completed) > 1 \/ MinKept > 0 THEN {} ELSE Completed \cap old

cleanupOldBackups ==
    /\ Clean("backups", IF evaluateBackupRetention = {} THEN "wal" ELSE "object")
    /\ victim' = evaluateBackupRetention
    /\ UNCHANGED <<stored, removed, events>> /\ Untouched

\* The listing fails, or one metadata object is only half written.
ListingFails ==
    /\ events < MaxEvents \/ (local /\ \E b \in Backups : phase[b] \in {"saving", "failing"})
    /\ events' = IF events < MaxEvents THEN events + 1 ELSE events
    /\ Clean("backups", "wal")
    /\ UNCHANGED <<stored, victim, removed>> /\ Untouched

\* The keys of the service on disk begin with the name of the database, which
\* the deletion guard refuses.
RefusedKeys == local

\* The object goes to the trash.
deleteBackup ==
    /\ ~RefusedKeys
    /\ Clean("object", "metadata")
    /\ object' = [b \in Backups |-> IF b \in victim THEN "trash" ELSE object[b]]
    /\ removed' = removed \cup victim
    /\ UNCHANGED <<meta, victim, events>> /\ Untouched

\* Then its metadata.
deleteMetadata ==
    /\ Clean("metadata", "wal")
    /\ meta' = [b \in Backups |-> IF b \in victim THEN "none" ELSE meta[b]]
    /\ victim' = {}
    /\ UNCHANGED <<object, removed, events>> /\ Untouched

\* One deletion that fails does not end the others.
DeletionFails ==
    /\ clean \in {"object", "metadata"} /\ clean' = "wal"
    /\ (RefusedKeys /\ clean = "object" /\ UNCHANGED events) \/ Event
    /\ victim' = {}
    /\ UNCHANGED <<stored, removed>> /\ Untouched

\* No WAL file was ever archived.
cleanupOldWalFiles ==
    /\ Clean("wal", "trash")
    /\ UNCHANGED <<stored, victim, removed, events>> /\ Untouched

\* Expired entries of the trash go, or the purge fails.
purgeTrash ==
    /\ Clean("trash", "idle")
    /\ \E gone \in SUBSET {b \in Backups : object[b] = "trash"} :
           object' = [b \in Backups |-> IF b \in gone THEN "none" ELSE object[b]]
    /\ UNCHANGED <<meta, victim, removed, events>> /\ Untouched

-----------------------------------------------------------------------------
(* The host ends, with everything it was doing and the pg_dumps it feeds.  *)

HostEnds ==
    /\ Event
    /\ up /\ up' = FALSE /\ configured' = "no"
    /\ jobs' = [n \in Names |-> 0]
    /\ registered' = {} /\ asRead' = <<>>
    /\ phase' = [b \in Backups |-> IF phase[b] \in Running THEN "stopped" ELSE phase[b]]
    /\ object' \in {object, [b \in Backups |->
            IF local /\ phase[b] = "dumping" THEN "cut" ELSE object[b]]}
    /\ dump' = [b \in Backups |-> IF dump[b] = "running" THEN "none" ELSE dump[b]]
    /\ clean' = "idle" /\ victim' = {}
    /\ UNCHANGED <<local, edits, meta, todo, told, old, removed>>

\* The file stream is piped into itself; its first bytes throw in a callback
\* nobody catches.  A file that is not there is refused before.
archiveWalFile == HostEnds

HostStops == HostEnds

-----------------------------------------------------------------------------
EditStep(e) == scheduleCommand(e) \/ addNewSchedule(e) \/ addSchedule(e) \/ removeSchedule(e)
               \/ toggleSchedule(e) \/ updateSchedule(e) \/ clearAllSchedules(e) \/ EditRefused(e) \/ saveConfig(e) \/ EditorStops(e)

BackupStep(b) ==
    \/ executeScheduledBackup(b) \/ triggerScheduledBackup(b)
    \/ DumpEnds(b) \/ SpawnError(b) \/ uploadStream(b) \/ UploadFails(b)
    \/ saveMetadata(b) \/ SaveFails(b) \/ saveFailure(b) \/ SaveFailureFails(b)
    \/ (\E c \in Channels : sendAlert(b, c) \/ AlertFails(b, c))
    \/ BackupReturns(b) \/ Ages(b)

RetentionStep == applyRetentionPolicy \/ cleanupOldBackups \/ ListingFails \/ deleteBackup
                 \/ deleteMetadata \/ DeletionFails \/ cleanupOldWalFiles \/ purgeTrash

Next ==
    \/ \E e \in Editors : EditStep(e)
    \/ loadAndValidateConfig \/ onModuleInit \/ reloadSchedules
    \/ \E b \in Backups : BackupStep(b)
    \/ RetentionStep
    \/ archiveWalFile \/ HostStops

Spec == Init /\ [][Next]_vars

-----------------------------------------------------------------------------
(* Exactly one job runs for each name that the last load read as enabled,  *)
(* however often the schedules are reloaded, beside editors that leave a   *)
(* truncated file or a name twice, and none for any other                  *)
(* (scheduler.service.ts:71-92 and 115-124).                               *)
JobsFollowFile ==
    \A n \in Names :
        jobs[n] = IF \E i \in DOMAIN asRead :
                        asRead[i].name = n /\ asRead[i].enabled /\ asRead[i].fires
                  THEN 1 ELSE 0

(* A backup is listed as completed only over an object that holds at least *)
(* something of a dump, until the retention deletes it, whichever of its   *)
(* uploads, savings and deletions fail (backup.service.ts:103-127,         *)
(* 148-171, retention.service.ts:116-138).                                 *)
CompletedStored ==
    \A b \in Backups :
        meta[b] = "completed" => object[b] \in {"whole", "cut"} \/ b \in removed

(* Success is told only of a backup whose metadata says so, or that the    *)
(* retention has deleted since, and failure never of such a one; nobody is *)
(* told of a verdict while another channel is left out: a call that has    *)
(* returned has tried them all with its success, and one that has failed   *)
(* has tried them all with the failure or, when that could not be saved,   *)
(* none (backup.service.ts:122-177, alert.service.ts:146-209).             *)
OneVerdict ==
    \A b \in Backups :
        LET knows(news) == {c \in Channels : <<c, news>> \in told[b]}
        IN  /\ knows("success") # {} => meta[b] = "completed" \/ b \in removed
            /\ knows("failure") # {} =>
                  (meta[b] = "failed" \/ b \in removed) /\ knows("success") = {}
            /\ phase[b] = "returned" =>
                  todo[b] = {} /\ (meta[b] = "completed" \/ b \in removed)
            /\ phase[b] = "rejected" =>
                  knows("success") = {} /\ todo[b] \in {{}, Channels}
=============================================================================
