--------------------------- MODULE GuardedChange ---------------------------
(***************************************************************************)
(* Guarded changes: `dbdock run`, `dbdock restore <checkpoint>`, `dbdock   *)
(* undo`, `dbdock sync` (its record half) and the storage clean-up that    *)
(* shares the checkpoint store.  src/changes/*, src/cli/commands/{run,     *)
(* undo,restore-checkpoint}.ts, src/standalone/*.                          *)
(*                                                                         *)
(* Each process runs one guarded operation at a time and may be killed     *)
(* between any two of its steps.  The database is the set of data it       *)
(* holds; a checkpoint is a dump file (content) plus a manifest, both      *)
(* numbered in the order the dumps were taken.  The record of an operation *)
(* is numbered by its checkpoint: the lock makes the two orders equal.     *)
(*                                                                         *)
(* On PostgreSQL a checkpoint holds the schemas there are, and a restore   *)
(* replaces those alone: its scope is what they have room for.  Data       *)
(* outside it lies in schemas that are newer.  On MySQL the database       *)
(* is the scope.                                                           *)
(***************************************************************************)
EXTENDS Integers, FiniteSets

CONSTANTS
    Procs,           \* dbdock processes and SDK callers on one database
    Data,            \* what the database may hold
    MaxCheckpoints,  \* bound: checkpoints ever taken
    MaxCrashes,      \* bound: processes killed
    Keep,            \* backup.retention.minBackups
    SharedStore,     \* plain backups and clean-ups use the bucket of the checkpoints
    Postgres,        \* the database is PostgreSQL, or it is MySQL
    Linked,          \* the directory is linked to a Cloud project
    OutsideWriters   \* the application writes while changes run

ASSUME ProcsAssumption == IsFiniteSet(Procs)
ASSUME BoundsAssumption == /\ MaxCheckpoints \in Nat /\ MaxCrashes \in Nat
                           /\ Keep \in Nat \ {0}
ASSUME ModesAssumption == /\ SharedStore \in BOOLEAN /\ Postgres \in BOOLEAN
                          /\ Linked \in BOOLEAN /\ OutsideWriters \in BOOLEAN

Ids == 1..MaxCheckpoints
Terminal == {"succeeded", "failed"}
Statuses == {"none", "running"} \cup Terminal
Kinds == {"run", "restore", "undo"}

VARIABLES
    lock,       \* the sessions that hold the advisory lock of the database
    pc,         \* where each process is in runGuardedChange
    op,         \* what each process was asked to do
    cp,         \* the checkpoint of each process's operation, 0 before it
    last,       \* the number of dumps taken
    db,         \* what the database holds
    content,    \* what each dump file holds
    scope,      \* what may be in the schemas each checkpoint replaces
    stored,     \* the dump files in the store, whole
    manifests,  \* the checkpoints whose manifest is in the store
    rec,        \* status in each record file, "none" when there is no file
    synced,     \* the record files marked synced
    cloud,      \* status of each record in DBDock Cloud
    batch,      \* unsent records `dbdock sync` has read: <<id, status>>
    arrived,    \* those of them Cloud has, before the file is marked
    orphans,    \* migration commands that outlived the process that ran them
    crashes,    \* processes killed so far
    seen,       \* history: what was in the database when a lock was taken
    before,     \* history: what was in it when each change started
    disturbed   \* history: someone else wrote while the lock was held

work == <<lock, pc, op, cp>>
store == <<last, content, scope, stored, manifests>>
records == <<rec, synced, cloud>>
sync == <<batch, arrived>>
history == <<seen, before, disturbed>>
vars == <<work, db, store, records, sync, orphans, crashes, history>>

\* The steps between lockDatabase and close.
Guarded == {"locked", "dumped", "manifest", "applying", "verifying", "verified",
            "emptied", "succeeding", "failing", "sending", "marking", "closing"}
PCs == {"idle", "locking"} \cup Guarded

TypeOK ==
    /\ lock \subseteq Procs
    /\ pc \in [Procs -> PCs]
    /\ op \in [Procs -> [kind : Kinds, target : 0..MaxCheckpoints]]
    /\ cp \in [Procs -> 0..MaxCheckpoints]
    /\ last \in 0..MaxCheckpoints
    /\ db \subseteq Data
    /\ content \in [Ids -> SUBSET Data]
    /\ scope \in [Ids -> SUBSET Data]
    /\ stored \subseteq Ids
    /\ manifests \subseteq Ids
    /\ rec \in [Ids -> Statuses]
    /\ synced \subseteq Ids
    /\ cloud \in [Ids -> Statuses]
    /\ batch \subseteq Ids \X Statuses
    /\ arrived \subseteq Ids \X Statuses
    /\ orphans \in 0..MaxCrashes
    /\ crashes \in 0..MaxCrashes
    /\ seen \subseteq Data
    /\ before \in [Ids -> SUBSET Data]
    /\ disturbed \in BOOLEAN

NoOp == [kind |-> "run", target |-> 0]

Init ==
    /\ lock = {}
    /\ pc = [p \in Procs |-> "idle"]
    /\ op = [p \in Procs |-> NoOp]
    /\ cp = [p \in Procs |-> 0]
    /\ last = 0
    /\ db \in SUBSET Data
    /\ content = [k \in Ids |-> {}]
    /\ scope = [k \in Ids |-> {}]
    /\ stored = {}
    /\ manifests = {}
    /\ rec = [k \in Ids |-> "none"]
    /\ synced = {}
    /\ cloud = [k \in Ids |-> "none"]
    /\ batch = {}
    /\ arrived = {}
    /\ orphans = 0
    /\ crashes = 0
    /\ seen = {}
    /\ before = [k \in Ids |-> {}]
    /\ disturbed = FALSE

-----------------------------------------------------------------------------
(* What a process is asked to do.  A restore reads the manifest of its     *)
(* target, and undo looks its target up, before the lock is taken.         *)

At(p, from, to) == pc[p] = from /\ pc' = [pc EXCEPT ![p] = to]

Begin(p, kind, target) ==
    /\ At(p, "idle", "locking")
    /\ op' = [op EXCEPT ![p] = [kind |-> kind, target |-> target]]
    /\ UNCHANGED <<lock, cp, db, store, records, sync, orphans, crashes, history>>

BeginRun(p) == Begin(p, "run", 0)

BeginRestore(p) == \E k \in manifests : Begin(p, "restore", k)

\* A change undo can go back before: it has a record, and its manifest can be
\* read.  Records left "running" by a crash and failed changes count.
Undoable == {k \in manifests : rec[k] # "none"}

\* Slip: the history is sorted oldest first.
UndoTargetsOldest == {k \in Undoable : \A j \in Undoable : k <= j}

UndoTargets == {k \in Undoable : \A j \in Undoable : j <= k}

BeginUndo(p) == \E k \in UndoTargets : Begin(p, "undo", k)

-----------------------------------------------------------------------------
(* runGuardedChange, up to the change.                                     *)

\* Slip: the answer of pg_try_advisory_lock is not looked at.
LockDatabaseUnchecked(p) ==
    /\ At(p, "locking", "locked")
    /\ lock' = lock \cup {p}
    /\ seen' = seen \cup db
    /\ UNCHANGED <<op, cp, db, store, records, sync, orphans, crashes, before, disturbed>>

LockDatabase(p) ==
    /\ lock = {}
    /\ At(p, "locking", "locked")
    /\ lock' = {p}
    /\ seen' = seen \cup db
    /\ UNCHANGED <<op, cp, db, store, records, sync, orphans, crashes, before, disturbed>>

\* The lock is taken ("Another DBDock change is running on this database."),
\* or the server cannot be reached.
LockFails(p) ==
    /\ At(p, "locking", "idle")
    /\ op' = [op EXCEPT ![p] = NoOp]
    /\ UNCHANGED <<lock, cp, db, store, records, sync, orphans, crashes, history>>

\* Slip: a refusal returns outside the try, so close is not reached.
RefuseWithoutClose(p) ==
    /\ \E s \in {"locked", "dumped", "manifest"} : At(p, s, "idle")
    /\ op' = [op EXCEPT ![p] = NoOp]
    /\ cp' = [cp EXCEPT ![p] = 0]
    /\ UNCHANGED <<lock, db, store, records, sync, orphans, crashes, history>>

\* prepare refuses, the scope is empty, the dump, the manifest or the first
\* record cannot be saved: the error leaves through the finally block.
Refuse(p) ==
    /\ \E s \in {"locked", "dumped", "manifest"} : At(p, s, "closing")
    /\ UNCHANGED <<lock, op, cp, db, store, records, sync, orphans, crashes, history>>

\* The schemas the role may restore are all those that hold something, and may
\* have room for more; MySQL has one.
Scopes == {s \in SUBSET Data : db \subseteq s /\ (Postgres \/ s = Data)}

SaveDump(p) ==
    /\ last < MaxCheckpoints
    /\ At(p, "locked", "dumped")
    /\ last' = last + 1
    /\ cp' = [cp EXCEPT ![p] = last + 1]
    /\ content' = [content EXCEPT ![last + 1] = db]
    /\ \E s \in Scopes : scope' = [scope EXCEPT ![last + 1] = s]
    /\ stored' = stored \cup {last + 1}
    /\ UNCHANGED <<lock, op, db, manifests, records, sync, orphans, crashes, history>>

\* Slip: the manifest is written before the dump it names.
SaveManifestFirst(p) ==
    /\ At(p, "locked", "manifest")
    /\ manifests' = manifests \cup {cp[p]}
    /\ UNCHANGED <<lock, op, cp, db, last, content, scope, stored, records, sync, orphans,
                   crashes, history>>

SaveManifest(p) ==
    /\ At(p, "dumped", "manifest")
    /\ manifests' = manifests \cup {cp[p]}
    /\ UNCHANGED <<lock, op, cp, db, last, content, scope, stored, records, sync, orphans,
                   crashes, history>>

\* Slip: the record and the change do not wait for the manifest.
SaveRunningEarly(p) ==
    /\ At(p, "dumped", IF op[p].kind = "run" THEN "applying" ELSE "verifying")
    /\ rec' = [rec EXCEPT ![cp[p]] = "running"]
    /\ before' = [before EXCEPT ![cp[p]] = db]
    /\ UNCHANGED <<lock, op, cp, db, store, synced, cloud, sync, orphans, crashes,
                   seen, disturbed>>

SaveRunning(p) ==
    /\ At(p, "manifest", IF op[p].kind = "run" THEN "applying" ELSE "verifying")
    /\ rec' = [rec EXCEPT ![cp[p]] = "running"]
    /\ before' = [before EXCEPT ![cp[p]] = db]
    /\ UNCHANGED <<lock, op, cp, db, store, synced, cloud, sync, orphans, crashes,
                   seen, disturbed>>

-----------------------------------------------------------------------------
(* The change of `dbdock run`: the command or SQL file may leave the       *)
(* database holding anything, and then succeeds or fails.                  *)

Work(p) ==
    /\ pc[p] = "applying"
    /\ db' \in SUBSET Data
    /\ UNCHANGED <<work, store, records, sync, orphans, crashes, history>>

ChangeEnds(p) ==
    /\ \E s \in {"succeeding", "failing"} : At(p, "applying", s)
    /\ UNCHANGED <<lock, op, cp, db, store, records, sync, orphans, crashes, history>>

(* The change of a restore: restoreBackupStandalone, strict.               *)

Target(p) == op[p].target

\* The dump file is found, has the manifest's checksum and decodes.
VerifyDump(p) ==
    /\ Target(p) \in stored
    /\ At(p, "verifying", "verified")
    /\ UNCHANGED <<lock, op, cp, db, store, records, sync, orphans, crashes, history>>

DumpUnreadable(p) ==
    /\ Target(p) \notin stored
    /\ At(p, "verifying", "failing")
    /\ UNCHANGED <<lock, op, cp, db, store, records, sync, orphans, crashes, history>>

\* The schemas of the checkpoint are emptied, in others goes what depends on it.
Reset(p) ==
    /\ At(p, "verified", "emptied")
    /\ db' \in SUBSET (db \ scope[Target(p)])
    /\ UNCHANGED <<lock, op, cp, store, records, sync, orphans, crashes, history>>

\* MySQL drops object by object; PostgreSQL rolls back.
ResetFails(p) ==
    /\ At(p, "verified", "failing")
    /\ IF Postgres THEN db' = db ELSE db' \in SUBSET db
    /\ UNCHANGED <<lock, op, cp, store, records, sync, orphans, crashes, history>>

\* The dump is read a second time: the clean-up may have taken it since.
Load(p) ==
    /\ Target(p) \in stored
    /\ At(p, "emptied", "succeeding")
    /\ db' = db \cup content[Target(p)]
    /\ UNCHANGED <<lock, op, cp, store, records, sync, orphans, crashes, history>>

\* Slip: the exit code of the restore tool is tolerated.
LoadFailsUnnoticed(p) ==
    /\ At(p, "emptied", "succeeding")
    /\ \E part \in SUBSET content[Target(p)] :
          /\ Target(p) \notin stored => part = {}
          /\ db' = db \cup part
    /\ UNCHANGED <<lock, op, cp, store, records, sync, orphans, crashes, history>>

LoadFails(p) ==
    /\ At(p, "emptied", "failing")
    /\ \E part \in SUBSET content[Target(p)] :
          /\ Target(p) \notin stored => part = {}
          /\ db' = db \cup part
    /\ UNCHANGED <<lock, op, cp, store, records, sync, orphans, crashes, history>>

-----------------------------------------------------------------------------
(* The record, and what closes the operation.                              *)

Outcome(p) == IF pc[p] = "succeeding" THEN "succeeded" ELSE "failed"

SaveFinal(p) ==
    /\ \E s \in {"succeeding", "failing"} : At(p, s, "sending")
    /\ rec' = [rec EXCEPT ![cp[p]] = Outcome(p)]
    /\ UNCHANGED <<lock, op, cp, db, store, synced, cloud, sync, orphans, crashes,
                   history>>

\* The change is done but its record cannot be written: it stays "running".
SaveFinalFails(p) ==
    /\ \E s \in {"succeeding", "failing"} : At(p, s, "closing")
    /\ UNCHANGED <<lock, op, cp, db, store, records, sync, orphans, crashes, history>>

\* ingestChange stores the record under its id, whatever was there.
Ingest(k, status) == cloud' = [cloud EXCEPT ![k] = status]

SendRecord(p) ==
    /\ Linked
    /\ At(p, "sending", "marking")
    /\ Ingest(cp[p], rec[cp[p]])
    /\ UNCHANGED <<lock, op, cp, db, store, rec, synced, sync, orphans, crashes, history>>

\* Not linked, not reachable, refused, or the record file cannot be rewritten.
\* A request whose answer is lost may have arrived.
SendFails(p) ==
    /\ \E s \in {"sending", "marking"} : At(p, s, "closing")
    /\ UNCHANGED <<lock, op, cp, db, store, records, sync, orphans, crashes, history>>

MarkSynced(p) ==
    /\ At(p, "marking", "closing")
    /\ synced' = synced \cup {cp[p]}
    /\ UNCHANGED <<lock, op, cp, db, store, rec, cloud, sync, orphans, crashes, history>>

Close(p) ==
    /\ At(p, "closing", "idle")
    /\ lock' = lock \ {p}
    /\ op' = [op EXCEPT ![p] = NoOp]
    /\ cp' = [cp EXCEPT ![p] = 0]
    /\ UNCHANGED <<db, store, records, sync, orphans, crashes, history>>

\* The process is killed: the server ends its session and so its lock.  A
\* migration command or restore tool it had started goes on; a SQL file does not.
Crash(p) ==
    /\ pc[p] # "idle"
    /\ crashes < MaxCrashes
    /\ crashes' = crashes + 1
    /\ pc' = [pc EXCEPT ![p] = "idle"]
    /\ lock' = lock \ {p}
    /\ op' = [op EXCEPT ![p] = NoOp]
    /\ cp' = [cp EXCEPT ![p] = 0]
    /\ orphans' \in IF pc[p] \in {"applying", "emptied"} THEN {orphans, orphans + 1}
                                                  ELSE {orphans}
    /\ UNCHANGED <<db, store, records, sync, history>>

-----------------------------------------------------------------------------
(* `dbdock sync`: read every local record, then send those that are done.  *)

\* Slip: records of changes still running are sent too.
SyncReadRunning ==
    /\ Linked
    /\ batch = {} /\ arrived = {}
    /\ batch' = {<<k, rec[k]>> : k \in {j \in Ids : rec[j] # "none" /\ j \notin synced}}
    /\ batch' # {}
    /\ UNCHANGED <<work, db, store, records, arrived, orphans, crashes, history>>

\* Slip: only changes that succeeded are retried.
SyncReadSucceeded ==
    /\ Linked
    /\ batch = {} /\ arrived = {}
    /\ batch' = {<<k, rec[k]>> : k \in {j \in Ids : rec[j] = "succeeded" /\ j \notin synced}}
    /\ batch' # {}
    /\ UNCHANGED <<work, db, store, records, arrived, orphans, crashes, history>>

SyncRead ==
    /\ Linked
    /\ batch = {} /\ arrived = {}
    /\ batch' = {<<k, rec[k]>> : k \in {j \in Ids : rec[j] \in Terminal /\ j \notin synced}}
    /\ batch' # {}
    /\ UNCHANGED <<work, db, store, records, arrived, orphans, crashes, history>>

SyncSend ==
    /\ arrived = {}
    /\ \E e \in batch :
          /\ batch' = batch \ {e}
          /\ arrived' = {e}
          /\ Ingest(e[1], e[2])
    /\ UNCHANGED <<work, db, store, rec, synced, orphans, crashes, history>>

\* saveRecord writes back the record as it was read.
SyncMark ==
    /\ \E e \in arrived :
          /\ rec' = [rec EXCEPT ![e[1]] = e[2]]
          /\ synced' = synced \cup {e[1]}
    /\ arrived' = {}
    /\ UNCHANGED <<work, db, store, cloud, batch, orphans, crashes, history>>

\* Slip: a record Cloud refused is marked synced as well.
SyncSkipMarked ==
    /\ arrived = {}
    /\ \E e \in batch : batch' = batch \ {e} /\ synced' = synced \cup {e[1]}
    /\ UNCHANGED <<work, db, store, rec, cloud, arrived, orphans, crashes, history>>

\* One record could not be sent or marked: the loop goes on.
SyncSkip ==
    /\ \/ arrived # {} /\ arrived' = {} /\ UNCHANGED batch
       \/ arrived = {} /\ \E e \in batch : batch' = batch \ {e} /\ UNCHANGED arrived
    /\ UNCHANGED <<work, db, store, records, orphans, crashes, history>>

-----------------------------------------------------------------------------
(* Others that act on the database and on the store.                       *)

OutsideWrite ==
    /\ OutsideWriters \/ orphans > 0
    /\ \E next \in SUBSET Data :
          /\ db' = next
          /\ seen' = IF lock = {} THEN seen \ (db \ next) ELSE seen
          /\ disturbed' = (disturbed \/ (lock # {} /\ next # db))
    /\ UNCHANGED <<work, store, records, sync, orphans, crashes, before>>

OrphanEnds ==
    /\ orphans > 0
    /\ orphans' = orphans - 1
    /\ UNCHANGED <<work, db, store, records, sync, crashes, history>>

\* `dbdock backup` into the same store: a dump without lock or manifest.
Backup ==
    /\ SharedStore
    /\ last < MaxCheckpoints
    /\ last' = last + 1
    /\ content' = [content EXCEPT ![last + 1] = db]
    /\ stored' = stored \cup {last + 1}
    /\ UNCHANGED <<work, db, scope, manifests, records, sync, orphans, crashes, history>>

\* evaluateRetention: the Keep newest dumps are safe, whatever wrote them.
Newest(n) == {k \in stored : Cardinality({j \in stored : j > k}) < n}

\* An older one goes when it is over the maximum or too old.
CleanUp ==
    /\ SharedStore
    /\ \E k \in stored \ Newest(Keep) : stored' = stored \ {k}
    /\ UNCHANGED <<work, db, last, content, scope, manifests, records, sync, orphans,
                   crashes, history>>

-----------------------------------------------------------------------------
Progress(p) ==
    \/ LockDatabase(p) \/ LockFails(p) \/ Refuse(p)
    \/ SaveDump(p) \/ SaveManifest(p) \/ SaveRunning(p) \/ ChangeEnds(p)
    \/ VerifyDump(p) \/ DumpUnreadable(p) \/ Reset(p) \/ ResetFails(p)
    \/ Load(p) \/ LoadFails(p)
    \/ SaveFinal(p) \/ SaveFinalFails(p)
    \/ SendRecord(p) \/ SendFails(p) \/ MarkSynced(p) \/ Close(p)

Ask(p) == BeginRun(p) \/ BeginRestore(p) \/ BeginUndo(p)

Sync == SyncRead \/ SyncSend \/ SyncMark \/ SyncSkip

Next ==
    \/ \E p \in Procs : Ask(p) \/ Work(p) \/ Progress(p) \/ Crash(p)
    \/ Sync
    \/ OutsideWrite \/ OrphanEnds \/ Backup \/ CleanUp

Spec == Init /\ [][Next]_vars

\* A command ends by itself, and a process that is not killed goes on; `dbdock
\* sync` is run again and again, and Cloud does not refuse for ever.
Fairness ==
    /\ \A p \in Procs : WF_vars(Progress(p))
    /\ WF_vars(SyncRead) /\ SF_vars(SyncSend) /\ SF_vars(SyncMark)

FairSpec == Spec /\ Fairness

-----------------------------------------------------------------------------
(* Safety.                                                                 *)

\* One guarded operation at a time: whoever is between lockDatabase and close
\* holds the lock, alone, also when holders are killed (database.ts:59-72).
LockedAlone ==
    /\ \A p \in Procs : pc[p] \in Guarded => p \in lock
    /\ \A p, q \in lock : p = q

\* Enough newer dumps were taken for the clean-up to take this one.
Old(k) == last - k >= Keep

\* A change has a record only when a complete checkpoint was saved before it:
\* manifest and dump are there and, when nobody else wrote, the dump holds what
\* the database held when the change began (guard.ts:47-85, README.md:19).
CheckpointFirst ==
    \A k \in Ids : rec[k] # "none" =>
        /\ k \in manifests
        /\ k \in stored \/ Old(k)
        /\ disturbed \/ content[k] = before[k]

\* What a guarded operation found in the database is still there or is in a
\* checkpoint that can be restored, however operations fail, are killed or
\* follow each other; a clean-up takes only a checkpoint that Keep newer dumps
\* came after (guard.ts:36-85, restore-standalone.ts:235-310, retention.ts:42-83).
Recoverable == db \cup UNION {content[k] : k \in {j \in manifests : j \in stored \/ Old(j)}}

NothingLost == disturbed \/ seen \subseteq Recoverable

\* A restore that reports success has put back exactly what its checkpoint
\* holds, not part of it, and left nothing else in the schemas it replaced
\* (strict, restore-standalone.ts:291-310; restore.ts:61, database-lock.ts:292-318).
RestoreExact ==
    \A p \in Procs :
        pc[p] = "succeeding" /\ op[p].kind # "run" /\ ~disturbed
            => db \cap scope[Target(p)] = content[Target(p)]

\* Cloud only knows finished records and says of each what the file says; a
\* file is marked synced only when Cloud has it (records.ts:68-105).
CloudHonest ==
    \A k \in Ids :
        /\ cloud[k] # "none" => cloud[k] \in Terminal /\ cloud[k] = rec[k]
        /\ k \in synced => cloud[k] # "none"

\* undo takes back the last change: at the time it has put its target back no
\* change lies between the target and itself (undo.ts:11-12, README.md:38).
UndoesLastChange ==
    \A p \in Procs :
        pc[p] = "succeeding" /\ op[p].kind = "undo"
            => \A k \in Ids : Target(p) < k /\ k < cp[p] => rec[k] = "none"

\* The clean-up leaves every dump that has fewer than Keep newer ones, so the
\* checkpoint of an operation in progress goes only when Keep dumps were taken
\* after it (retention.ts:42-83).
MinBackupsKept == \A k \in 1..last : last - k < Keep => k \in stored

-----------------------------------------------------------------------------
(* What a step may never do.                                               *)

FinishedStay ==
    \A k \in Ids :
        /\ rec[k] \in Terminal => rec'[k] = rec[k]
        /\ k \in synced => k \in synced'

\* A finished record never changes again and stays marked once it is: neither
\* the guard nor a concurrent `dbdock sync` that read an older copy writes over
\* it (records.ts:95-101).
RecordsFinal == [][FinishedStay]_vars

-----------------------------------------------------------------------------
(* Liveness.                                                               *)

\* The lock is always given back (guard.ts:113-115).
LockReleased == \A p \in Procs : p \in lock ~> p \notin lock

\* A finished record reaches Cloud (README.md:34).
EventuallySent ==
    \A k \in Ids : Linked /\ rec[k] \in Terminal ~> k \in synced
=============================================================================
