------------------------------- MODULE Restores -------------------------------
(***************************************************************************)
(* Restoring a backup: `dbdock restore`, and programs that call            *)
(* lockDatabase, restoreBackupStandalone and DatabaseLock.reset of the     *)
(* library.  src/cli/commands/restore.ts, src/standalone/{database-lock,   *)
(* restore-standalone}.ts, src/crypto/*, src/engines/*.                    *)
(*                                                                         *)
(* The database is a set of objects, each in a schema.  A backup is a file *)
(* of objects that may be cut short, be made with another key or disappear *)
(* while it is used.  A restore reads it, proves that it decodes, empties  *)
(* the schemas it will fill and starts the restore tool of the database,   *)
(* which creates the objects one by one and outlives a killed dbdock.      *)
(***************************************************************************)
EXTENDS Integers, FiniteSets

CONSTANTS
    Procs,         \* programs that restore
    Keys,          \* the backups in the store
    Schemas,       \* the schemas of the database
    Managed,       \* those a hosting platform runs (auth, storage, pg_*)
    Owned,         \* those this role may empty
    Objects,       \* the objects it may hold, each <<schema, name>>
    Uses,          \* pairs of objects: the first goes with the second (a view
                   \* with its table, a trigger with its function)
    Contents,      \* the objects in each backup
    Jobs,          \* the restores that are asked for
    Local,         \* backups are files on disk, read in place
    Encoded,       \* backups are encrypted or compressed
    MaxRestores,   \* bound: restores started
    MaxFaults      \* bound: files spoilt, connections lost, processes killed

Kinds == {"locked", "bare", "command"}
JobType == [kind : Kinds, key : Keys, strict : BOOLEAN, checksum : BOOLEAN,
            wanted : SUBSET Schemas, all : BOOLEAN]

ASSUME SchemasAssumption == /\ Managed \subseteq Schemas /\ Owned \subseteq Schemas
                            /\ \A o \in Objects : o[1] \in Schemas
                            /\ Uses \subseteq Objects \X Objects
                            /\ Contents \in [Keys -> SUBSET Objects]
ASSUME JobsAssumption == Jobs \subseteq JobType /\ Jobs # {}
ASSUME ModesAssumption == /\ Local \in BOOLEAN /\ Encoded \in BOOLEAN
                          /\ MaxRestores \in Nat /\ MaxFaults \in Nat

NoJob == CHOOSE j \in Jobs : TRUE

Engines == {"postgres", "mysql"}
Files == {"whole", "cut", "foreign", "gone"}
PCs == {"idle", "asking", "locking", "opening", "reading", "checking", "preparing", "dropping",
        "starting", "loading", "succeeded", "failed", "closing"}

VARIABLES
    engine,     \* PostgreSQL, or MySQL without schemas and without such transactions
    db,         \* the objects in the database
    file,       \* the state of each backup file
    lock,       \* the sessions that hold the restore lock of the database
    lost,       \* the programs that saw the connection of their lock end
    pc,         \* where each program is
    job,        \* what it was asked to do
    copy,       \* the state of its temporary copy, "gone" when there is none
    todo,       \* the objects its reset has named to be dropped
    left,       \* the objects its restore tool has still to create
    err,        \* what its tool reported: nothing, an error that lost data, or
                \* that its input broke off
    orphans,    \* objects that tools of killed programs have still to create
    started, faults,  \* counters of the bounds
    spoilt,     \* history: programs whose file changed under them
    disturbed   \* history: programs beside which one without the lock wrote

locks == <<lock, lost>>
work == <<job, copy, todo>>
tool == <<left, err>>
outside == <<orphans, started, faults>>
history == <<spoilt, disturbed>>
vars == <<engine, db, file, locks, pc, work, tool, outside, history>>

TypeOK ==
    /\ engine \in Engines
    /\ db \subseteq Objects
    /\ file \in [Keys -> Files]
    /\ lock \subseteq Procs /\ lost \subseteq Procs
    /\ pc \in [Procs -> PCs]
    /\ job \in [Procs -> Jobs]
    /\ copy \in [Procs -> Files]
    /\ todo \in [Procs -> SUBSET Objects]
    /\ left \in [Procs -> SUBSET Objects]
    /\ err \in [Procs -> {"none", "error", "broken"}]
    /\ orphans \subseteq Objects
    /\ started \in 0..MaxRestores /\ faults \in 0..MaxFaults
    /\ spoilt \subseteq Procs /\ disturbed \subseteq Procs

Init ==
    /\ engine \in Engines
    /\ db \in SUBSET Objects
    /\ file \in [Keys -> {"whole", "foreign"}]
    /\ lock = {} /\ lost = {}
    /\ pc = [p \in Procs |-> "idle"]
    /\ job = [p \in Procs |-> NoJob]
    /\ copy = [p \in Procs |-> "gone"]
    /\ todo = [p \in Procs |-> {}]
    /\ left = [p \in Procs |-> {}]
    /\ err = [p \in Procs |-> "none"]
    /\ orphans = {}
    /\ started = 0 /\ faults = 0
    /\ spoilt = {} /\ disturbed = {}

Postgres == engine = "postgres"

At(p, from, to) == pc[p] = from /\ pc' = [pc EXCEPT ![p] = to]
Kind(p) == job[p].kind
Key(p) == job[p].key

\* Everything from the emptying of the schemas to the answer.
Filling == {"dropping", "starting", "loading", "succeeded"}

\* Programs that write without the lock disturb every other one that fills.
Excluded(p) == Kind(p) = "locked" /\ p \notin lost
Disturbs(p) ==
    disturbed' = IF Excluded(p) THEN disturbed
                 ELSE disturbed \cup {q \in Procs \ {p} : pc[q] \in Filling}

-----------------------------------------------------------------------------
(* The schemas a reset empties.                                            *)

isManagedSchema(s) == s \in Managed

restorableSchemas == {s \in Owned : ~isManagedSchema(s)}

\* Those of the schemas asked for that must not be replaced; all of them exist.
refusedSchemas(schemas) == {s \in schemas : isManagedSchema(s) \/ s \notin restorableSchemas}

\* reset() without schemas, or MySQL, whose database is its only schema.
Targets(p) == IF job[p].all THEN IF Postgres THEN restorableSchemas ELSE Schemas
              ELSE job[p].wanted

Refused(p) == Postgres /\ ~job[p].all /\ refusedSchemas(job[p].wanted) # {}

\* The objects the DROP statements of a reset name.
ObjectsIn(schemas) == {o \in db : o[1] \in schemas}
mysqlDropStatements == db

-----------------------------------------------------------------------------
(* A restore begins.                                                       *)

\* `dbdock restore` offers the backups it finds in the store.
Listed == {k \in Keys : file[k] # "gone"}

Ask(p, j, to) ==
    /\ started < MaxRestores
    /\ started' = started + 1
    /\ At(p, "idle", to)
    /\ job' = [job EXCEPT ![p] = j]
    /\ lost' = lost \ {p}
    /\ spoilt' = spoilt \ {p}
    /\ disturbed' = disturbed \ {p}
    /\ copy' = [copy EXCEPT ![p] = "gone"]
    /\ err' = [err EXCEPT ![p] = "none"]
    /\ UNCHANGED <<engine, db, file, lock, todo, left, orphans, faults>>

\* One of them is chosen.
restoreCommand(p) ==
    \E j \in Jobs : j.kind = "command" /\ j.key \in Listed /\ Ask(p, j, "asking")

\* The target is the database of the configuration, and the question is
\* answered with yes; else the command leaves this database alone.
Confirm(p) ==
    /\ At(p, "asking", "opening")
    /\ UNCHANGED <<engine, db, file, locks, work, tool, outside, history>>

Cancel(p) ==
    /\ At(p, "asking", "idle")
    /\ job' = [job EXCEPT ![p] = NoJob]
    /\ UNCHANGED <<engine, db, file, locks, copy, todo, tool, outside, history>>

\* A program calls restoreBackupStandalone, beneath a lock or without one.
restoreBackupStandalone(p) ==
    \E j \in Jobs : \/ j.kind = "bare" /\ Ask(p, j, "opening")
                    \/ j.kind = "locked" /\ Ask(p, j, "locking")

\* Slip: the answer of pg_try_advisory_lock is not looked at.
lockDatabaseUnchecked(p) ==
    /\ At(p, "locking", "opening")
    /\ lock' = lock \cup {p}
    /\ UNCHANGED <<engine, db, file, lost, work, tool, outside, history>>

\* pg_try_advisory_lock and GET_LOCK(?, 0) answer at once.
lockDatabase(p) ==
    /\ lock = {}
    /\ At(p, "locking", "opening")
    /\ lock' = {p}
    /\ UNCHANGED <<engine, db, file, lost, work, tool, outside, history>>

\* DatabaseBusyError, or the server cannot be reached.
lockFails(p) ==
    /\ At(p, "locking", "idle")
    /\ job' = [job EXCEPT ![p] = NoJob]
    /\ UNCHANGED <<engine, db, file, locks, copy, todo, tool, outside, history>>

\* The server ends the session and gives its lock away; the program learns of
\* it by an event, and looks at it only when it resets.
LoseConnection(p) ==
    /\ p \in lock
    /\ faults < MaxFaults
    /\ faults' = faults + 1
    /\ lock' = lock \ {p}
    /\ lost' = lost \cup {p}
    /\ UNCHANGED <<engine, db, file, pc, work, tool, orphans, started, history>>

-----------------------------------------------------------------------------
(* The backup is fetched and proved.                                       *)

\* What the program reads: the file in place, or its copy.
Source(p) == IF Local THEN file[Key(p)] ELSE copy[p]

Fails(p, from) ==
    /\ At(p, from, "failed")
    /\ UNCHANGED <<engine, db, file, locks, work, tool, outside, history>>

\* restoreBackupStandalone.
openSourceStream(p) ==
    /\ Kind(p) # "command"
    /\ file[Key(p)] # "gone"
    /\ At(p, "opening", "reading")
    /\ copy' = IF Local THEN copy ELSE [copy EXCEPT ![p] = file[Key(p)]]
    /\ UNCHANGED <<engine, db, file, locks, job, todo, tool, outside, history>>

\* `dbdock restore`.
Download(p) ==
    /\ Kind(p) = "command"
    /\ file[Key(p)] # "gone"
    /\ At(p, "opening", "starting")
    /\ copy' = IF Local THEN copy ELSE [copy EXCEPT ![p] = file[Key(p)]]
    /\ UNCHANGED <<engine, db, file, locks, job, todo, tool, outside, history>>

\* The backup is not there, or the download breaks off.
OpenFails(p) == Fails(p, "opening")

\* Any other content than that of the checkpoint has another checksum.
Checksum(p) ==
    /\ At(p, "reading", IF job[p].checksum /\ Source(p) # "whole" THEN "failed"
                        ELSE IF Kind(p) = "locked" THEN "checking" ELSE "starting")
    /\ UNCHANGED <<engine, db, file, locks, work, tool, outside, history>>

\* What decoding tells of a file to its end: the fingerprint of the key, the
\* authentication tag, the end of the compressed stream.  Without encryption
\* and compression it tells nothing.
Decodes(f) == f = "whole" \/ (f = "cut" /\ ~Encoded)

\* Slip: only the header of the backup is looked at.
verifyHeaderOnly(p) ==
    /\ Source(p) \in {"whole", "cut"}
    /\ At(p, "checking", "preparing")
    /\ UNCHANGED <<engine, db, file, locks, work, tool, outside, history>>

verifyBackupDecodes(p) ==
    /\ Decodes(Source(p))
    /\ At(p, "checking", "preparing")
    /\ UNCHANGED <<engine, db, file, locks, work, tool, outside, history>>

Undecodable(p) == ~Decodes(Source(p)) /\ Fails(p, "checking")

-----------------------------------------------------------------------------
(* beforeRestore: DatabaseLock.reset.                                      *)

\* The transaction is open and the DROP statements are made.
reset(p) ==
    /\ p \notin lost
    /\ ~Refused(p)
    /\ At(p, "preparing", "dropping")
    /\ todo' = [todo EXCEPT ![p] = IF Postgres THEN ObjectsIn(Targets(p))
                                   ELSE mysqlDropStatements]
    /\ UNCHANGED <<engine, db, file, locks, job, copy, tool, outside, history>>

\* The connection was lost, a schema is refused, an object is of a type DBDock
\* does not know to drop, or a query fails: nothing has been changed.
ResetRefused(p) == Fails(p, "preparing")

\* DROP ... CASCADE, wherever the dependent object lies.
Cascade(objects) == objects \cup {o \in db : \E u \in objects \cap db : <<o, u>> \in Uses}

\* PostgreSQL drops everything in one transaction on the locked connection.
resetPostgres(p) ==
    /\ Postgres
    /\ p \notin lost
    /\ At(p, "dropping", "starting")
    /\ db' = db \ Cascade(todo[p])
    /\ todo' = [todo EXCEPT ![p] = {}]
    /\ Disturbs(p)
    /\ UNCHANGED <<engine, file, locks, job, copy, tool, outside, spoilt>>

\* MySQL commits each DROP.
resetMysql(p) ==
    /\ ~Postgres
    /\ p \notin lost
    /\ pc[p] = "dropping"
    /\ IF todo[p] = {}
       THEN /\ At(p, "dropping", "starting")
            /\ UNCHANGED <<engine, db, todo, disturbed>>
       ELSE \E o \in todo[p] :
               /\ db' = db \ {o}
               /\ todo' = [todo EXCEPT ![p] = @ \ {o}]
               /\ Disturbs(p)
               /\ UNCHANGED pc
    /\ UNCHANGED <<engine, file, locks, job, copy, tool, outside, spoilt>>

\* A statement fails, or the connection ends beneath it: ROLLBACK.
ResetFails(p) ==
    /\ At(p, "dropping", "failed")
    /\ todo' = [todo EXCEPT ![p] = {}]
    /\ UNCHANGED <<engine, db, file, locks, job, copy, tool, outside, history>>

-----------------------------------------------------------------------------
(* The restore tool.  It reads the backup a second time.                   *)

\* A file that breaks off feeds the tool its beginning.
Fed(p) == IF Source(p) = "whole" THEN {Contents[Key(p)]} ELSE SUBSET Contents[Key(p)]

\* A decoding stream ends with an error; pg_restore misses the end of its
\* archive; mysql executes the statements it gets.
Broken(p) == IF Source(p) = "whole" THEN {"none"}
             ELSE IF Encoded THEN {"broken"}
             ELSE IF Postgres THEN {"error"} ELSE {"none", "error"}

spawnRestore(p) ==
    /\ Source(p) \in {"whole", "cut"}
    /\ At(p, "starting", "loading")
    /\ \E part \in Fed(p) : left' = [left EXCEPT ![p] = part]
    /\ \E e \in Broken(p) : err' = [err EXCEPT ![p] = e]
    /\ UNCHANGED <<engine, db, file, locks, work, outside, history>>

\* The file is gone or of another key, a setting is missing, or the tool is.
SpawnFails(p) == Fails(p, "starting")

\* An exception of spawnRestore ends the command without its cleanupTemp.
SpawnThrows(p) == Kind(p) = "command" /\ At(p, "starting", "closing")
    /\ UNCHANGED <<engine, db, file, locks, work, tool, outside, history>>

\* Without a reset the tool drops each object before it creates it.
Cleans(p) == Kind(p) # "locked"

\* The tool creates an object that is not there, or that it has dropped.
CreateObject(p, o) ==
    /\ Cleans(p) \/ o \notin db
    /\ db' = db \cup {o}
    /\ UNCHANGED err

\* The server refuses it: it exists, its type is missing, ...
ObjectRefused(p, o) ==
    /\ db' \in IF Cleans(p) THEN {db, db \ {o}} ELSE {db}
    /\ err' = [err EXCEPT ![p] = IF @ = "none" THEN "error" ELSE @]

Load(p) ==
    /\ pc[p] = "loading"
    /\ \E o \in left[p] :
          /\ left' = [left EXCEPT ![p] = @ \ {o}]
          /\ CreateObject(p, o) \/ ObjectRefused(p, o)
    /\ Disturbs(p)
    /\ UNCHANGED <<engine, file, locks, pc, work, outside, spoilt>>

\* strict: exit code 0, or every error pg_restore reports is a harmless one.
strictRestoreFailure(p) == err[p] # "none"

\* Else an error is heard only in a piece of output of its own: one that comes
\* with a warning or a notice is passed over with it.
Heard(p) == IF job[p].strict \/ err[p] # "error" THEN {strictRestoreFailure(p)}
            ELSE {TRUE, FALSE}

ToolEnds(p) ==
    /\ left[p] = {} /\ ~(Kind(p) = "command" /\ err[p] = "broken")
    /\ \E heard \in Heard(p) : At(p, "loading", IF heard THEN "failed" ELSE "succeeded")
    /\ UNCHANGED <<engine, db, file, locks, work, tool, outside, history>>

\* The tool stops before its end, or the source cannot be read on: it is killed.
ToolFails(p) ==
    /\ At(p, "loading", "failed")
    /\ left' = [left EXCEPT ![p] = {}]
    /\ UNCHANGED <<engine, db, file, locks, work, err, outside, history>>

\* The finally block; cleanupTemp.
cleanup(p) ==
    /\ \E s \in {"succeeded", "failed"} : At(p, s, "closing")
    /\ copy' = [copy EXCEPT ![p] = "gone"]
    /\ UNCHANGED <<engine, db, file, locks, job, todo, tool, outside, history>>

close(p) ==
    /\ At(p, "closing", "idle")
    /\ lock' = lock \ {p}
    /\ job' = [job EXCEPT ![p] = NoJob]
    /\ UNCHANGED <<engine, db, file, lost, copy, todo, tool, outside, history>>

-----------------------------------------------------------------------------
(* What happens beside it.                                                 *)

\* A program ends.  Its tool goes on with what it was given, or does not.
Ends(p) ==
    /\ pc' = [pc EXCEPT ![p] = "idle"]
    /\ lock' = lock \ {p}
    /\ orphans' \in {orphans, orphans \cup left[p]}
    /\ left' = [left EXCEPT ![p] = {}]
    /\ todo' = [todo EXCEPT ![p] = {}]
    /\ job' = [job EXCEPT ![p] = NoJob]
    /\ UNCHANGED <<engine, db, file, lost, copy, err, started, history>>

\* It is killed, or its tool ends before its input does.
Stop(p) == pc[p] # "idle" /\ faults < MaxFaults /\ faults' = faults + 1 /\ Ends(p)

\* Nobody listens for the error of a decoding stream that is not the last one,
\* nor of any in the command.
StageThrows(p) == pc[p] = "loading" /\ err[p] = "broken" /\ Ends(p) /\ UNCHANGED faults

OrphanLoads ==
    /\ \E o \in orphans : orphans' = orphans \ {o} /\ db' \in {db, db \cup {o}}
    /\ disturbed' = disturbed \cup {q \in Procs : pc[q] \in Filling}
    /\ UNCHANGED <<engine, file, locks, pc, work, tool, started, faults, spoilt>>

\* A clean-up, a disk or a hand takes the file, or a part of it.
Spoil(k) ==
    /\ faults < MaxFaults
    /\ file[k] = "whole"
    /\ faults' = faults + 1
    /\ \E f \in {"cut", "gone"} : file' = [file EXCEPT ![k] = f]
    /\ spoilt' = IF Local THEN spoilt \cup {p \in Procs : pc[p] # "idle" /\ Key(p) = k}
                 ELSE spoilt
    /\ UNCHANGED <<engine, db, locks, pc, work, tool, orphans, started, disturbed>>

-----------------------------------------------------------------------------
Fetch(p) == openSourceStream(p) \/ Download(p) \/ OpenFails(p) \/ Checksum(p)
            \/ verifyBackupDecodes(p) \/ Undecodable(p)
Empty(p) == reset(p) \/ ResetRefused(p) \/ resetPostgres(p) \/ resetMysql(p) \/ ResetFails(p)
Fill(p) == spawnRestore(p) \/ SpawnFails(p) \/ SpawnThrows(p) \/ Load(p) \/ ToolEnds(p) \/ ToolFails(p)

Step(p) == Confirm(p) \/ Cancel(p) \/ lockDatabase(p) \/ lockFails(p) \/ Fetch(p) \/ Empty(p) \/ Fill(p)
           \/ cleanup(p) \/ close(p)

Next ==
    \/ \E p \in Procs : restoreCommand(p) \/ restoreBackupStandalone(p) \/ Step(p)
                        \/ LoseConnection(p) \/ Stop(p) \/ StageThrows(p)
    \/ OrphanLoads
    \/ \E k \in Keys : Spoil(k)

Spec == Init /\ [][Next]_vars

-----------------------------------------------------------------------------
(* README.md:43: platform schemas are never touched; CHANGELOG.md:26: a    *)
(* restore never removes them.  Nothing of a schema that the platform runs *)
(* leaves the database while a reset empties others; only a tool that runs *)
(* without a reset drops what its backup holds (database-lock.ts:125-128,  *)
(* 255-322).                                                               *)
PlatformUntouched ==
    [][\A o \in db \ db' :
          Postgres /\ isManagedSchema(o[1]) =>
             \E p \in Procs : pc[p] = "loading" /\ Cleans(p)]_db

(* A strict restore beneath a lock that reports success has left exactly   *)
(* the objects of the backup in the schemas it replaced, unless it lost    *)
(* the connection of its lock or something without the lock wrote at the   *)
(* same time: no other locked restore can mix with it, what the backup did *)
(* not hold is gone and what it held is there (restore-standalone.ts:240-  *)
(* 311, database-lock.ts:89-126).                                          *)
ExactWhenTold ==
    \A p \in Procs :
        /\ pc[p] = "succeeded" /\ Kind(p) = "locked" /\ job[p].strict
        /\ p \notin lost \cup disturbed
        /\ Postgres \/ (p \notin spoilt /\ (Encoded \/ job[p].checksum))
        => ObjectsIn(Targets(p)) \subseteq Contents[Key(p)] /\ Contents[Key(p)] \subseteq db

(* Objects are removed by a reset only for a backup that has been read to  *)
(* its end: a damaged one, or one of another key, leaves the database as   *)
(* it was (restore-standalone.ts:232-246 and 384-405).                     *)
ProvedFirst ==
    \A p \in Procs :
        /\ pc[p] \in {"dropping", "starting"} /\ Kind(p) = "locked"
        /\ p \notin spoilt
        /\ Encoded \/ job[p].checksum
        => Source(p) = "whole"
=============================================================================
