--------------------------- MODULE RestoresProofs ---------------------------
(***************************************************************************)
(* Proofs about Restores, for any programs, backups, schemas, objects and  *)
(* restores asked for.                                                     *)
(***************************************************************************)
EXTENDS Restores, TLAPS

USE DEF locks, work, tool, outside, history

Shapes ==
    /\ file = [k \in Keys |-> file[k]]
    /\ pc = [p \in Procs |-> pc[p]]
    /\ job = [p \in Procs |-> job[p]]
    /\ copy = [p \in Procs |-> copy[p]]
    /\ todo = [p \in Procs |-> todo[p]]
    /\ left = [p \in Procs |-> left[p]]
    /\ err = [p \in Procs |-> err[p]]

LEMMA ShapesInit == Init => Shapes
  BY DEF Init, Shapes

LEMMA ShapesNext == Shapes /\ [Next]_vars => Shapes'
<1> SUFFICES ASSUME Shapes, [Next]_vars PROVE Shapes'
    OBVIOUS
<1> USE DEF Shapes, At, Fails
<1>1. CASE UNCHANGED vars
  BY <1>1 DEF vars
<1>2. ASSUME NEW p \in Procs, restoreCommand(p) \/ restoreBackupStandalone(p) PROVE Shapes'
  BY <1>2 DEF restoreCommand, restoreBackupStandalone, Ask
<1>3. ASSUME NEW p \in Procs,
             Confirm(p) \/ Cancel(p) \/ lockDatabase(p) \/ lockFails(p) \/ LoseConnection(p)
      PROVE  Shapes'
  BY <1>3 DEF Confirm, Cancel, lockDatabase, lockFails, LoseConnection
<1>4. ASSUME NEW p \in Procs, Fetch(p) PROVE Shapes'
  BY <1>4 DEF Fetch, openSourceStream, Download, OpenFails, Checksum, verifyBackupDecodes,
              Undecodable
<1>5. ASSUME NEW p \in Procs, Empty(p) PROVE Shapes'
  BY <1>5 DEF Empty, reset, ResetRefused, resetPostgres, resetMysql, ResetFails
<1>6. ASSUME NEW p \in Procs, Fill(p) PROVE Shapes'
  <2>1. CASE Load(p)
    BY <2>1 DEF Load, CreateObject, ObjectRefused
  <2>2. CASE ~Load(p)
    BY <1>6, <2>2 DEF Fill, spawnRestore, SpawnFails, SpawnThrows, ToolEnds, ToolFails
  <2>3. QED
    BY <2>1, <2>2
<1>7. ASSUME NEW p \in Procs, cleanup(p) \/ close(p) PROVE Shapes'
  BY <1>7 DEF cleanup, close
<1>8. ASSUME NEW p \in Procs, Stop(p) \/ StageThrows(p) PROVE Shapes'
  BY <1>8 DEF Stop, StageThrows, Ends
<1>9. CASE OrphanLoads \/ \E k \in Keys : Spoil(k)
  BY <1>9 DEF OrphanLoads, Spoil
<1>10. QED
  BY <1>1, <1>2, <1>3, <1>4, <1>5, <1>6, <1>7, <1>8, <1>9 DEF Next, Step

-----------------------------------------------------------------------------
(* A reset names only objects of the schemas it may empty.                 *)

NamedInv == Postgres => \A p \in Procs : \A o \in todo[p] : o[1] \in restorableSchemas

\* The schemas asked for are refused unless they may all be emptied.
LEMMA TargetsSpared ==
    ASSUME NEW p \in Procs, Postgres, ~Refused(p)
    PROVE  Targets(p) \subseteq restorableSchemas
  BY DEF Refused, Targets, refusedSchemas

LEMMA NamedNext == Shapes /\ NamedInv /\ [Next]_vars => NamedInv'
<1> SUFFICES ASSUME Shapes, NamedInv, [Next]_vars PROVE NamedInv'
    OBVIOUS
<1>1. /\ engine' = engine
      /\ todo' = todo \/ \E p \in Procs : \/ reset(p)
                                          \/ \E s \in SUBSET todo[p] : todo' = [todo EXCEPT ![p] = s]
  <2> USE DEF At, Fails
  <2>1. CASE UNCHANGED vars
    BY <2>1 DEF vars
  <2>2. ASSUME NEW p \in Procs, restoreCommand(p) \/ restoreBackupStandalone(p)
        PROVE  UNCHANGED <<engine, todo>>
    BY <2>2 DEF restoreCommand, restoreBackupStandalone, Ask
  <2>3. ASSUME NEW p \in Procs,
               Confirm(p) \/ Cancel(p) \/ lockDatabase(p) \/ lockFails(p) \/ LoseConnection(p)
        PROVE  UNCHANGED <<engine, todo>>
    BY <2>3 DEF Confirm, Cancel, lockDatabase, lockFails, LoseConnection
  <2>4. ASSUME NEW p \in Procs, Fetch(p) PROVE UNCHANGED <<engine, todo>>
    BY <2>4 DEF Fetch, openSourceStream, Download, OpenFails, Checksum, verifyBackupDecodes,
                Undecodable
  <2>5. ASSUME NEW p \in Procs, Fill(p) PROVE UNCHANGED <<engine, todo>>
    BY <2>5 DEF Fill, spawnRestore, SpawnFails, SpawnThrows, Load, ToolEnds, ToolFails
  <2>6. ASSUME NEW p \in Procs, cleanup(p) \/ close(p) PROVE UNCHANGED <<engine, todo>>
    BY <2>6 DEF cleanup, close
  <2>7. CASE OrphanLoads \/ \E k \in Keys : Spoil(k)
    BY <2>7 DEF OrphanLoads, Spoil
  <2>8. ASSUME NEW p \in Procs, Stop(p) \/ StageThrows(p)
        PROVE  engine' = engine /\ todo' = [todo EXCEPT ![p] = {}]
    BY <2>8 DEF Stop, StageThrows, Ends
  <2>9. ASSUME NEW p \in Procs, ResetRefused(p) \/ resetPostgres(p) \/ resetMysql(p) \/ ResetFails(p)
        PROVE  /\ engine' = engine
               /\ todo' = todo \/ \E s \in SUBSET todo[p] : todo' = [todo EXCEPT ![p] = s]
    BY <2>9 DEF ResetRefused, resetPostgres, resetMysql, ResetFails
  <2>10. ASSUME NEW p \in Procs, reset(p) PROVE engine' = engine
    BY <2>10 DEF reset
  <2>11. QED
    BY <2>1, <2>2, <2>3, <2>4, <2>5, <2>6, <2>7, <2>8, <2>9, <2>10 DEF Next, Step, Empty
<1>2. CASE todo' = todo
  BY <1>1, <1>2 DEF NamedInv, Postgres, restorableSchemas, isManagedSchema
<1>3. ASSUME NEW p \in Procs, NEW s \in SUBSET todo[p], todo' = [todo EXCEPT ![p] = s]
      PROVE  NamedInv'
  BY <1>1, <1>3 DEF NamedInv, Postgres, restorableSchemas, isManagedSchema, Shapes
<1>4. ASSUME NEW p \in Procs, reset(p) PROVE NamedInv'
  <2> SUFFICES ASSUME Postgres
               PROVE  \A q \in Procs : \A o \in todo'[q] : o[1] \in restorableSchemas
    BY <1>1 DEF NamedInv, Postgres, restorableSchemas, isManagedSchema
  <2>1. Targets(p) \subseteq restorableSchemas
    BY <1>4, TargetsSpared DEF reset
  <2>2. todo' = [todo EXCEPT ![p] = ObjectsIn(Targets(p))]
    BY <1>4 DEF reset
  <2>3. QED
    BY <2>1, <2>2 DEF NamedInv, ObjectsIn, Shapes
<1>5. QED
  BY <1>1, <1>2, <1>3, <1>4

\* What each step takes out of the database.
LEMMA Removals ==
    ASSUME Shapes, NamedInv, [Next]_vars, NEW o \in db \ db', Postgres
    PROVE  \/ o[1] \in restorableSchemas
           \/ \E u \in db \ db' : u[1] \in restorableSchemas /\ <<o, u>> \in Uses
           \/ \E p \in Procs : pc[p] = "loading" /\ Cleans(p)
<1> USE DEF At, Fails
<1>1. ASSUME NEW p \in Procs, resetPostgres(p)
      PROVE  \/ o[1] \in restorableSchemas
             \/ \E u \in db \ db' : u[1] \in restorableSchemas /\ <<o, u>> \in Uses
  BY <1>1 DEF resetPostgres, Cascade, NamedInv
<1>2. ASSUME NEW p \in Procs, Load(p) PROVE pc[p] = "loading" /\ Cleans(p)
  BY <1>2 DEF Load, CreateObject, ObjectRefused
<1>3. ASSUME NEW p \in Procs,
             \/ restoreCommand(p) \/ restoreBackupStandalone(p)
             \/ Confirm(p) \/ Cancel(p) \/ lockDatabase(p) \/ lockFails(p) \/ LoseConnection(p)
      PROVE  FALSE
  BY <1>3 DEF restoreCommand, restoreBackupStandalone, Ask, Confirm, Cancel, lockDatabase,
              lockFails, LoseConnection
<1>4. ASSUME NEW p \in Procs, Fetch(p) \/ cleanup(p) \/ close(p) PROVE FALSE
  BY <1>4 DEF Fetch, openSourceStream, Download, OpenFails, Checksum, verifyBackupDecodes,
              Undecodable, cleanup, close
<1>5. ASSUME NEW p \in Procs, reset(p) \/ ResetRefused(p) \/ resetMysql(p) \/ ResetFails(p)
      PROVE  FALSE
  BY <1>5 DEF reset, ResetRefused, resetMysql, ResetFails
<1>6. ASSUME NEW p \in Procs,
             spawnRestore(p) \/ SpawnFails(p) \/ SpawnThrows(p) \/ ToolEnds(p) \/ ToolFails(p)
      PROVE  FALSE
  BY <1>6 DEF spawnRestore, SpawnFails, SpawnThrows, ToolEnds, ToolFails
<1>7. ASSUME NEW p \in Procs, Stop(p) \/ StageThrows(p) PROVE FALSE
  BY <1>7 DEF Stop, StageThrows, Ends
<1>8. CASE UNCHANGED vars \/ OrphanLoads \/ \E k \in Keys : Spoil(k)
  BY <1>8 DEF vars, OrphanLoads, Spoil
<1>9. QED
  BY <1>1, <1>2, <1>3, <1>4, <1>5, <1>6, <1>7, <1>8 DEF Next, Step, Empty, Fill

(* PlatformUntouched does not hold; this is all that is left of it.  An    *)
(* object of a platform schema, or of any other that the role may not      *)
(* empty, is never named by a reset: it goes when CASCADE takes it because *)
(* it uses an object that is removed with it, or when a tool that runs     *)
(* without a reset drops it.                                               *)
LostOnlyToCascade ==
    [][\A o \in db \ db' :
          Postgres /\ o[1] \notin restorableSchemas =>
             \/ \E u \in db \ db' : u[1] \in restorableSchemas /\ <<o, u>> \in Uses
             \/ \E p \in Procs : pc[p] = "loading" /\ Cleans(p)]_db

\* Whatever schemas a reset is asked for, it takes from the others only what uses an
\* object that it removes (database-lock.ts:255-322).
THEOREM OthersLostOnlyToCascade == Spec => LostOnlyToCascade
<1>1. Init => Shapes /\ NamedInv
  BY ShapesInit DEF Init, NamedInv
<1>2. Shapes /\ NamedInv /\ [Next]_vars => (Shapes /\ NamedInv)'
  BY ShapesNext, NamedNext
<1> DEFINE Lost == \A o \in db \ db' :
                      Postgres /\ o[1] \notin restorableSchemas =>
                         \/ \E u \in db \ db' : u[1] \in restorableSchemas /\ <<o, u>> \in Uses
                         \/ \E p \in Procs : pc[p] = "loading" /\ Cleans(p)
<1>3. Shapes /\ NamedInv /\ [Next]_vars => [Lost]_db
  BY Removals
<1>4. QED
  BY <1>1, <1>2, <1>3, PTL DEF Spec, LostOnlyToCascade
-----------------------------------------------------------------------------
(* The lock: of the programs that have it, and have not lost it, there is  *)
(* one at a time.                                                          *)

Before == {"idle", "asking", "locking"}

Holds(p) == Kind(p) = "locked" /\ p \notin lost /\ pc[p] \notin Before

LockInv == /\ \A p \in Procs : Holds(p) => p \in lock
           /\ \A p, q \in lock : p = q
           /\ \A p \in Procs : pc[p] = "asking" => Kind(p) # "locked"

LEMMA LockNext == Shapes /\ LockInv /\ [Next]_vars => LockInv'
<1> SUFFICES ASSUME Shapes, LockInv, [Next]_vars PROVE LockInv'
    OBVIOUS
<1> USE DEF Shapes, LockInv, Holds, Before, At, Fails, Kind
<1>1. CASE UNCHANGED vars
  BY <1>1 DEF vars
<1>2. ASSUME NEW p \in Procs, restoreCommand(p) \/ restoreBackupStandalone(p) PROVE LockInv'
  <2>1. PICK j : \/ j.kind # "locked" /\ \E to : Ask(p, j, to)
                 \/ Ask(p, j, "locking")
    BY <1>2 DEF restoreCommand, restoreBackupStandalone
  <2>2. /\ job' = [job EXCEPT ![p] = j] /\ lost' = lost \ {p} /\ lock' = lock
        /\ j.kind # "locked" \/ pc'[p] = "locking"
        /\ \A q \in Procs \ {p} : pc'[q] = pc[q]
    BY <2>1 DEF Ask
  <2>3. QED
    BY <2>2
<1>3. ASSUME NEW p \in Procs, Confirm(p) \/ Cancel(p) \/ lockDatabase(p) \/ lockFails(p)
      PROVE  LockInv'
  <2>1. CASE Confirm(p)
    BY <2>1 DEF Confirm
  <2>2. CASE Cancel(p) \/ lockDatabase(p) \/ lockFails(p)
    BY <2>2 DEF Cancel, lockDatabase, lockFails
  <2>3. QED
    BY <1>3, <2>1, <2>2
<1>4. ASSUME NEW p \in Procs, LoseConnection(p) PROVE LockInv'
  BY <1>4 DEF LoseConnection
<1>5. ASSUME NEW p \in Procs, Fetch(p) PROVE LockInv'
  BY <1>5 DEF Fetch, openSourceStream, Download, OpenFails, Checksum, verifyBackupDecodes,
              Undecodable
<1>6. ASSUME NEW p \in Procs, Empty(p) PROVE LockInv'
  BY <1>6 DEF Empty, reset, ResetRefused, resetPostgres, resetMysql, ResetFails
<1>7. ASSUME NEW p \in Procs, Fill(p) PROVE LockInv'
  BY <1>7 DEF Fill, spawnRestore, SpawnFails, SpawnThrows, Load, ToolEnds, ToolFails
<1>8. ASSUME NEW p \in Procs, cleanup(p) \/ close(p) PROVE LockInv'
  BY <1>8 DEF cleanup, close
<1>9. ASSUME NEW p \in Procs, Stop(p) \/ StageThrows(p) PROVE LockInv'
  BY <1>9 DEF Stop, StageThrows, Ends
<1>10. CASE OrphanLoads \/ \E k \in Keys : Spoil(k)
  BY <1>10 DEF OrphanLoads, Spoil
<1>11. QED
  BY <1>1, <1>2, <1>3, <1>4, <1>5, <1>6, <1>7, <1>8, <1>9, <1>10 DEF Next, Step

-----------------------------------------------------------------------------
(* The proof of a backup: from the checksum on, or from the decoding on,   *)
(* what is read is whole, unless the file changed under the restore.       *)

Whole(p) ==
    Kind(p) = "locked" /\ p \notin spoilt =>
        /\ pc[p] = "checking" /\ job[p].checksum => Source(p) = "whole"
        /\ pc[p] \in {"preparing", "dropping", "starting"} /\ (Encoded \/ job[p].checksum)
              => Source(p) = "whole"

WholeInv == \A p \in Procs : Whole(p)

\* A program whose file, copy and task are as they were.
LEMMA WholeStays ==
    ASSUME NEW p \in Procs, Whole(p), file' = file, spoilt' = spoilt,
           job'[p] = job[p], copy'[p] = copy[p],
           \/ pc'[p] = pc[p]
           \/ pc'[p] \notin {"checking", "preparing", "dropping", "starting"}
           \/ pc[p] = "preparing" /\ pc'[p] = "dropping"
           \/ pc[p] = "dropping" /\ pc'[p] = "starting"
    PROVE  Whole(p)'
  BY DEF Whole, Source, Kind, Key

LEMMA WholeNext == Shapes /\ WholeInv /\ [Next]_vars => WholeInv'
<1> SUFFICES ASSUME Shapes, WholeInv, [Next]_vars, NEW q \in Procs PROVE Whole(q)'
    BY DEF WholeInv
<1>0. Whole(q)
  BY DEF WholeInv
<1> USE DEF Shapes, At, Fails
<1>1. CASE UNCHANGED vars
  BY <1>0, <1>1, WholeStays DEF vars
<1>2. ASSUME NEW p \in Procs, restoreCommand(p) \/ restoreBackupStandalone(p) PROVE Whole(q)'
  <2>1. PICK j, to : /\ Ask(p, j, to) /\ to \in {"asking", "opening", "locking"}
    BY <1>2 DEF restoreCommand, restoreBackupStandalone
  <2>2. CASE q = p
    BY <2>1, <2>2 DEF Ask, Whole
  <2>3. CASE q # p
    <3>1. /\ file' = file /\ job'[q] = job[q] /\ copy'[q] = copy[q] /\ pc'[q] = pc[q]
          /\ q \in spoilt' <=> q \in spoilt
      BY <2>1, <2>3 DEF Ask
    <3>2. QED
      BY <1>0, <3>1 DEF Whole, Source, Kind, Key
  <2>4. QED
    BY <2>2, <2>3
<1>3. ASSUME NEW p \in Procs,
             Confirm(p) \/ Cancel(p) \/ lockDatabase(p) \/ lockFails(p) \/ LoseConnection(p)
      PROVE  Whole(q)'
  <2>1. /\ file' = file /\ spoilt' = spoilt /\ copy' = copy
        /\ \/ pc'[q] = pc[q] /\ job'[q] = job[q]
           \/ pc'[q] \in {"opening", "idle"}
    BY <1>3 DEF Confirm, Cancel, lockDatabase, lockFails, LoseConnection
  <2>2. QED
    BY <1>0, <2>1 DEF Whole, Source, Kind, Key
<1>4. ASSUME NEW p \in Procs, openSourceStream(p) \/ Download(p) PROVE Whole(q)'
  <2>1. CASE q = p
    <3>1. /\ job' = job
          /\ pc'[p] = "reading" \/ (pc'[p] = "starting" /\ Kind(p) # "locked")
      BY <1>4 DEF openSourceStream, Download
    <3>2. QED
      BY <2>1, <3>1 DEF Whole, Kind
  <2>2. CASE q # p
    <3>1. /\ file' = file /\ spoilt' = spoilt /\ job' = job
          /\ pc'[q] = pc[q] /\ copy'[q] = copy[q]
      BY <1>4, <2>2 DEF openSourceStream, Download
    <3>2. QED
      BY <1>0, <3>1, WholeStays
  <2>3. QED
    BY <2>1, <2>2
<1>5. ASSUME NEW p \in Procs, Checksum(p) \/ verifyBackupDecodes(p) PROVE Whole(q)'
  <2>1. file' = file /\ spoilt' = spoilt /\ job' = job /\ copy' = copy
    BY <1>5 DEF Checksum, verifyBackupDecodes
  <2>2. CASE q # p
    <3>1. pc'[q] = pc[q]
      BY <1>5, <2>2 DEF Checksum, verifyBackupDecodes
    <3>2. QED
      BY <1>0, <2>1, <3>1, WholeStays
  <2>3. CASE q = p /\ Checksum(p)
    <3>1. /\ pc'[p] \in {"failed", "checking", "starting"}
          /\ pc'[p] # "failed" /\ job[p].checksum => Source(p) = "whole"
          /\ pc'[p] = "starting" => Kind(p) # "locked"
      BY <2>3 DEF Checksum
    <3>2. QED
      BY <2>1, <2>3, <3>1 DEF Whole, Source, Kind, Key
  <2>4. CASE q = p /\ verifyBackupDecodes(p)
    <3>1. /\ pc[p] = "checking" /\ pc'[p] = "preparing"
          /\ Source(p) = "whole" \/ ~Encoded
      BY <2>4 DEF verifyBackupDecodes, Decodes
    <3>2. QED
      BY <1>0, <2>1, <2>4, <3>1 DEF Whole, Source, Kind, Key
  <2>5. QED
    BY <1>5, <2>2, <2>3, <2>4
<1>6. ASSUME NEW p \in Procs, OpenFails(p) \/ Undecodable(p) \/ Empty(p) PROVE Whole(q)'
  <2>1. /\ file' = file /\ spoilt' = spoilt /\ job' = job /\ copy' = copy
        /\ \/ pc'[q] = pc[q] \/ pc'[q] = "failed"
           \/ pc[q] = "preparing" /\ pc'[q] = "dropping"
           \/ pc[q] = "dropping" /\ pc'[q] = "starting"
    BY <1>6 DEF OpenFails, Undecodable, Empty, reset, ResetRefused, resetPostgres, resetMysql,
                ResetFails
  <2>2. QED
    BY <1>0, <2>1, WholeStays
<1>7. ASSUME NEW p \in Procs, Fill(p) PROVE Whole(q)'
  <2>1. /\ file' = file /\ spoilt' = spoilt /\ job' = job /\ copy' = copy
        /\ pc'[q] = pc[q] \/ pc'[q] \in {"loading", "failed", "succeeded", "closing"}
    BY <1>7 DEF Fill, spawnRestore, SpawnFails, SpawnThrows, Load, ToolEnds, ToolFails
  <2>2. QED
    BY <1>0, <2>1, WholeStays
<1>8. ASSUME NEW p \in Procs, cleanup(p) \/ close(p) \/ Stop(p) \/ StageThrows(p) PROVE Whole(q)'
  <2>1. CASE q = p
    <3>1. pc'[p] \in {"closing", "idle"}
      BY <1>8 DEF cleanup, close, Stop, StageThrows, Ends
    <3>2. QED
      BY <2>1, <3>1 DEF Whole
  <2>2. CASE q # p
    <3>1. /\ file' = file /\ spoilt' = spoilt /\ job'[q] = job[q] /\ copy'[q] = copy[q]
          /\ pc'[q] = pc[q]
      BY <1>8, <2>2 DEF cleanup, close, Stop, StageThrows, Ends
    <3>2. QED
      BY <1>0, <3>1, WholeStays
  <2>3. QED
    BY <2>1, <2>2
<1>9. CASE OrphanLoads
  BY <1>0, <1>9, WholeStays DEF OrphanLoads
<1>10. ASSUME NEW k \in Keys, Spoil(k) PROVE Whole(q)'
  <2>1. /\ job' = job /\ copy' = copy /\ pc' = pc
        /\ \A x \in Keys : file'[x] = file[x] \/ x = k
        /\ Local => spoilt' = spoilt \cup {p \in Procs : pc[p] # "idle" /\ Key(p) = k}
        /\ ~Local => spoilt' = spoilt
    BY <1>10 DEF Spoil
  <2>2. CASE ~Local
    BY <1>0, <2>1, <2>2 DEF Whole, Source, Kind
  <2>3. CASE Local /\ (q \in spoilt' \/ pc[q] = "idle")
    BY <2>1, <2>3 DEF Whole
  <2>4. CASE Local /\ q \notin spoilt' /\ pc[q] # "idle"
    <3>1. Key(q) # k /\ q \notin spoilt
      BY <2>1, <2>4
    <3>2. file'[Key(q)] = file[Key(q)]
      BY <1>10, <3>1 DEF Spoil
    <3>3. QED
      BY <1>0, <2>1, <2>4, <3>1, <3>2 DEF Whole, Source, Kind, Key
  <2>5. QED
    BY <2>2, <2>3, <2>4
<1>11. QED
  BY <1>1, <1>2, <1>3, <1>4, <1>5, <1>6, <1>7, <1>8, <1>9, <1>10 DEF Next, Step, Fetch

\* Objects are removed by a reset only for a backup that has been read to its end and
\* is whole, unless the file in place changes while it is restored
\* (restore-standalone.ts:232-246, 384-405).
THEOREM BackupsProvedFirst == Spec => []ProvedFirst
<1>1. Init => Shapes /\ WholeInv
  BY ShapesInit DEF Init, WholeInv, Whole
<1>2. Shapes /\ WholeInv /\ [Next]_vars => (Shapes /\ WholeInv)'
  BY ShapesNext, WholeNext
<1>3. WholeInv => ProvedFirst
  BY DEF WholeInv, Whole, ProvedFirst
<1>4. QED
  BY <1>1, <1>2, <1>3, PTL DEF Spec
-----------------------------------------------------------------------------
(* What a strict restore beneath the lock makes of the database.           *)

Calm(p) == Kind(p) = "locked" /\ p \notin lost \cup disturbed

\* The restore can tell whether its tool had all of the backup.
Told(p) == Postgres \/ (p \notin spoilt /\ (Encoded \/ job[p].checksum))

Exact(p) ==
    Calm(p) =>
        /\ pc[p] = "dropping" => ObjectsIn(Targets(p)) \subseteq todo[p]
        /\ pc[p] = "starting" => ObjectsIn(Targets(p)) = {}
        /\ pc[p] \in {"loading", "succeeded"} => ObjectsIn(Targets(p)) \subseteq Contents[Key(p)]
        /\ pc[p] = "loading" => left[p] \subseteq Contents[Key(p)]
        /\ pc[p] = "loading" /\ err[p] = "none" /\ Told(p) => Contents[Key(p)] \subseteq db \cup left[p]
        /\ pc[p] = "succeeded" /\ job[p].strict /\ Told(p) => Contents[Key(p)] \subseteq db

ExactInv == \A p \in Procs : Exact(p)

\* Of two programs that fill the database, one has no lock, and disturbs the other.
LEMMA OthersDisturb ==
    ASSUME LockInv, NEW p \in Procs, NEW q \in Procs \ {p}, pc[p] \in Filling, pc[q] \in Filling,
           Disturbs(q), UNCHANGED <<job, lost>>
    PROVE  ~Calm(p)'
<1>1. CASE Excluded(q) /\ Kind(p) = "locked" /\ p \notin lost
  <2>1. p \in lock /\ q \in lock
    BY <1>1 DEF LockInv, Holds, Excluded, Before, Filling
  <2>2. QED
    BY <2>1 DEF LockInv
<1>2. CASE ~Excluded(q)
  BY <1>2 DEF Disturbs, Calm
<1>3. CASE ~(Kind(p) = "locked" /\ p \notin lost)
  BY <1>3 DEF Calm, Kind
<1>4. QED
  BY <1>1, <1>2, <1>3

\* A program that does nothing while the database stays as it is.
LEMMA ExactStays ==
    ASSUME NEW p \in Procs, Exact(p), UNCHANGED <<engine, db>>,
           job'[p] = job[p], todo'[p] = todo[p], left'[p] = left[p], err'[p] = err[p],
           pc'[p] = pc[p] \/ pc'[p] \notin Filling,
           p \in lost => p \in lost', p \in disturbed => p \in disturbed',
           p \in spoilt => p \in spoilt'
    PROVE  Exact(p)'
<1>1. pc'[p] \notin Filling => Exact(p)'
  BY DEF Exact, Filling
<1>2. pc'[p] = pc[p] => Exact(p)'
  BY DEF Exact, Calm, Told, ObjectsIn, Targets, restorableSchemas, isManagedSchema, Kind, Key,
         Postgres
<1>3. QED
  BY <1>1, <1>2

\* A program beside one that writes to the database.
LEMMA ExactBeside ==
    ASSUME LockInv, NEW p \in Procs, NEW q \in Procs \ {p}, Exact(p), pc[q] \in Filling,
           Disturbs(q), pc'[p] = pc[p], UNCHANGED <<job, lost>>
    PROVE  Exact(p)'
<1>1. CASE pc[p] \in Filling
  BY <1>1, OthersDisturb DEF Exact
<1>2. CASE pc[p] \notin Filling
  BY <1>2 DEF Exact, Filling
<1>3. QED
  BY <1>1, <1>2

LEMMA IdleExact ==
    ASSUME NEW p \in Procs, pc'[p] \notin Filling \/ Kind(p)' # "locked" PROVE Exact(p)'
  BY DEF Exact, Calm, Filling

\* The reset: every object of its schemas is named, and none of them is left.
LEMMA ResetExact ==
    ASSUME Shapes, NEW p \in Procs, Exact(p), reset(p) \/ resetPostgres(p) \/ resetMysql(p)
    PROVE  Exact(p)'
<1> USE DEF Shapes, At
<1>1. UNCHANGED <<engine, job, lost, Targets(p)>>
  BY DEF reset, resetPostgres, resetMysql, Targets, restorableSchemas, isManagedSchema, Postgres
<1>2. Calm(p)' => Calm(p)
  BY <1>1 DEF reset, resetPostgres, resetMysql, Disturbs, Calm, Kind
<1>3. CASE reset(p)
  <2>1. pc'[p] = "dropping" /\ ObjectsIn(Targets(p)) \subseteq todo'[p] /\ db' = db
    BY <1>3 DEF reset, ObjectsIn, mysqlDropStatements
  <2>2. QED
    BY <1>1, <2>1 DEF Exact, ObjectsIn
<1>4. CASE resetPostgres(p)
  <2>1. pc[p] = "dropping" /\ pc'[p] = "starting" /\ db' \subseteq db \ todo[p]
    BY <1>4 DEF resetPostgres, Cascade
  <2>2. QED
    BY <1>1, <1>2, <2>1 DEF Exact, ObjectsIn
<1>5. CASE resetMysql(p)
  <2>1. /\ pc[p] = "dropping"
        /\ \/ pc'[p] = "starting" /\ db' = db /\ todo[p] = {}
           \/ /\ pc'[p] = "dropping"
              /\ \E o \in todo[p] : db' = db \ {o} /\ todo'[p] = todo[p] \ {o}
    BY <1>5 DEF resetMysql
  <2>2. QED
    BY <1>1, <1>2, <2>1 DEF Exact, ObjectsIn
<1>6. QED
  BY <1>3, <1>4, <1>5

\* The tool: it is given the whole backup, unless an error tells that it is not, and
\* puts each of its objects there, or reports an error.
LEMMA FillExact ==
    ASSUME Shapes, NEW p \in Procs, Whole(p), Exact(p), spawnRestore(p) \/ Load(p) \/ ToolEnds(p)
    PROVE  Exact(p)'
<1> USE DEF Shapes, At
<1>1. UNCHANGED <<engine, job, lost, spoilt, Targets(p), Told(p)>> /\ Key(p)' = Key(p)
  BY DEF spawnRestore, Load, ToolEnds, Targets, restorableSchemas, isManagedSchema, Postgres,
         Told, Key
<1>2. Calm(p)' => Calm(p)
  BY <1>1 DEF spawnRestore, Load, ToolEnds, Disturbs, Calm, Kind
<1>3. SUFFICES ASSUME Calm(p), Kind(p) = "locked" PROVE Exact(p)'
  BY <1>2 DEF Exact, Calm
<1>4. CASE spawnRestore(p)
  <2>1. /\ pc[p] = "starting" /\ pc'[p] = "loading" /\ db' = db
        /\ left'[p] \in Fed(p) /\ err'[p] \in Broken(p)
    BY <1>4 DEF spawnRestore
  <2>2. left'[p] \subseteq Contents[Key(p)]
    BY <2>1 DEF Fed
  <2>3. ASSUME Told(p), err'[p] = "none" PROVE Source(p) = "whole"
    BY <1>3, <2>1, <2>3 DEF Broken, Told, Whole, Calm
  <2>4. Source(p) = "whole" => left'[p] = Contents[Key(p)]
    BY <2>1 DEF Fed
  <2>5. ObjectsIn(Targets(p))' = {}
    BY <1>1, <1>3, <2>1 DEF Exact, ObjectsIn
  <2>6. QED
    BY <1>1, <2>1, <2>2, <2>3, <2>4, <2>5 DEF Exact
<1>5. CASE Load(p)
  <2>1. PICK o \in left[p] : /\ left' = [left EXCEPT ![p] = @ \ {o}]
                             /\ CreateObject(p, o) \/ ObjectRefused(p, o)
    BY <1>5 DEF Load
  <2>2. pc[p] = "loading" /\ pc'[p] = "loading" /\ left'[p] = left[p] \ {o}
    BY <1>5, <2>1 DEF Load
  <2>3. \/ db' = db \cup {o} /\ err'[p] = err[p]
        \/ db' = db /\ err'[p] # "none"
    BY <1>3, <2>1 DEF CreateObject, ObjectRefused, Cleans
  <2>4. left[p] \subseteq Contents[Key(p)] /\ ObjectsIn(Targets(p)) \subseteq Contents[Key(p)]
    BY <1>3, <2>2 DEF Exact
  <2>5. ObjectsIn(Targets(p))' \subseteq ObjectsIn(Targets(p)) \cup {o}
    BY <1>1, <2>3 DEF ObjectsIn
  <2>6. Told(p) /\ err'[p] = "none" => Contents[Key(p)] \subseteq db' \cup left'[p]
    BY <1>3, <2>2, <2>3 DEF Exact
  <2>7. QED
    BY <1>1, <2>2, <2>4, <2>5, <2>6 DEF Exact
<1>6. CASE ToolEnds(p)
  <2>1. /\ pc[p] = "loading" /\ left[p] = {} /\ db' = db
        /\ pc'[p] = "failed" \/ (pc'[p] = "succeeded" /\ (job[p].strict => err[p] = "none"))
    BY <1>6 DEF ToolEnds, Heard, strictRestoreFailure
  <2>2. QED
    BY <1>1, <1>3, <2>1 DEF Exact, ObjectsIn
<1>7. QED
  BY <1>4, <1>5, <1>6

LEMMA ExactNext == Shapes /\ LockInv /\ WholeInv /\ ExactInv /\ [Next]_vars => ExactInv'
<1> SUFFICES ASSUME Shapes, LockInv, WholeInv, ExactInv, [Next]_vars, NEW q \in Procs
             PROVE  Exact(q)'
    BY DEF ExactInv
<1>0. Exact(q) /\ Whole(q)
  BY DEF ExactInv, WholeInv
<1> USE DEF Shapes, At, Fails
<1>1. CASE UNCHANGED vars
  BY <1>0, <1>1, ExactStays DEF vars
<1>2. ASSUME NEW p \in Procs, restoreCommand(p) \/ restoreBackupStandalone(p) PROVE Exact(q)'
  <2>1. PICK j, to : Ask(p, j, to) /\ to \in {"asking", "opening", "locking"}
    BY <1>2 DEF restoreCommand, restoreBackupStandalone
  <2>2. CASE q = p
    BY <2>1, <2>2, IdleExact DEF Ask, Filling
  <2>3. CASE q # p
    BY <1>0, <2>1, <2>3, ExactStays DEF Ask
  <2>4. QED
    BY <2>2, <2>3
<1>3. ASSUME NEW p \in Procs,
             Confirm(p) \/ Cancel(p) \/ lockDatabase(p) \/ lockFails(p) \/ LoseConnection(p)
      PROVE  Exact(q)'
  <2>1. /\ UNCHANGED <<engine, db, todo, left, err, disturbed, spoilt>> /\ lost \subseteq lost'
        /\ \/ pc'[q] = pc[q] /\ job'[q] = job[q]
           \/ pc'[q] \in {"opening", "idle"}
    BY <1>3 DEF Confirm, Cancel, lockDatabase, lockFails, LoseConnection
  <2>2. QED
    BY <1>0, <2>1, ExactStays, IdleExact DEF Filling
<1>4. ASSUME NEW p \in Procs, Fetch(p) PROVE Exact(q)'
  <2>1. /\ UNCHANGED <<engine, db, todo, left, err, lost, disturbed, spoilt, job>>
        /\ \/ pc'[q] = pc[q]
           \/ pc'[q] \in {"reading", "failed", "checking", "preparing"}
           \/ Kind(q) # "locked"
    BY <1>4 DEF Fetch, openSourceStream, Download, OpenFails, Checksum, verifyBackupDecodes,
                Undecodable
  <2>2. QED
    BY <1>0, <2>1, ExactStays, IdleExact DEF Filling, Kind
<1>5. ASSUME NEW p \in Procs, ResetRefused(p) \/ ResetFails(p) \/ SpawnFails(p) \/ SpawnThrows(p)
                              \/ ToolFails(p)
      PROVE  Exact(q)'
  <2>1. /\ UNCHANGED <<engine, db, err, lost, disturbed, spoilt, job>>
        /\ \/ pc'[q] = pc[q] /\ todo'[q] = todo[q] /\ left'[q] = left[q]
           \/ pc'[q] \in {"failed", "closing"}
    BY <1>5 DEF ResetRefused, ResetFails, SpawnFails, SpawnThrows, ToolFails
  <2>2. QED
    BY <1>0, <2>1, ExactStays, IdleExact DEF Filling
<1>6. ASSUME NEW p \in Procs, reset(p) \/ spawnRestore(p) \/ ToolEnds(p) PROVE Exact(q)'
  <2>1. CASE q = p
    BY <1>0, <1>6, <2>1, ResetExact, FillExact
  <2>2. CASE q # p
    <3>1. /\ UNCHANGED <<engine, db, lost, disturbed, spoilt, job>>
          /\ pc'[q] = pc[q] /\ todo'[q] = todo[q] /\ left'[q] = left[q] /\ err'[q] = err[q]
      BY <1>6, <2>2 DEF reset, spawnRestore, ToolEnds
    <3>2. QED
      BY <1>0, <3>1, ExactStays
  <2>3. QED
    BY <2>1, <2>2
<1>7. ASSUME NEW p \in Procs, resetPostgres(p) \/ resetMysql(p) \/ Load(p) PROVE Exact(q)'
  <2>1. CASE q = p
    BY <1>0, <1>7, <2>1, ResetExact, FillExact
  <2>2. CASE q # p
    <3>1. CASE Disturbs(p)
      <4>1. pc[p] \in Filling /\ UNCHANGED <<job, lost>> /\ pc'[q] = pc[q]
        BY <1>7, <2>2 DEF resetPostgres, resetMysql, Load, Filling
      <4>2. QED
        BY <1>0, <2>2, <3>1, <4>1, ExactBeside
    <3>2. CASE ~Disturbs(p)
      <4>1. /\ UNCHANGED <<engine, db, lost, disturbed, spoilt, job, todo, left, err>>
            /\ pc'[q] = pc[q]
        BY <1>7, <2>2, <3>2 DEF resetPostgres, resetMysql, Load
      <4>2. QED
        BY <1>0, <4>1, ExactStays
    <3>3. QED
      BY <3>1, <3>2
  <2>3. QED
    BY <2>1, <2>2
<1>8. ASSUME NEW p \in Procs, cleanup(p) \/ close(p) \/ Stop(p) \/ StageThrows(p)
      PROVE  Exact(q)'
  <2>1. /\ UNCHANGED <<engine, db, err, lost, disturbed, spoilt>>
        /\ \/ pc'[q] = pc[q] /\ job'[q] = job[q] /\ todo'[q] = todo[q] /\ left'[q] = left[q]
           \/ pc'[q] \in {"closing", "idle"}
    BY <1>8 DEF cleanup, close, Stop, StageThrows, Ends
  <2>2. QED
    BY <1>0, <2>1, ExactStays, IdleExact DEF Filling
<1>9. CASE OrphanLoads
  <2>1. UNCHANGED <<pc, job>> /\ (pc[q] \in Filling => q \in disturbed')
    BY <1>9 DEF OrphanLoads
  <2>2. QED
    BY <2>1 DEF Exact, Calm, Filling
<1>10. CASE \E k \in Keys : Spoil(k)
  BY <1>0, <1>10, ExactStays DEF Spoil
<1>11. QED
  BY <1>1, <1>2, <1>3, <1>4, <1>5, <1>6, <1>7, <1>8, <1>9, <1>10 DEF Next, Step, Empty, Fill

\* A strict restore beneath the lock that reports success has left, in the schemas it
\* replaced, the objects of the backup and no others, unless it lost its lock or one
\* without the lock wrote at the same time (restore-standalone.ts:240-311,
\* database-lock.ts:89-126).
THEOREM RestoresAreExact == Spec => []ExactWhenTold
<1> DEFINE IInv == Shapes /\ LockInv /\ WholeInv /\ ExactInv
<1>1. Init => IInv
  BY ShapesInit DEF Init, LockInv, Holds, Before, WholeInv, Whole, ExactInv, Exact
<1>2. IInv /\ [Next]_vars => IInv'
  BY ShapesNext, LockNext, WholeNext, ExactNext
<1>3. IInv => ExactWhenTold
  BY DEF ExactInv, Exact, Calm, Told, ExactWhenTold
<1>4. QED
  BY <1>1, <1>2, <1>3, PTL DEF Spec

-----------------------------------------------------------------------------
(* Types.                                                                  *)

LEMMA ChosenJob == NoJob \in Jobs /\ \A j \in Jobs : j \in JobType
  BY JobsAssumption DEF NoJob

LEMMA SourceFile == ASSUME TypeOK, NEW p \in Procs PROVE file[Key(p)] \in Files /\ Contents[Key(p)] \subseteq Objects
<1>1. job[p] \in JobType
  BY ChosenJob DEF TypeOK
<1>2. Key(p) \in Keys
  BY <1>1 DEF JobType, Key
<1>3. QED
  BY <1>2, SchemasAssumption DEF TypeOK

LEMMA TypesInit == Init => TypeOK
<1> SUFFICES ASSUME Init PROVE TypeOK
    OBVIOUS
<1>1. {"whole", "foreign"} \subseteq Files
  BY DEF Files
<1>2. 0 \in 0..MaxRestores /\ 0 \in 0..MaxFaults
  BY ModesAssumption
<1>3. file \in [Keys -> Files] /\ copy \in [Procs -> Files]
  BY <1>1 DEF Init, Files
<1>4. job \in [Procs -> Jobs]
  BY ChosenJob DEF Init
<1>5. pc \in [Procs -> PCs] /\ err \in [Procs -> {"none", "error", "broken"}]
  BY DEF Init, PCs
<1>6. todo \in [Procs -> SUBSET Objects] /\ left \in [Procs -> SUBSET Objects]
  BY DEF Init
<1>7. QED
  BY <1>2, <1>3, <1>4, <1>5, <1>6 DEF Init, TypeOK

LEMMA TypesNext == TypeOK /\ [Next]_vars => TypeOK'
<1> SUFFICES ASSUME TypeOK, [Next]_vars PROVE TypeOK'
    OBVIOUS
<1> USE DEF At, Fails
<1>1. CASE UNCHANGED vars
  BY <1>1 DEF vars, TypeOK
<1>2. ASSUME NEW p \in Procs, NEW j \in Jobs, NEW to \in PCs, Ask(p, j, to) PROVE TypeOK'
  <2>1. started' \in 0..MaxRestores
    BY <1>2, ModesAssumption DEF Ask, TypeOK
  <2>2. pc' \in [Procs -> PCs] /\ job' \in [Procs -> Jobs]
    BY <1>2 DEF Ask, TypeOK
  <2>3. copy' \in [Procs -> Files] /\ err' \in [Procs -> {"none", "error", "broken"}]
    BY <1>2 DEF Ask, TypeOK, Files
  <2>4. lost' \subseteq Procs /\ spoilt' \subseteq Procs /\ disturbed' \subseteq Procs
    BY <1>2 DEF Ask, TypeOK
  <2>5. QED
    BY <1>2, <2>1, <2>2, <2>3, <2>4 DEF Ask, TypeOK
<1>3. ASSUME NEW p \in Procs, restoreCommand(p) \/ restoreBackupStandalone(p) PROVE TypeOK'
  BY <1>2, <1>3 DEF restoreCommand, restoreBackupStandalone, PCs
<1>4. ASSUME NEW p \in Procs,
             Confirm(p) \/ Cancel(p) \/ lockDatabase(p) \/ lockFails(p) \/ close(p)
      PROVE  TypeOK'
  <2>1. pc' \in [Procs -> PCs]
    BY <1>4 DEF Confirm, Cancel, lockDatabase, lockFails, close, TypeOK, PCs
  <2>2. job' \in [Procs -> Jobs] /\ lock' \subseteq Procs
    BY <1>4, ChosenJob DEF Confirm, Cancel, lockDatabase, lockFails, close, TypeOK
  <2>3. QED
    BY <1>4, <2>1, <2>2 DEF Confirm, Cancel, lockDatabase, lockFails, close, TypeOK
<1>5. ASSUME NEW p \in Procs, LoseConnection(p) PROVE TypeOK'
  <2>1. faults' \in 0..MaxFaults
    BY <1>5, ModesAssumption DEF LoseConnection, TypeOK
  <2>2. QED
    BY <1>5, <2>1 DEF LoseConnection, TypeOK
<1>6. ASSUME NEW p \in Procs, Fetch(p) PROVE TypeOK'
  <2>1. pc' \in [Procs -> PCs]
    BY <1>6 DEF Fetch, openSourceStream, Download, OpenFails, Checksum, verifyBackupDecodes,
                Undecodable, TypeOK, PCs
  <2>2. copy' \in [Procs -> Files]
    BY <1>6, SourceFile DEF Fetch, openSourceStream, Download, OpenFails, Checksum,
                            verifyBackupDecodes, Undecodable, TypeOK
  <2>3. QED
    BY <1>6, <2>1, <2>2 DEF Fetch, openSourceStream, Download, OpenFails, Checksum,
                            verifyBackupDecodes, Undecodable, TypeOK
<1>7. ASSUME NEW p \in Procs, Disturbs(p) PROVE disturbed' \subseteq Procs
  BY <1>7 DEF Disturbs, TypeOK
<1>8. ASSUME NEW p \in Procs, Empty(p) PROVE TypeOK'
  <2>1. CASE reset(p)
    <3>1. pc' \in [Procs -> PCs] /\ todo' \in [Procs -> SUBSET Objects]
      BY <2>1 DEF reset, TypeOK, PCs, ObjectsIn, mysqlDropStatements
    <3>2. QED
      BY <2>1, <3>1 DEF reset, TypeOK
  <2>2. CASE ResetRefused(p) \/ ResetFails(p)
    <3>1. pc' \in [Procs -> PCs] /\ todo' \in [Procs -> SUBSET Objects]
      BY <2>2 DEF ResetRefused, ResetFails, TypeOK, PCs
    <3>2. QED
      BY <2>2, <3>1 DEF ResetRefused, ResetFails, TypeOK
  <2>3. CASE resetPostgres(p)
    <3>1. pc' \in [Procs -> PCs] /\ todo' \in [Procs -> SUBSET Objects]
      BY <2>3 DEF resetPostgres, TypeOK, PCs
    <3>2. disturbed' \subseteq Procs
      BY <1>7, <2>3 DEF resetPostgres
    <3>3. QED
      BY <2>3, <3>1, <3>2 DEF resetPostgres, TypeOK
  <2>4. CASE resetMysql(p)
    <3>1. pc' \in [Procs -> PCs] /\ todo' \in [Procs -> SUBSET Objects] /\ db' \subseteq Objects
      BY <2>4 DEF resetMysql, TypeOK, PCs
    <3>2. disturbed' \subseteq Procs
      BY <1>7, <2>4 DEF resetMysql, TypeOK
    <3>3. QED
      BY <2>4, <3>1, <3>2 DEF resetMysql, TypeOK
  <2>5. QED
    BY <1>8, <2>1, <2>2, <2>3, <2>4 DEF Empty
<1>9. ASSUME NEW p \in Procs, Fill(p) PROVE TypeOK'
  <2>1. CASE spawnRestore(p)
    <3>1. pc' \in [Procs -> PCs]
      BY <2>1 DEF spawnRestore, TypeOK, PCs
    <3>2. left' \in [Procs -> SUBSET Objects]
      BY <2>1, SourceFile DEF spawnRestore, TypeOK, Fed
    <3>3. err' \in [Procs -> {"none", "error", "broken"}]
      BY <2>1 DEF spawnRestore, TypeOK, Broken
    <3>4. QED
      BY <2>1, <3>1, <3>2, <3>3 DEF spawnRestore, TypeOK
  <2>2. CASE SpawnFails(p) \/ SpawnThrows(p) \/ ToolEnds(p)
    <3>1. pc' \in [Procs -> PCs]
      BY <2>2 DEF SpawnFails, SpawnThrows, ToolEnds, TypeOK, PCs
    <3>2. QED
      BY <2>2, <3>1 DEF SpawnFails, SpawnThrows, ToolEnds, TypeOK
  <2>3. CASE ToolFails(p)
    <3>1. pc' \in [Procs -> PCs] /\ left' \in [Procs -> SUBSET Objects]
      BY <2>3 DEF ToolFails, TypeOK, PCs
    <3>2. QED
      BY <2>3, <3>1 DEF ToolFails, TypeOK
  <2>4. CASE Load(p)
    <3>1. PICK o \in left[p] : /\ left' = [left EXCEPT ![p] = @ \ {o}]
                               /\ CreateObject(p, o) \/ ObjectRefused(p, o)
      BY <2>4 DEF Load
    <3>2. left' \in [Procs -> SUBSET Objects] /\ o \in Objects
      BY <3>1 DEF TypeOK
    <3>3. db' \subseteq Objects
      BY <3>1, <3>2 DEF CreateObject, ObjectRefused, TypeOK
    <3>4. err' \in [Procs -> {"none", "error", "broken"}]
      BY <3>1 DEF CreateObject, ObjectRefused, TypeOK
    <3>5. disturbed' \subseteq Procs
      BY <1>7, <2>4 DEF Load
    <3>6. QED
      BY <2>4, <3>2, <3>3, <3>4, <3>5 DEF Load, TypeOK
  <2>5. QED
    BY <1>9, <2>1, <2>2, <2>3, <2>4 DEF Fill
<1>10. ASSUME NEW p \in Procs, cleanup(p) PROVE TypeOK'
  <2>1. pc' \in [Procs -> PCs] /\ copy' \in [Procs -> Files]
    BY <1>10 DEF cleanup, TypeOK, PCs, Files
  <2>2. QED
    BY <1>10, <2>1 DEF cleanup, TypeOK
<1>11. ASSUME NEW p \in Procs, Stop(p) \/ StageThrows(p) PROVE TypeOK'
  <2>1. Ends(p) /\ faults' \in 0..MaxFaults
    BY <1>11, ModesAssumption DEF Stop, StageThrows, TypeOK
  <2>2. pc' \in [Procs -> PCs] /\ job' \in [Procs -> Jobs]
    BY <2>1, ChosenJob DEF Ends, TypeOK, PCs
  <2>3. left' \in [Procs -> SUBSET Objects] /\ todo' \in [Procs -> SUBSET Objects]
    BY <2>1 DEF Ends, TypeOK
  <2>4. orphans' \subseteq Objects /\ lock' \subseteq Procs
    BY <2>1 DEF Ends, TypeOK
  <2>5. QED
    BY <2>1, <2>2, <2>3, <2>4 DEF Ends, TypeOK
<1>12. CASE OrphanLoads
  BY <1>12 DEF OrphanLoads, TypeOK
<1>13. ASSUME NEW k \in Keys, Spoil(k) PROVE TypeOK'
  <2>1. faults' \in 0..MaxFaults
    BY <1>13, ModesAssumption DEF Spoil, TypeOK
  <2>2. file' \in [Keys -> Files] /\ spoilt' \subseteq Procs
    BY <1>13 DEF Spoil, TypeOK, Files
  <2>3. QED
    BY <1>13, <2>1, <2>2 DEF Spoil, TypeOK
<1>14. QED
  BY <1>1, <1>3, <1>4, <1>5, <1>6, <1>8, <1>9, <1>10, <1>11, <1>12, <1>13 DEF Next, Step

\* Every variable of a restore stays in its range: nothing is ever in the database, to be
\* dropped or to be created that is not one of its objects.
THEOREM TypeCorrect == Spec => []TypeOK
  BY TypesInit, TypesNext, PTL DEF Spec
=============================================================================
