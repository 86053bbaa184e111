------------------------ MODULE GuardedChangeProofs ------------------------
(***************************************************************************)
(* Proofs about GuardedChange, for any processes, data and bounds.         *)
(***************************************************************************)
EXTENDS GuardedChange, TLAPS, FiniteSetTheorems

USE DEF work, store, records, sync, history

-----------------------------------------------------------------------------
(* Types.  TypeOK alone is not inductive: a step that writes manifest or   *)
(* record number cp[p] needs cp[p] to be the number of a dump by then, and *)
(* a kill adds an orphan only where it adds a crash.                       *)

Numbered == {"dumped", "manifest", "applying", "verifying", "verified", "emptied",
             "succeeding", "failing", "sending", "marking"}

TypeInv ==
    /\ TypeOK
    /\ \A p \in Procs : pc[p] \in Numbered => cp[p] \in 1..last
    /\ orphans <= crashes

\* The initial states have the types.
LEMMA TypeInit == Init => TypeInv
<1> SUFFICES ASSUME Init PROVE TypeInv
    OBVIOUS
<1> USE BoundsAssumption DEF Init, PCs, Guarded, Kinds, Statuses, Terminal, Ids
<1>1. NoOp \in [kind : Kinds, target : 0..MaxCheckpoints]
  BY DEF NoOp
<1>2. op \in [Procs -> [kind : Kinds, target : 0..MaxCheckpoints]]
  BY <1>1
<1>3. TypeOK
  <2>1. content \in [Ids -> SUBSET Data] /\ scope \in [Ids -> SUBSET Data] /\ before \in [Ids -> SUBSET Data]
    OBVIOUS
  <2>2. rec \in [Ids -> Statuses] /\ cloud \in [Ids -> Statuses]
    OBVIOUS
  <2>3. batch \subseteq Ids \X Statuses /\ arrived \subseteq Ids \X Statuses
    OBVIOUS
  <2>4. pc \in [Procs -> PCs] /\ cp \in [Procs -> 0..MaxCheckpoints]
    OBVIOUS
  <2>5. lock \subseteq Procs /\ last \in 0..MaxCheckpoints /\ db \subseteq Data
    OBVIOUS
  <2>6. stored \subseteq Ids /\ manifests \subseteq Ids /\ synced \subseteq Ids
    OBVIOUS
  <2>7. orphans \in 0..MaxCrashes /\ crashes \in 0..MaxCrashes
    OBVIOUS
  <2>8. seen \subseteq Data /\ disturbed \in BOOLEAN
    OBVIOUS
  <2>9. QED
    BY ONLY <1>2, <2>1, <2>2, <2>3, <2>4, <2>5, <2>6, <2>7, <2>8 DEF TypeOK
<1>4. QED
  BY <1>3 DEF TypeInv, Numbered

\* Every step keeps the types.
LEMMA TypeNext == TypeInv /\ [Next]_vars => TypeInv'
<1> SUFFICES ASSUME TypeInv, [Next]_vars PROVE TypeInv'
    OBVIOUS
<1> USE BoundsAssumption DEF TypeInv, Numbered, TypeOK, PCs, Guarded, Kinds, Statuses,
        Terminal, Ids, At, NoOp
<1>1. ASSUME NEW p \in Procs, Ask(p) PROVE TypeInv'
  <2>1. ASSUME NEW kind \in Kinds, NEW k \in 0..MaxCheckpoints, Begin(p, kind, k)
        PROVE TypeInv'
    BY <2>1 DEF Begin
  <2>2. CASE BeginRun(p)
    <3>1. "run" \in Kinds /\ 0 \in 0..MaxCheckpoints
      OBVIOUS
    <3>2. Begin(p, "run", 0)
      BY <2>2 DEF BeginRun
    <3>3. QED
      BY <2>1, <3>1, <3>2
  <2>3. CASE BeginRestore(p)
    <3>1. PICK k \in manifests : Begin(p, "restore", k)
      BY <2>3 DEF BeginRestore
    <3>2. "restore" \in Kinds /\ k \in 0..MaxCheckpoints
      OBVIOUS
    <3>3. QED
      BY <2>1, <3>1, <3>2
  <2>4. CASE BeginUndo(p)
    <3>1. PICK k \in UndoTargets : Begin(p, "undo", k)
      BY <2>4 DEF BeginUndo
    <3>2. "undo" \in Kinds /\ k \in 0..MaxCheckpoints
      BY DEF UndoTargets, Undoable
    <3>3. QED
      BY <2>1, <3>1, <3>2
  <2>5. QED
    BY <1>1, <2>2, <2>3, <2>4 DEF Ask
<1>2. ASSUME NEW p \in Procs, Work(p) PROVE TypeInv'
  BY <1>2 DEF Work
<1>3. ASSUME NEW p \in Procs, Progress(p) PROVE TypeInv'
  <2>0. pc[p] \in {"dumped", "marking"} => cp[p] \in Ids
    <3>1. pc[p] \in {"dumped", "marking"} => cp[p] \in 1..last
      OBVIOUS
    <3>2. 1..last \subseteq Ids
      OBVIOUS
    <3>3. QED
      BY <3>1, <3>2
  <2>1. CASE LockDatabase(p)    BY <2>1 DEF LockDatabase
  <2>2. CASE LockFails(p)       BY <2>2 DEF LockFails
  <2>3. CASE Refuse(p)          BY <2>3 DEF Refuse
  <2>4. CASE SaveDump(p)        BY <2>4 DEF SaveDump, Scopes
  <2>5. CASE SaveManifest(p)    
    <3>1. manifests' \subseteq Ids
      BY <2>0, <2>5 DEF SaveManifest
    <3>2. QED
      BY <2>5, <3>1 DEF SaveManifest
  <2>6. CASE SaveRunning(p)     BY <2>6 DEF SaveRunning
  <2>7. CASE ChangeEnds(p)      BY <2>7 DEF ChangeEnds
  <2>8. CASE VerifyDump(p)      BY <2>8 DEF VerifyDump
  <2>9. CASE DumpUnreadable(p)  BY <2>9 DEF DumpUnreadable
  <2>10. CASE Reset(p)          BY <2>10 DEF Reset
  <2>11. CASE ResetFails(p)     BY <2>11 DEF ResetFails
  <2>12. CASE Load(p)           BY <2>12 DEF Load, Target
  <2>13. CASE LoadFails(p)      BY <2>13 DEF LoadFails, Target
  <2>14. CASE SaveFinal(p)      BY <2>14 DEF SaveFinal, Outcome
  <2>15. CASE SaveFinalFails(p) BY <2>15 DEF SaveFinalFails
  <2>16. CASE SendRecord(p)     BY <2>16 DEF SendRecord, Ingest
  <2>17. CASE SendFails(p)      BY <2>17 DEF SendFails
  <2>18. CASE MarkSynced(p)     
    <3>1. synced' \subseteq Ids
      BY <2>0, <2>18 DEF MarkSynced
    <3>2. QED
      BY <2>18, <3>1 DEF MarkSynced
  <2>19. CASE Close(p)          BY <2>19 DEF Close
  <2>20. QED
    BY <1>3, <2>1, <2>2, <2>3, <2>4, <2>5, <2>6, <2>7, <2>8, <2>9, <2>10, <2>11, <2>12,
       <2>13, <2>14, <2>15, <2>16, <2>17, <2>18, <2>19 DEF Progress
<1>4. ASSUME NEW p \in Procs, Crash(p) PROVE TypeInv'
  BY <1>4 DEF Crash
<1>5. CASE SyncRead       BY <1>5 DEF SyncRead
<1>6. CASE SyncSend       BY <1>6 DEF SyncSend, Ingest
<1>7. CASE SyncMark
  <2>1. PICK e \in arrived : /\ rec' = [rec EXCEPT ![e[1]] = e[2]]
                            /\ synced' = synced \cup {e[1]}
    BY <1>7 DEF SyncMark
  <2>2. e[1] \in Ids /\ e[2] \in Statuses
    OBVIOUS
  <2>3. rec' \in [Ids -> Statuses] /\ synced' \subseteq Ids
    BY <2>1, <2>2
  <2>4. QED
    BY <1>7, <2>3 DEF SyncMark
<1>8. CASE SyncSkip       BY <1>8 DEF SyncSkip
<1>9. CASE OutsideWrite   BY <1>9 DEF OutsideWrite
<1>10. CASE OrphanEnds    BY <1>10 DEF OrphanEnds
<1>11. CASE Backup        BY <1>11 DEF Backup
<1>12. CASE CleanUp       BY <1>12 DEF CleanUp
<1>13. CASE UNCHANGED vars BY <1>13 DEF vars
<1>14. QED
  BY <1>1, <1>2, <1>3, <1>4, <1>5, <1>6, <1>7, <1>8, <1>9, <1>10, <1>11, <1>12, <1>13
     DEF Next, Sync

\* Every variable has its type in every reachable state.
THEOREM TypeCorrect == Spec => []TypeOK
<1>1. TypeInv => TypeOK
  BY DEF TypeInv
<1>2. QED
  BY <1>1, TypeInit, TypeNext, PTL DEF Spec
-----------------------------------------------------------------------------
(* The lock.  LockedAlone is inductive by itself.                          *)

\* Nobody holds the lock at the start.
LEMMA LockInit == Init => LockedAlone
BY DEF Init, LockedAlone, Guarded

\* Every step of every process, a kill included, keeps the lock exclusive.
LEMMA LockNext == TypeOK /\ LockedAlone /\ [Next]_vars => LockedAlone'
<1> SUFFICES ASSUME TypeOK, LockedAlone, [Next]_vars PROVE LockedAlone'
    OBVIOUS
<1> USE DEF TypeOK, LockedAlone, Guarded, At
<1>1. ASSUME NEW p \in Procs, Ask(p) PROVE LockedAlone'
  BY <1>1 DEF Ask, BeginRun, BeginRestore, BeginUndo, Begin
<1>2. ASSUME NEW p \in Procs, Work(p) PROVE LockedAlone'
  BY <1>2 DEF Work
<1>3. ASSUME NEW p \in Procs, Progress(p) PROVE LockedAlone'
  <2>1. CASE LockDatabase(p) BY <2>1 DEF LockDatabase
  <2>2. CASE LockFails(p) BY <2>2 DEF LockFails
  <2>3. CASE Refuse(p) BY <2>3 DEF Refuse
  <2>4. CASE SaveDump(p) BY <2>4 DEF SaveDump
  <2>5. CASE SaveManifest(p) BY <2>5 DEF SaveManifest
  <2>6. CASE SaveRunning(p) BY <2>6 DEF SaveRunning
  <2>7. CASE ChangeEnds(p) BY <2>7 DEF ChangeEnds
  <2>8. CASE VerifyDump(p) BY <2>8 DEF VerifyDump
  <2>9. CASE DumpUnreadable(p) BY <2>9 DEF DumpUnreadable
  <2>10. CASE Reset(p) BY <2>10 DEF Reset
  <2>11. CASE ResetFails(p) BY <2>11 DEF ResetFails
  <2>12. CASE Load(p) BY <2>12 DEF Load
  <2>13. CASE LoadFails(p) BY <2>13 DEF LoadFails
  <2>14. CASE SaveFinal(p) BY <2>14 DEF SaveFinal
  <2>15. CASE SaveFinalFails(p) BY <2>15 DEF SaveFinalFails
  <2>16. CASE SendRecord(p) BY <2>16 DEF SendRecord
  <2>17. CASE SendFails(p) BY <2>17 DEF SendFails
  <2>18. CASE MarkSynced(p) BY <2>18 DEF MarkSynced
  <2>19. CASE Close(p) BY <2>19 DEF Close
  <2>20. QED
    BY <1>3, <2>1, <2>2, <2>3, <2>4, <2>5, <2>6, <2>7, <2>8, <2>9, <2>10,
       <2>11, <2>12, <2>13, <2>14, <2>15, <2>16, <2>17, <2>18, <2>19
    DEF Progress
<1>4. ASSUME NEW p \in Procs, Crash(p) PROVE LockedAlone'
  BY <1>4 DEF Crash
<1>5. CASE SyncRead BY <1>5 DEF SyncRead
<1>6. CASE SyncSend BY <1>6 DEF SyncSend
<1>7. CASE SyncMark BY <1>7 DEF SyncMark
<1>8. CASE SyncSkip BY <1>8 DEF SyncSkip
<1>9. CASE OutsideWrite BY <1>9 DEF OutsideWrite
<1>10. CASE OrphanEnds BY <1>10 DEF OrphanEnds
<1>11. CASE Backup BY <1>11 DEF Backup
<1>12. CASE CleanUp BY <1>12 DEF CleanUp
<1>13. CASE UNCHANGED vars BY <1>13 DEF vars
<1>14. QED
  BY <1>1, <1>2, <1>3, <1>4, <1>5, <1>6, <1>7, <1>8, <1>9, <1>10, <1>11, <1>12, <1>13
     DEF Next, Sync

\* Guarded operations exclude each other, also when processes are killed.
THEOREM LockExcludes == Spec => []LockedAlone
<1>1. TypeInv => TypeOK
  BY DEF TypeInv
<1>2. QED
  BY <1>1, TypeInit, TypeNext, LockInit, LockNext, PTL DEF Spec

-----------------------------------------------------------------------------
(* The clean-up.                                                           *)

\* Without dumps nothing is missing.
LEMMA KeepInit == Init => MinBackupsKept
BY DEF Init, MinBackupsKept

\* A dump the clean-up may take has at least Keep newer ones.
LEMMA CleanedIsOld ==
    ASSUME TypeOK, stored \subseteq 1..last, NEW k \in stored, k \notin Newest(Keep)
    PROVE  last - k >= Keep
<1> DEFINE Newer == {j \in stored : j > k}
<1>1. k \in Nat /\ last \in Nat /\ Keep \in Nat
  BY BoundsAssumption DEF TypeOK, Ids
<1>2. IsFiniteSet((k+1)..last) /\ Cardinality((k+1)..last) =
            IF k + 1 <= last THEN last - k ELSE 0
  BY <1>1, FS_Interval
<1>3. Newer \subseteq (k+1)..last
  <2>1. ASSUME NEW j \in stored, j > k PROVE j \in (k+1)..last
    BY <1>1, <2>1
  <2>2. QED
    BY <2>1
<1>4. IsFiniteSet(Newer) /\ Cardinality(Newer) <= Cardinality((k+1)..last)
  BY <1>2, <1>3, FS_Subset
<1>5. Cardinality(Newer) \in Nat
  BY <1>4, FS_CardinalityType
<1>6. ~(Cardinality(Newer) < Keep)
  BY DEF Newest
<1>7. QED
  BY <1>1, <1>2, <1>4, <1>5, <1>6, BoundsAssumption

KeepInv == stored \subseteq 1..last /\ MinBackupsKept

\* Dumps are numbered upwards and only old ones go.
LEMMA KeepNext == TypeOK /\ KeepInv /\ [Next]_vars => KeepInv'
<1> SUFFICES ASSUME TypeOK, KeepInv, [Next]_vars PROVE KeepInv'
    OBVIOUS
<1> USE BoundsAssumption DEF TypeOK, KeepInv, MinBackupsKept, Ids
<1>1. ASSUME NEW p \in Procs, Ask(p) PROVE KeepInv'
  BY <1>1 DEF Ask, BeginRun, BeginRestore, BeginUndo, Begin
<1>2. ASSUME NEW p \in Procs, Work(p) PROVE KeepInv'
  BY <1>2 DEF Work
<1>3. ASSUME NEW p \in Procs, Progress(p) PROVE KeepInv'
  <2>1. CASE LockDatabase(p) BY <2>1 DEF LockDatabase
  <2>2. CASE LockFails(p) BY <2>2 DEF LockFails
  <2>3. CASE Refuse(p) BY <2>3 DEF Refuse
  <2>4. CASE SaveDump(p) BY <2>4 DEF SaveDump
  <2>5. CASE SaveManifest(p) BY <2>5 DEF SaveManifest
  <2>6. CASE SaveRunning(p) BY <2>6 DEF SaveRunning
  <2>7. CASE ChangeEnds(p) BY <2>7 DEF ChangeEnds
  <2>8. CASE VerifyDump(p) BY <2>8 DEF VerifyDump
  <2>9. CASE DumpUnreadable(p) BY <2>9 DEF DumpUnreadable
  <2>10. CASE Reset(p) BY <2>10 DEF Reset
  <2>11. CASE ResetFails(p) BY <2>11 DEF ResetFails
  <2>12. CASE Load(p) BY <2>12 DEF Load
  <2>13. CASE LoadFails(p) BY <2>13 DEF LoadFails
  <2>14. CASE SaveFinal(p) BY <2>14 DEF SaveFinal
  <2>15. CASE SaveFinalFails(p) BY <2>15 DEF SaveFinalFails
  <2>16. CASE SendRecord(p) BY <2>16 DEF SendRecord
  <2>17. CASE SendFails(p) BY <2>17 DEF SendFails
  <2>18. CASE MarkSynced(p) BY <2>18 DEF MarkSynced
  <2>19. CASE Close(p) BY <2>19 DEF Close
  <2>20. QED
    BY <1>3, <2>1, <2>2, <2>3, <2>4, <2>5, <2>6, <2>7, <2>8, <2>9, <2>10,
       <2>11, <2>12, <2>13, <2>14, <2>15, <2>16, <2>17, <2>18, <2>19
    DEF Progress
<1>4. ASSUME NEW p \in Procs, Crash(p) PROVE KeepInv'
  BY <1>4 DEF Crash
<1>5. CASE SyncRead BY <1>5 DEF SyncRead
<1>6. CASE SyncSend BY <1>6 DEF SyncSend
<1>7. CASE SyncMark BY <1>7 DEF SyncMark
<1>8. CASE SyncSkip BY <1>8 DEF SyncSkip
<1>9. CASE OutsideWrite BY <1>9 DEF OutsideWrite
<1>10. CASE OrphanEnds BY <1>10 DEF OrphanEnds
<1>11. CASE Backup BY <1>11 DEF Backup
<1>12. CASE CleanUp
  <2>1. PICK k \in stored \ Newest(Keep) : stored' = stored \ {k}
    BY <1>12 DEF CleanUp
  <2>2. last - k >= Keep
    BY <2>1, CleanedIsOld
  <2>3. QED
    BY <1>12, <2>1, <2>2 DEF CleanUp
<1>13. CASE UNCHANGED vars BY <1>13 DEF vars
<1>14. QED
  BY <1>1, <1>2, <1>3, <1>4, <1>5, <1>6, <1>7, <1>8, <1>9, <1>10, <1>11, <1>12, <1>13
     DEF Next, Sync

\* The clean-up never takes one of the Keep newest dumps.
THEOREM CleanUpKeeps == Spec => []MinBackupsKept
<1>1. TypeInv => TypeOK
  BY DEF TypeInv
<1>2. Init => KeepInv
  BY KeepInit DEF Init, KeepInv
<1>3. KeepInv => MinBackupsKept
  BY DEF KeepInv
<1>4. QED
  BY <1>1, <1>2, <1>3, TypeInit, TypeNext, KeepNext, PTL DEF Spec

-----------------------------------------------------------------------------
(* Records.  What each step of an operation knows of its own record, and   *)
(* what `dbdock sync` knows of the records it has read.                    *)

RecordInv ==
    /\ \A k \in Ids : k > last => rec[k] = "none"
    /\ \A p \in Procs :
          /\ pc[p] \in {"dumped", "manifest"} => rec[cp[p]] = "none"
          /\ pc[p] \in {"applying", "verifying", "verified", "emptied", "succeeding",
                        "failing"} => rec[cp[p]] = "running"
          /\ pc[p] \in {"sending", "marking"} => rec[cp[p]] \in Terminal
          /\ pc[p] = "marking" => cloud[cp[p]] = rec[cp[p]]
    /\ \A e \in batch \cup arrived : e[2] \in Terminal /\ rec[e[1]] = e[2]
    /\ \A e \in arrived : cloud[e[1]] = e[2]
    /\ CloudHonest

\* What a checkpoint promises, from the dump on.
CheckpointInv ==
    /\ \A p \in Procs :
          /\ pc[p] \in Numbered \ {"dumped"} => cp[p] \in manifests
          /\ pc[p] \in {"dumped", "manifest"} => disturbed \/ content[cp[p]] = db
    /\ \A k \in Ids : rec[k] # "none" => k \in manifests /\ (disturbed \/ content[k] = before[k])

\* Only one operation is between lockDatabase and close.
LEMMA Alone ==
    ASSUME LockedAlone, NEW p \in Procs, NEW q \in Procs,
           pc[p] \in Guarded, pc[q] \in Guarded
    PROVE  p = q
BY DEF LockedAlone

\* Every step of the guard and of `dbdock sync` keeps the record invariant:
\* what sync has read stays true while it sends it.
LEMMA RecordNext ==
    TypeInv /\ LockedAlone /\ RecordInv /\ [Next]_vars => RecordInv'
<1> SUFFICES ASSUME TypeInv, LockedAlone, RecordInv, [Next]_vars PROVE RecordInv'
    OBVIOUS
<1>0. \A p, q \in Procs : pc[p] \in Guarded /\ pc[q] \in Guarded => p = q
  BY Alone
<1> USE BoundsAssumption DEF TypeInv, TypeOK, RecordInv, CloudHonest, Numbered, Guarded,
        Terminal, Ids, At
<1>1. ASSUME NEW p \in Procs, Ask(p) PROVE RecordInv'
  <2>1. pc' = [pc EXCEPT ![p] = "locking"]
    BY <1>1 DEF Ask, BeginRun, BeginRestore, BeginUndo, Begin
  <2>2. UNCHANGED <<cp, last, rec, synced, cloud, batch, arrived>>
    BY <1>1 DEF Ask, BeginRun, BeginRestore, BeginUndo, Begin
  <2>3. QED
    BY <2>1, <2>2
<1>2. ASSUME NEW p \in Procs, Work(p) PROVE RecordInv'
  BY <1>2, <1>0 DEF Work
<1>3. ASSUME NEW p \in Procs, Progress(p) PROVE RecordInv'
  <2>1. CASE LockDatabase(p) BY <2>1, <1>0 DEF LockDatabase
  <2>2. CASE LockFails(p) BY <2>2, <1>0 DEF LockFails
  <2>3. CASE Refuse(p)
    <3>1. pc' = [pc EXCEPT ![p] = "closing"]
      BY <2>3 DEF Refuse
    <3>2. UNCHANGED <<cp, last, rec, synced, cloud, batch, arrived>>
      BY <2>3 DEF Refuse
    <3>3. QED
      BY <3>1, <3>2
  <2>4. CASE SaveDump(p) BY <2>4, <1>0 DEF SaveDump
  <2>5. CASE SaveManifest(p) BY <2>5, <1>0 DEF SaveManifest
  <2>6. CASE SaveRunning(p) BY <2>6, <1>0 DEF SaveRunning
  <2>7. CASE ChangeEnds(p) BY <2>7, <1>0 DEF ChangeEnds
  <2>8. CASE VerifyDump(p) BY <2>8, <1>0 DEF VerifyDump
  <2>9. CASE DumpUnreadable(p) BY <2>9, <1>0 DEF DumpUnreadable
  <2>10. CASE Reset(p) BY <2>10, <1>0 DEF Reset
  <2>11. CASE ResetFails(p) BY <2>11, <1>0 DEF ResetFails
  <2>12. CASE Load(p) BY <2>12, <1>0 DEF Load
  <2>13. CASE LoadFails(p) BY <2>13, <1>0 DEF LoadFails
  <2>14. CASE SaveFinal(p) BY <2>14, <1>0 DEF SaveFinal, Outcome
  <2>15. CASE SaveFinalFails(p) BY <2>15, <1>0 DEF SaveFinalFails
  <2>16. CASE SendRecord(p) BY <2>16, <1>0 DEF SendRecord, Ingest
  <2>17. CASE SendFails(p) BY <2>17, <1>0 DEF SendFails
  <2>18. CASE MarkSynced(p) BY <2>18, <1>0 DEF MarkSynced
  <2>19. CASE Close(p) BY <2>19, <1>0 DEF Close
  <2>20. QED
    BY <1>3, <2>1, <2>2, <2>3, <2>4, <2>5, <2>6, <2>7, <2>8, <2>9, <2>10,
       <2>11, <2>12, <2>13, <2>14, <2>15, <2>16, <2>17, <2>18, <2>19
    DEF Progress
<1>4. ASSUME NEW p \in Procs, Crash(p) PROVE RecordInv'
  BY <1>4, <1>0 DEF Crash
<1>5. CASE SyncRead BY <1>5, <1>0 DEF SyncRead
<1>6. CASE SyncSend BY <1>6, <1>0 DEF SyncSend, Ingest
<1>7. CASE SyncMark BY <1>7, <1>0 DEF SyncMark
<1>8. CASE SyncSkip BY <1>8, <1>0 DEF SyncSkip
<1>9. CASE OutsideWrite BY <1>9, <1>0 DEF OutsideWrite
<1>10. CASE OrphanEnds BY <1>10, <1>0 DEF OrphanEnds
<1>11. CASE Backup BY <1>11, <1>0 DEF Backup
<1>12. CASE CleanUp BY <1>12, <1>0 DEF CleanUp
<1>13. CASE UNCHANGED vars BY <1>13 DEF vars
<1>14. QED
  BY <1>1, <1>2, <1>3, <1>4, <1>5, <1>6, <1>7, <1>8, <1>9, <1>10, <1>11, <1>12, <1>13
     DEF Next, Sync

\* The initial states satisfy the invariant.
LEMMA RecordInit == Init => RecordInv
BY DEF Init, RecordInv, CloudHonest, Ids

\* The invariants of this module that are inductive together.
RecordsInv == TypeInv /\ LockedAlone /\ RecordInv

\* The three invariants hold together in every reachable state.
LEMMA RecordsInductive == Spec => []RecordsInv
<1>1. Init => RecordsInv
  BY TypeInit, LockInit, RecordInit DEF RecordsInv
<1>2. RecordsInv /\ [Next]_vars => RecordsInv'
  <2>1. RecordsInv => TypeInv /\ TypeOK /\ LockedAlone /\ RecordInv
    BY DEF RecordsInv, TypeInv
  <2>2. QED
    BY <2>1, TypeNext, LockNext, RecordNext DEF RecordsInv
<1>3. QED
  BY <1>1, <1>2, PTL DEF Spec

\* Cloud holds only finished records, with the status the file has, and what
\* is marked synced is there.
THEOREM CloudIsHonest == Spec => []CloudHonest
<1>1. RecordsInv => CloudHonest
  BY DEF RecordsInv, RecordInv
<1>2. QED
  BY <1>1, RecordsInductive, PTL


\* No step takes back a finished record or its mark.
LEMMA FinishedStayNext == RecordsInv /\ [Next]_vars => FinishedStay
<1> SUFFICES ASSUME RecordsInv, [Next]_vars PROVE FinishedStay
    OBVIOUS
<1> USE BoundsAssumption DEF RecordsInv, TypeInv, TypeOK, RecordInv, FinishedStay, Numbered, Guarded,
        Terminal, Ids, At
<1>1. ASSUME NEW p \in Procs, Ask(p) PROVE FinishedStay
  <2>1. UNCHANGED <<rec, synced>>
    BY <1>1 DEF Ask, BeginRun, BeginRestore, BeginUndo, Begin
  <2>2. QED
    BY <2>1
<1>2. ASSUME NEW p \in Procs, Work(p) PROVE FinishedStay
  BY <1>2 DEF Work
<1>3. ASSUME NEW p \in Procs, Progress(p) PROVE FinishedStay
  <2>1. CASE LockDatabase(p) BY <2>1 DEF LockDatabase
  <2>2. CASE LockFails(p) BY <2>2 DEF LockFails
  <2>3. CASE Refuse(p)
    <3>1. UNCHANGED <<rec, synced>>
      BY <2>3 DEF Refuse
    <3>2. QED
      BY <3>1
  <2>4. CASE SaveDump(p) BY <2>4 DEF SaveDump
  <2>5. CASE SaveManifest(p) BY <2>5 DEF SaveManifest
  <2>6. CASE SaveRunning(p) BY <2>6 DEF SaveRunning
  <2>7. CASE ChangeEnds(p) BY <2>7 DEF ChangeEnds
  <2>8. CASE VerifyDump(p) BY <2>8 DEF VerifyDump
  <2>9. CASE DumpUnreadable(p) BY <2>9 DEF DumpUnreadable
  <2>10. CASE Reset(p) BY <2>10 DEF Reset
  <2>11. CASE ResetFails(p) BY <2>11 DEF ResetFails
  <2>12. CASE Load(p) BY <2>12 DEF Load
  <2>13. CASE LoadFails(p) BY <2>13 DEF LoadFails
  <2>14. CASE SaveFinal(p) BY <2>14 DEF SaveFinal, Outcome
  <2>15. CASE SaveFinalFails(p) BY <2>15 DEF SaveFinalFails
  <2>16. CASE SendRecord(p) BY <2>16 DEF SendRecord
  <2>17. CASE SendFails(p) BY <2>17 DEF SendFails
  <2>18. CASE MarkSynced(p) BY <2>18 DEF MarkSynced
  <2>19. CASE Close(p) BY <2>19 DEF Close
  <2>20. QED
    BY <1>3, <2>1, <2>2, <2>3, <2>4, <2>5, <2>6, <2>7, <2>8, <2>9, <2>10,
       <2>11, <2>12, <2>13, <2>14, <2>15, <2>16, <2>17, <2>18, <2>19
    DEF Progress
<1>4. ASSUME NEW p \in Procs, Crash(p) PROVE FinishedStay
  BY <1>4 DEF Crash
<1>5. CASE SyncRead BY <1>5 DEF SyncRead
<1>6. CASE SyncSend BY <1>6 DEF SyncSend
<1>7. CASE SyncMark BY <1>7 DEF SyncMark
<1>8. CASE SyncSkip BY <1>8 DEF SyncSkip
<1>9. CASE OutsideWrite BY <1>9 DEF OutsideWrite
<1>10. CASE OrphanEnds BY <1>10 DEF OrphanEnds
<1>11. CASE Backup BY <1>11 DEF Backup
<1>12. CASE CleanUp BY <1>12 DEF CleanUp
<1>13. CASE UNCHANGED vars BY <1>13 DEF vars
<1>14. QED
  BY <1>1, <1>2, <1>3, <1>4, <1>5, <1>6, <1>7, <1>8, <1>9, <1>10, <1>11, <1>12, <1>13
     DEF Next, Sync

\* What a finished record says is never written over.
THEOREM FinishedRecordsStay == Spec => RecordsFinal
<1>1. RecordsInv /\ [Next]_vars => [FinishedStay]_vars
  BY FinishedStayNext
<1>2. QED
  BY <1>1, RecordsInductive, PTL DEF Spec, RecordsFinal

-----------------------------------------------------------------------------
(* Checkpoints.                                                            *)

\* Without records there is nothing to have a checkpoint.
LEMMA CheckpointInit == Init => CheckpointInv
BY DEF Init, CheckpointInv, Numbered, Ids

\* A record that `dbdock sync` writes back says what the file already says.
LEMMA SyncMarkSame == RecordsInv /\ SyncMark => rec' = rec
BY DEF RecordsInv, RecordInv, TypeInv, TypeOK, SyncMark, Ids

\* From dump to record to change, the checkpoint stays what it was.
LEMMA CheckpointNext ==
    RecordsInv /\ CheckpointInv /\ [Next]_vars => CheckpointInv'
<1> SUFFICES ASSUME RecordsInv, CheckpointInv, [Next]_vars PROVE CheckpointInv'
    OBVIOUS
<1>0. \A p, q \in Procs : pc[p] \in Guarded /\ pc[q] \in Guarded => p = q
  BY Alone DEF RecordsInv
<1> USE BoundsAssumption DEF RecordsInv, TypeInv, TypeOK, LockedAlone, RecordInv, CheckpointInv,
        Numbered, Guarded, Terminal, Ids, At
<1>1. ASSUME NEW p \in Procs, Ask(p) PROVE CheckpointInv'
  <2>1. pc' = [pc EXCEPT ![p] = "locking"]
    BY <1>1 DEF Ask, BeginRun, BeginRestore, BeginUndo, Begin
  <2>2. UNCHANGED <<cp, db, store, rec, before, disturbed>>
    BY <1>1 DEF Ask, BeginRun, BeginRestore, BeginUndo, Begin
  <2>3. QED
    BY <2>1, <2>2
<1>2. ASSUME NEW p \in Procs, Work(p) PROVE CheckpointInv'
  BY <1>2, <1>0 DEF Work
<1>3. ASSUME NEW p \in Procs, Progress(p) PROVE CheckpointInv'
  <2>1. CASE LockDatabase(p) BY <2>1, <1>0 DEF LockDatabase
  <2>2. CASE LockFails(p) BY <2>2, <1>0 DEF LockFails
  <2>3. CASE Refuse(p)
    <3>1. pc' = [pc EXCEPT ![p] = "closing"]
      BY <2>3 DEF Refuse
    <3>2. UNCHANGED <<cp, db, store, rec, before, disturbed>>
      BY <2>3 DEF Refuse
    <3>3. QED
      BY <3>1, <3>2
  <2>4. CASE SaveDump(p) BY <2>4, <1>0 DEF SaveDump
  <2>5. CASE SaveManifest(p) BY <2>5, <1>0 DEF SaveManifest
  <2>6. CASE SaveRunning(p) BY <2>6, <1>0 DEF SaveRunning
  <2>7. CASE ChangeEnds(p) BY <2>7, <1>0 DEF ChangeEnds
  <2>8. CASE VerifyDump(p) BY <2>8, <1>0 DEF VerifyDump
  <2>9. CASE DumpUnreadable(p) BY <2>9, <1>0 DEF DumpUnreadable
  <2>10. CASE Reset(p) BY <2>10, <1>0 DEF Reset
  <2>11. CASE ResetFails(p) BY <2>11, <1>0 DEF ResetFails
  <2>12. CASE Load(p) BY <2>12, <1>0 DEF Load
  <2>13. CASE LoadFails(p) BY <2>13, <1>0 DEF LoadFails
  <2>14. CASE SaveFinal(p) BY <2>14, <1>0 DEF SaveFinal, Outcome
  <2>15. CASE SaveFinalFails(p) BY <2>15, <1>0 DEF SaveFinalFails
  <2>16. CASE SendRecord(p) BY <2>16, <1>0 DEF SendRecord
  <2>17. CASE SendFails(p) BY <2>17, <1>0 DEF SendFails
  <2>18. CASE MarkSynced(p) BY <2>18, <1>0 DEF MarkSynced
  <2>19. CASE Close(p) BY <2>19, <1>0 DEF Close
  <2>20. QED
    BY <1>3, <2>1, <2>2, <2>3, <2>4, <2>5, <2>6, <2>7, <2>8, <2>9, <2>10,
       <2>11, <2>12, <2>13, <2>14, <2>15, <2>16, <2>17, <2>18, <2>19
    DEF Progress
<1>4. ASSUME NEW p \in Procs, Crash(p) PROVE CheckpointInv'
  BY <1>4, <1>0 DEF Crash
<1>5. CASE SyncRead BY <1>5, <1>0 DEF SyncRead
<1>6. CASE SyncSend BY <1>6, <1>0 DEF SyncSend
<1>7. CASE SyncMark
  <2>1. rec' = rec
    BY <1>7, SyncMarkSame
  <2>2. QED
    BY <1>7, <2>1 DEF SyncMark
<1>8. CASE SyncSkip BY <1>8, <1>0 DEF SyncSkip
<1>9. CASE OutsideWrite BY <1>9, <1>0 DEF OutsideWrite
<1>10. CASE OrphanEnds BY <1>10, <1>0 DEF OrphanEnds
<1>11. CASE Backup BY <1>11, <1>0 DEF Backup
<1>12. CASE CleanUp BY <1>12, <1>0 DEF CleanUp
<1>13. CASE UNCHANGED vars BY <1>13 DEF vars
<1>14. QED
  BY <1>1, <1>2, <1>3, <1>4, <1>5, <1>6, <1>7, <1>8, <1>9, <1>10, <1>11, <1>12, <1>13
     DEF Next, Sync

-----------------------------------------------------------------------------
(* Restores and what they keep.                                            *)

\* A manifest says what schemas its dump fills, and a restore only goes back to
\* a checkpoint that has one.
ScopeInv ==
    /\ manifests \subseteq 1..last
    /\ \A k \in manifests : content[k] \subseteq scope[k]
    /\ \A p \in Procs :
          /\ pc[p] \in {"dumped", "manifest"} => content[cp[p]] \subseteq scope[cp[p]]
          /\ pc[p] # "idle" /\ op[p].kind # "run" => Target(p) \in manifests

\* There is nothing to fill at the start.
LEMMA ScopeInit == Init => ScopeInv
BY DEF Init, ScopeInv

\* What most steps of an operation leave as it is.
LEMMA StoreStays ==
    ASSUME TypeInv, NEW p \in Procs, Progress(p), ~SaveDump(p), ~SaveManifest(p)
    PROVE  /\ UNCHANGED store
           /\ \A q \in Procs \ {p} : pc'[q] = pc[q] /\ op'[q] = op[q] /\ cp'[q] = cp[q]
           /\ \/ pc'[p] = "idle"
              \/ /\ pc'[p] \notin {"dumped", "manifest"} /\ op'[p] = op[p]
                 /\ pc[p] # "idle"
<1> USE DEF TypeInv, TypeOK, At
<1>1. CASE LockDatabase(p) \/ LockFails(p) \/ Refuse(p) \/ SaveRunning(p) \/ ChangeEnds(p)
  BY <1>1 DEF LockDatabase, LockFails, Refuse, SaveRunning, ChangeEnds
<1>2. CASE VerifyDump(p) \/ DumpUnreadable(p) \/ Reset(p) \/ ResetFails(p)
  BY <1>2 DEF VerifyDump, DumpUnreadable, Reset, ResetFails
<1>3. CASE Load(p) \/ LoadFails(p) \/ SaveFinal(p) \/ SaveFinalFails(p)
  BY <1>3 DEF Load, LoadFails, SaveFinal, SaveFinalFails
<1>4. CASE SendRecord(p) \/ SendFails(p) \/ MarkSynced(p) \/ Close(p)
  BY <1>4 DEF SendRecord, SendFails, MarkSynced, Close
<1>5. QED
  BY <1>1, <1>2, <1>3, <1>4 DEF Progress

\* The dump is of the schemas the manifest names.
LEMMA ScopeNext ==
    TypeInv /\ LockedAlone /\ KeepInv /\ ScopeInv /\ [Next]_vars => ScopeInv'
<1> SUFFICES ASSUME TypeInv, LockedAlone, KeepInv, ScopeInv, [Next]_vars PROVE ScopeInv'
    OBVIOUS
<1>0. \A p, q \in Procs : pc[p] \in Guarded /\ pc[q] \in Guarded => p = q
  BY Alone
<1> USE BoundsAssumption DEF TypeInv, TypeOK, ScopeInv, Target, Ids, At
<1>1. ASSUME NEW p \in Procs, Ask(p) PROVE ScopeInv'
  <2>1. ASSUME NEW kind \in Kinds, NEW k \in 0..MaxCheckpoints, Begin(p, kind, k),
               kind = "run" \/ k \in manifests
        PROVE  ScopeInv'
    BY <2>1 DEF Begin
  <2>2. "run" \in Kinds /\ "restore" \in Kinds /\ "undo" \in Kinds
    BY DEF Kinds
  <2>3. manifests \subseteq 0..MaxCheckpoints /\ 0 \in 0..MaxCheckpoints
    OBVIOUS
  <2>4. QED
    BY <1>1, <2>1, <2>2, <2>3
       DEF Ask, BeginRun, BeginRestore, BeginUndo, UndoTargets, Undoable
<1>2. ASSUME NEW p \in Procs, Work(p) PROVE ScopeInv'
  BY <1>2 DEF Work
<1>3. ASSUME NEW p \in Procs, Progress(p) PROVE ScopeInv'
  <2>1. CASE SaveDump(p)
    <3>1. PICK s \in Scopes : scope' = [scope EXCEPT ![last + 1] = s]
      BY <2>1 DEF SaveDump
    <3>2. /\ content' = [content EXCEPT ![last + 1] = db]
          /\ last + 1 \in Ids /\ last' = last + 1 /\ manifests' = manifests /\ op' = op
          /\ pc' = [pc EXCEPT ![p] = "dumped"] /\ cp' = [cp EXCEPT ![p] = last + 1]
          /\ pc[p] = "locked"
      BY <2>1 DEF SaveDump
    <3>3. db \subseteq s
      BY <3>1 DEF Scopes
    <3>4. \A k \in manifests' : content'[k] \subseteq scope'[k]
      BY <3>1, <3>2
    <3>5. \A q \in Procs \ {p} : pc'[q] \notin {"dumped", "manifest"}
      BY <1>0, <3>2 DEF Guarded
    <3>6. content'[cp'[p]] \subseteq scope'[cp'[p]]
      BY <3>1, <3>2, <3>3
    <3>7. \A q \in Procs : pc'[q] # "idle" /\ op'[q].kind # "run" => Target(q)' \in manifests'
      BY <3>2
    <3>8. manifests' \subseteq 1..last'
      BY <3>2
    <3>9. QED
      BY ONLY <3>4, <3>5, <3>6, <3>7, <3>8 DEF ScopeInv
  <2>2. CASE SaveManifest(p)
    <3>1. /\ pc[p] = "dumped" /\ pc' = [pc EXCEPT ![p] = "manifest"]
          /\ manifests' = manifests \cup {cp[p]}
          /\ UNCHANGED <<op, cp, last, content, scope>>
      BY <2>2 DEF SaveManifest
    <3>2. cp[p] \in 1..last
      BY <3>1 DEF Numbered
    <3>3. QED
      BY <3>1, <3>2
  <2>3. CASE ~SaveDump(p) /\ ~SaveManifest(p)
    <3>1. /\ UNCHANGED store
          /\ \A q \in Procs \ {p} : pc'[q] = pc[q] /\ op'[q] = op[q] /\ cp'[q] = cp[q]
          /\ \/ pc'[p] = "idle"
             \/ /\ pc'[p] \notin {"dumped", "manifest"} /\ op'[p] = op[p]
                /\ pc[p] # "idle"
      BY <1>3, <2>3, StoreStays
    <3>2. QED
      BY <3>1
  <2>4. QED
    BY <2>1, <2>2, <2>3
<1>4. ASSUME NEW p \in Procs, Crash(p) PROVE ScopeInv'
  BY <1>4 DEF Crash
<1>5. CASE Sync
  BY <1>5 DEF Sync, SyncRead, SyncSend, SyncMark, SyncSkip
<1>6. CASE OutsideWrite BY <1>6 DEF OutsideWrite
<1>7. CASE OrphanEnds BY <1>7 DEF OrphanEnds
<1>8. CASE Backup
  <2>1. /\ content' = [content EXCEPT ![last + 1] = db] /\ last' = last + 1
        /\ UNCHANGED <<work, scope, manifests>>
    BY <1>8 DEF Backup
  <2>2. \A k \in 1..last : content'[k] = content[k]
    BY <2>1
  <2>3. \A p \in Procs : pc[p] \in {"dumped", "manifest"} => cp[p] \in 1..last
    BY DEF Numbered
  <2>4. QED
    BY <2>1, <2>2, <2>3
<1>9. CASE CleanUp BY <1>9 DEF CleanUp
<1>10. CASE UNCHANGED vars BY <1>10 DEF vars
<1>11. QED
  BY <1>1, <1>2, <1>3, <1>4, <1>5, <1>6, <1>7, <1>8, <1>9, <1>10 DEF Next

\* What a restore has done by each of its steps: it has emptied the schemas of its
\* checkpoint, then put back what that holds.
Restored(p) ==
    /\ pc[p] = "applying" => op[p].kind = "run"
    /\ pc[p] = "emptied" => disturbed \/ db \cap scope[Target(p)] = {}
    /\ pc[p] = "succeeding" /\ op[p].kind # "run" =>
          disturbed \/ db \cap scope[Target(p)] = content[Target(p)]

RestoreInv == \A p \in Procs : Restored(p)

\* Nobody restores at the start.
LEMMA RestoreInit == Init => RestoreInv
BY DEF Init, RestoreInv, Restored

\* Nobody else writes to the database of a restore, or it is disturbed.
LEMMA RestoreNext ==
    TypeInv /\ LockedAlone /\ ScopeInv /\ RestoreInv /\ [Next]_vars => RestoreInv'
<1> SUFFICES ASSUME TypeInv, LockedAlone, ScopeInv, RestoreInv, [Next]_vars,
                    NEW q \in Procs
             PROVE  Restored(q)'
    BY DEF RestoreInv
<1> DEFINE Sees == UNCHANGED <<db, content, scope, disturbed>>
<1>0. /\ TypeOK
      /\ \A p, r \in Procs : pc[p] \in Guarded /\ pc[r] \in Guarded => p = r
      /\ Restored(q)
  BY Alone DEF TypeInv, RestoreInv
<1>1. ASSUME Sees, pc'[q] = pc[q], op'[q] = op[q] PROVE Restored(q)'
  BY <1>0, <1>1 DEF Restored, Target
<1>2. ASSUME pc'[q] \notin {"applying", "emptied", "succeeding"} PROVE Restored(q)'
  BY <1>2 DEF Restored
<1>3. ASSUME NEW p \in Procs, Ask(p) PROVE Restored(q)'
  <2>1. Sees /\ pc' = [pc EXCEPT ![p] = "locking"] /\ \A r \in Procs \ {p} : op'[r] = op[r]
    BY <1>0, <1>3 DEF Ask, BeginRun, BeginRestore, BeginUndo, Begin, At, TypeOK
  <2>2. QED
    BY <1>0, <1>1, <1>2, <2>1 DEF TypeOK
<1>4. ASSUME NEW p \in Procs, Work(p) PROVE Restored(q)'
  <2>1. pc[p] = "applying" /\ pc' = pc /\ op' = op
    BY <1>4 DEF Work
  <2>2. CASE q = p
    BY <1>0, <2>1, <2>2 DEF Restored
  <2>3. CASE q # p
    BY <1>0, <1>2, <2>1, <2>3 DEF Guarded
  <2>4. QED
    BY <2>2, <2>3
<1>5. ASSUME NEW p \in Procs, Progress(p) PROVE Restored(q)'
  <2>1. CASE q # p
    <3>1. pc'[q] = pc[q] /\ op'[q] = op[q]
      <4>1. CASE SaveDump(p) \/ SaveManifest(p)
        BY <1>0, <2>1, <4>1 DEF SaveDump, SaveManifest, At, TypeOK
      <4>2. CASE ~SaveDump(p) /\ ~SaveManifest(p)
        BY <1>5, <2>1, <4>2, StoreStays
      <4>3. QED
        BY <4>1, <4>2
    <3>2. Sees \/ pc[p] \in Guarded
      <4>1. CASE LockDatabase(p) \/ LockFails(p)
        BY <4>1 DEF LockDatabase, LockFails
      <4>2. CASE ~LockDatabase(p) /\ ~LockFails(p)
        BY <1>5, <4>2 DEF Progress, Refuse, SaveDump, SaveManifest, SaveRunning, ChangeEnds,
           VerifyDump, DumpUnreadable, Reset, ResetFails, Load, LoadFails, SaveFinal,
           SaveFinalFails, SendRecord, SendFails, MarkSynced, Close, At, Guarded
      <4>3. QED
        BY <4>1, <4>2
    <3>3. QED
      BY <1>0, <1>1, <1>2, <2>1, <3>1, <3>2 DEF Guarded
  <2>2. CASE q = p
    <3> USE DEF At
    <3>1. CASE SaveRunning(p)
      BY <1>0, <2>2, <3>1 DEF SaveRunning, Restored, TypeOK
    <3>2. CASE ChangeEnds(p)
      BY <1>0, <2>2, <3>2 DEF ChangeEnds, Restored, TypeOK
    <3>3. CASE Reset(p)
      <4>1. /\ db' \subseteq db \ scope[Target(p)] /\ scope' = scope /\ op' = op
            /\ pc' = [pc EXCEPT ![p] = "emptied"]
        BY <3>3 DEF Reset
      <4>2. db' \cap scope[Target(p)] = {}
        BY <4>1
      <4>3. pc'[p] = "emptied"
        BY <1>0, <4>1 DEF TypeOK
      <4>4. QED
        BY <2>2, <4>1, <4>2, <4>3 DEF Restored, Target
    <3>4. CASE Load(p)
      <4>1. /\ pc[p] = "emptied" /\ pc' = [pc EXCEPT ![p] = "succeeding"]
            /\ db' = db \cup content[Target(p)]
            /\ UNCHANGED <<op, content, scope, disturbed>>
        BY <3>4 DEF Load
      <4>2. pc'[p] = "succeeding"
        BY <1>0, <4>1 DEF TypeOK
      <4>3. ASSUME op[p].kind # "run", ~disturbed
            PROVE  db' \cap scope[Target(p)] = content[Target(p)]
        <5>1. content[Target(p)] \subseteq scope[Target(p)]
          BY <4>1, <4>3 DEF ScopeInv
        <5>2. db \cap scope[Target(p)] = {}
          BY <1>0, <2>2, <4>1, <4>3 DEF Restored
        <5>3. QED
          BY <4>1, <5>1, <5>2
      <4>4. QED
        BY <2>2, <4>1, <4>2, <4>3 DEF Restored, Target
    <3>5. CASE LockDatabase(p) \/ LockFails(p) \/ Refuse(p) \/ SaveDump(p) \/ SaveManifest(p)
      BY <1>0, <1>2, <2>2, <3>5
         DEF LockDatabase, LockFails, Refuse, SaveDump, SaveManifest, TypeOK
    <3>6. CASE VerifyDump(p) \/ DumpUnreadable(p) \/ ResetFails(p) \/ LoadFails(p)
      BY <1>0, <1>2, <2>2, <3>6 DEF VerifyDump, DumpUnreadable, ResetFails, LoadFails, TypeOK
    <3>7. CASE SaveFinal(p) \/ SaveFinalFails(p) \/ SendRecord(p) \/ SendFails(p)
               \/ MarkSynced(p) \/ Close(p)
      BY <1>0, <1>2, <2>2, <3>7
         DEF SaveFinal, SaveFinalFails, SendRecord, SendFails, MarkSynced, Close, TypeOK
    <3>8. QED
      BY <1>5, <3>1, <3>2, <3>3, <3>4, <3>5, <3>6, <3>7 DEF Progress
  <2>3. QED
    BY <2>1, <2>2
<1>6. ASSUME NEW p \in Procs, Crash(p) PROVE Restored(q)'
  <2>1. Sees /\ pc' = [pc EXCEPT ![p] = "idle"] /\ \A r \in Procs \ {p} : op'[r] = op[r]
    BY <1>0, <1>6 DEF Crash, TypeOK
  <2>2. QED
    BY <1>0, <1>1, <1>2, <2>1 DEF TypeOK
<1>7. CASE Sync
  BY <1>1, <1>7 DEF Sync, SyncRead, SyncSend, SyncMark, SyncSkip
<1>8. CASE OutsideWrite
  <2>1. UNCHANGED <<work, content, scope>>
    BY <1>8 DEF OutsideWrite
  <2>2. (db' = db /\ disturbed' = disturbed) \/ disturbed' \/ lock = {}
    BY <1>0, <1>8 DEF OutsideWrite, TypeOK
  <2>3. CASE lock = {}
    BY <1>2, <2>1, <2>3 DEF LockedAlone, Guarded
  <2>4. CASE db' = db /\ disturbed' = disturbed
    BY <1>1, <2>1, <2>4
  <2>5. CASE disturbed'
    BY <1>0, <2>1, <2>5 DEF Restored
  <2>6. QED
    BY <2>2, <2>3, <2>4, <2>5
<1>9. CASE Backup
  <2>1. /\ content' = [content EXCEPT ![last + 1] = db]
        /\ UNCHANGED <<work, db, scope, disturbed>>
    BY <1>9 DEF Backup
  <2>2. ASSUME pc[q] = "succeeding", op[q].kind # "run" PROVE content'[Target(q)] = content[Target(q)]
    <3>1. Target(q) \in 1..last
      BY <2>2 DEF ScopeInv
    <3>2. Target(q) # last + 1 /\ Target(q) \in Ids
      BY <1>0, <3>1, BoundsAssumption DEF TypeOK, Ids
    <3>3. QED
      BY <1>0, <2>1, <3>2 DEF TypeOK
  <2>3. QED
    BY <1>0, <2>1, <2>2 DEF Restored, Target
<1>10. CASE OrphanEnds \/ CleanUp \/ UNCHANGED vars
  BY <1>1, <1>10 DEF OrphanEnds, CleanUp, vars
<1>11. QED
  BY <1>3, <1>4, <1>5, <1>6, <1>7, <1>8, <1>9, <1>10 DEF Next

\* The invariants that are inductive together, from here on.
RestoresInv == RecordsInv /\ KeepInv /\ CheckpointInv /\ ScopeInv /\ RestoreInv

LEMMA RestoresInductive == Spec => []RestoresInv
<1>1. Init => RestoresInv
  BY TypeInit, LockInit, RecordInit, KeepInit, CheckpointInit, ScopeInit, RestoreInit
     DEF RestoresInv, RecordsInv, KeepInv, Init
<1>2. RestoresInv /\ [Next]_vars => RestoresInv'
  <2>1. RestoresInv => TypeInv /\ TypeOK /\ LockedAlone /\ RecordInv
    BY DEF RestoresInv, RecordsInv, TypeInv
  <2>2. QED
    BY <2>1, TypeNext, LockNext, RecordNext, KeepNext, CheckpointNext,
       ScopeNext, RestoreNext DEF RestoresInv, RecordsInv
<1>3. QED
  BY <1>1, <1>2, PTL DEF Spec

\* A checkpoint is there, or the clean-up may have taken it.
LEMMA StoredOrOld ==
    ASSUME RestoresInv, NEW k \in manifests
    PROVE  k \in stored \/ Old(k)
<1>1. k \in 1..last /\ (last - k < Keep => k \in stored)
  BY DEF RestoresInv, ScopeInv, KeepInv, MinBackupsKept
<1>2. last \in Int /\ k \in Int /\ Keep \in Int
  BY <1>1, BoundsAssumption DEF RestoresInv, RecordsInv, TypeInv, TypeOK
<1>3. QED
  BY <1>1, <1>2 DEF Old

\* No change begins without its checkpoint, whatever fails or is killed, and that
\* goes only when the clean-up may take it.
THEOREM CheckpointsComeFirst == Spec => []CheckpointFirst
<1>1. RestoresInv => CheckpointFirst
  <2> SUFFICES ASSUME RestoresInv, NEW k \in Ids, rec[k] # "none"
               PROVE  /\ k \in manifests
                      /\ k \in stored \/ Old(k)
                      /\ disturbed \/ content[k] = before[k]
      BY DEF CheckpointFirst
  <2>1. k \in manifests /\ (disturbed \/ content[k] = before[k])
    BY DEF RestoresInv, CheckpointInv
  <2>2. k \in stored \/ Old(k)
    BY <2>1, StoredOrOld
  <2>3. QED
    BY <2>1, <2>2
<1>2. QED
  BY <1>1, RestoresInductive, PTL

\* A restore that reports success has put back exactly what its checkpoint holds,
\* for any processes and data, whatever else fails or is killed.
THEOREM RestoresAreExact == Spec => []RestoreExact
<1>1. RestoresInv => RestoreExact
  BY DEF RestoresInv, RestoreInv, Restored, RestoreExact
<1>2. QED
  BY <1>1, RestoresInductive, PTL

-----------------------------------------------------------------------------
(* What was found.  Until the change begins it is in the database; from    *)
(* then on, whatever the change or a restore does to the database, it is   *)
(* in the checkpoints.                                                     *)

Kept == UNION {content[k] : k \in manifests}

FoundInv ==
    disturbed \/
        /\ seen \subseteq db \cup Kept
        /\ \A p \in Procs : pc[p] \in Numbered \ {"dumped", "manifest"} => seen \subseteq Kept

\* What a checkpoint holds stays what it is, and checkpoints become more.
LEMMA KeptGrows ==
    ASSUME TypeInv, ScopeInv, [Next]_vars
    PROVE  Kept \subseteq Kept'
<1> USE BoundsAssumption DEF TypeInv, TypeOK, ScopeInv, Ids, At
<1>1. ASSUME NEW k \in manifests PROVE k \in manifests' /\ content'[k] = content[k]
  <2>1. ASSUME NEW p \in Procs, SaveDump(p) PROVE k \in manifests' /\ content'[k] = content[k]
    BY <1>1, <2>1 DEF SaveDump
  <2>2. ASSUME NEW p \in Procs, SaveManifest(p)
        PROVE  k \in manifests' /\ content'[k] = content[k]
    BY <1>1, <2>2 DEF SaveManifest
  <2>3. CASE Backup
    BY <1>1, <2>3 DEF Backup
  <2>4. CASE UNCHANGED <<content, manifests>>
    BY <1>1, <2>4
  <2>5. ASSUME NEW p \in Procs, Progress(p), ~SaveDump(p), ~SaveManifest(p)
        PROVE  UNCHANGED <<content, manifests>>
    BY <2>5, StoreStays
  <2>6. ASSUME NEW p \in Procs, Ask(p) \/ Work(p) \/ Crash(p)
        PROVE  UNCHANGED <<content, manifests>>
    BY <2>6 DEF Ask, BeginRun, BeginRestore, BeginUndo, Begin, Work, Crash
  <2>7. Sync \/ OutsideWrite \/ OrphanEnds \/ CleanUp \/ UNCHANGED vars
            => UNCHANGED <<content, manifests>>
    BY DEF Sync, SyncRead, SyncSend, SyncMark, SyncSkip, OutsideWrite, OrphanEnds, CleanUp, vars
  <2>8. QED
    BY <2>1, <2>2, <2>3, <2>4, <2>5, <2>6, <2>7 DEF Next
<1>2. ASSUME NEW d \in Kept PROVE d \in Kept'
  <2>1. PICK k \in manifests : d \in content[k]
    BY DEF Kept
  <2>2. k \in manifests' /\ d \in content'[k]
    BY <1>1, <2>1
  <2>3. QED
    BY ONLY <2>2 DEF Kept
<1>3. QED
  BY ONLY <1>2

\* The checkpoint of a change holds what the database holds before it.
LEMMA CheckpointKeeps ==
    ASSUME RestoresInv, NEW p \in Procs, pc[p] = "manifest"
    PROVE  disturbed \/ db \subseteq Kept
<1>1. cp[p] \in manifests /\ (disturbed \/ content[cp[p]] = db)
  BY DEF RestoresInv, CheckpointInv, Numbered
<1>2. QED
  BY <1>1 DEF Kept

\* Nothing has been found at the start.
LEMMA FoundInit == Init => FoundInv
BY DEF Init, FoundInv, Numbered

\* No step of a guarded operation loses what it found, and others are only heeded
\* while it holds the lock.
LEMMA FoundNext == RestoresInv /\ FoundInv /\ [Next]_vars => FoundInv'
<1> SUFFICES ASSUME RestoresInv, FoundInv, [Next]_vars, ~disturbed'
             PROVE  FoundInv'
    BY DEF FoundInv
<1> USE DEF FoundInv, Numbered, At
<1>0. ~disturbed
  <2>1. CASE OutsideWrite BY <2>1 DEF OutsideWrite, RestoresInv, RecordsInv, TypeInv, TypeOK
  <2>2. ASSUME NEW p \in Procs, Progress(p) PROVE UNCHANGED disturbed
    BY <2>2 DEF Progress, LockDatabase, LockFails, Refuse, SaveDump, SaveManifest, SaveRunning,
       ChangeEnds, VerifyDump, DumpUnreadable, Reset, ResetFails, Load, LoadFails, SaveFinal,
       SaveFinalFails, SendRecord, SendFails, MarkSynced, Close
  <2>3. ASSUME NEW p \in Procs, Ask(p) \/ Work(p) \/ Crash(p) PROVE UNCHANGED disturbed
    BY <2>3 DEF Ask, BeginRun, BeginRestore, BeginUndo, Begin, Work, Crash
  <2>4. Sync \/ OrphanEnds \/ Backup \/ CleanUp \/ UNCHANGED vars => UNCHANGED disturbed
    BY DEF Sync, SyncRead, SyncSend, SyncMark, SyncSkip, OrphanEnds, Backup, CleanUp, vars
  <2>5. QED
    BY <2>1, <2>2, <2>3, <2>4 DEF Next
<1>1. /\ TypeInv /\ TypeOK /\ LockedAlone /\ ScopeInv
      /\ pc = [q \in Procs |-> pc[q]]
  BY DEF RestoresInv, RecordsInv, TypeInv, TypeOK
<1>2. Kept \subseteq Kept'
  BY <1>1, KeptGrows
<1>3. \A p, q \in Procs : pc[p] \in Guarded /\ pc[q] \in Guarded => p = q
  BY <1>1, Alone
<1>4. seen \subseteq db \cup Kept
      /\ \A p \in Procs : pc[p] \in Numbered \ {"dumped", "manifest"} => seen \subseteq Kept
  BY <1>0
<1>5. ASSUME NEW p \in Procs, Ask(p) \/ Crash(p) PROVE FoundInv'
  <2>1. UNCHANGED <<db, seen>> /\ (pc' = [pc EXCEPT ![p] = "locking"] \/ pc' = [pc EXCEPT ![p] = "idle"])
    BY <1>5 DEF Ask, BeginRun, BeginRestore, BeginUndo, Begin, Crash
  <2>2. QED
    BY <1>1, <1>2, <1>4, <2>1
<1>6. ASSUME NEW p \in Procs, Work(p) PROVE FoundInv'
  BY <1>1, <1>2, <1>4, <1>6 DEF Work
<1>7. ASSUME NEW p \in Procs, Progress(p) PROVE FoundInv'
  <2>1. CASE LockDatabase(p)
    BY <1>1, <1>2, <1>3, <1>4, <2>1 DEF LockDatabase, LockedAlone, Guarded
  <2>2. CASE LockFails(p) BY <1>1, <1>2, <1>4, <2>2 DEF LockFails
  <2>3. CASE Refuse(p) BY <1>1, <1>2, <1>4, <2>3 DEF Refuse
  <2>4. CASE SaveDump(p) BY <1>1, <1>2, <1>4, <2>4 DEF SaveDump
  <2>5. CASE SaveManifest(p) BY <1>1, <1>2, <1>4, <2>5 DEF SaveManifest
  <2>6. CASE SaveRunning(p)
    BY <1>0, <1>1, <1>2, <1>4, <2>6, CheckpointKeeps DEF SaveRunning
  <2>7. CASE ChangeEnds(p) BY <1>1, <1>2, <1>4, <2>7 DEF ChangeEnds
  <2>8. CASE VerifyDump(p) BY <1>1, <1>2, <1>4, <2>8 DEF VerifyDump
  <2>9. CASE DumpUnreadable(p) BY <1>1, <1>2, <1>4, <2>9 DEF DumpUnreadable
  <2>10. CASE Reset(p)
    BY <1>1, <1>2, <1>4, <2>10 DEF Reset
  <2>11. CASE ResetFails(p)
    BY <1>1, <1>2, <1>4, <2>11 DEF ResetFails
  <2>12. CASE Load(p)
    BY <1>1, <1>2, <1>4, <2>12 DEF Load
  <2>13. CASE LoadFails(p)
    BY <1>1, <1>2, <1>4, <2>13 DEF LoadFails
  <2>14. CASE SaveFinal(p) BY <1>1, <1>2, <1>4, <2>14 DEF SaveFinal
  <2>15. CASE SaveFinalFails(p) BY <1>1, <1>2, <1>4, <2>15 DEF SaveFinalFails
  <2>16. CASE SendRecord(p) BY <1>1, <1>2, <1>4, <2>16 DEF SendRecord
  <2>17. CASE SendFails(p) BY <1>1, <1>2, <1>4, <2>17 DEF SendFails
  <2>18. CASE MarkSynced(p) BY <1>1, <1>2, <1>4, <2>18 DEF MarkSynced
  <2>19. CASE Close(p) BY <1>1, <1>2, <1>4, <2>19 DEF Close
  <2>20. QED
    BY <1>7, <2>1, <2>2, <2>3, <2>4, <2>5, <2>6, <2>7, <2>8, <2>9, <2>10,
       <2>11, <2>12, <2>13, <2>14, <2>15, <2>16, <2>17, <2>18, <2>19
    DEF Progress
<1>8. CASE Sync
  BY <1>2, <1>4, <1>8 DEF Sync, SyncRead, SyncSend, SyncMark, SyncSkip
<1>9. CASE OutsideWrite
  <2>1. PICK next \in SUBSET Data :
            db' = next /\ seen' = IF lock = {} THEN seen \ (db \ next) ELSE seen
    BY <1>9 DEF OutsideWrite
  <2>2. pc' = pc /\ (lock = {} \/ (db' = db /\ seen' = seen))
    BY <1>0, <1>9 DEF OutsideWrite
  <2>3. QED
    BY <1>1, <1>2, <1>4, <2>1, <2>2 DEF LockedAlone, Guarded
<1>10. CASE OrphanEnds \/ UNCHANGED vars
  BY <1>2, <1>4, <1>10 DEF OrphanEnds, vars
<1>11. CASE Backup \/ CleanUp
  BY <1>2, <1>4, <1>11 DEF Backup, CleanUp
<1>12. QED
  BY <1>5, <1>6, <1>7, <1>8, <1>9, <1>10, <1>11 DEF Next

\* What a guarded operation found is still there or can be restored, for any number
\* of operations one after the other or at once.
THEOREM NothingIsLost == Spec => []NothingLost
<1>1. RestoresInv /\ FoundInv => NothingLost
  <2> SUFFICES ASSUME RestoresInv, FoundInv, ~disturbed PROVE seen \subseteq Recoverable
      BY DEF NothingLost
  <2>1. {j \in manifests : j \in stored \/ Old(j)} = manifests
    BY StoredOrOld
  <2>2. Recoverable = db \cup Kept
    BY <2>1 DEF Recoverable, Kept
  <2>3. QED
    BY <2>2 DEF FoundInv
<1>2. QED
  BY <1>1, RestoresInductive, FoundInit, FoundNext, PTL DEF Spec

-----------------------------------------------------------------------------
(* Undo.  Between the search for the target and the end of the undo only   *)
(* the undo itself adds a record, when no other process runs.              *)

OneProcess == \A p, q \in Procs : p = q

UndoInv ==
    \A p \in Procs :
        /\ pc[p] \in {"idle", "locking", "locked"} => cp[p] = 0
        /\ op[p].kind = "undo" =>
               \A k \in Ids : rec[k] # "none" => k <= Target(p) \/ k = cp[p]

UndoAlone == OneProcess => UndoInv

\* Nothing is asked for at the start.
LEMMA UndoInit == Init => UndoInv
BY DEF Init, UndoInv, NoOp

\* The target undo finds is the newest change that has a record.
LEMMA TargetIsLast ==
    ASSUME RestoresInv, NEW t \in UndoTargets, NEW k \in Ids, rec[k] # "none"
    PROVE  k <= t
<1>1. k \in manifests
  BY DEF RestoresInv, CheckpointInv
<1>2. QED
  BY <1>1 DEF UndoTargets, Undoable

\* What undo goes back before stays the newest change but its own.
LEMMA UndoNext ==
    ASSUME OneProcess, RestoresInv, UndoInv, [Next]_vars
    PROVE  UndoInv'
<1>0. \A p, q \in Procs : p = q
  BY DEF OneProcess
<1>a. TypeOK
  BY DEF RestoresInv, RecordsInv, TypeInv
<1> USE <1>a, BoundsAssumption DEF TypeOK, UndoInv, Target, Ids, At, NoOp
<1>1. ASSUME NEW p \in Procs, Ask(p) PROVE UndoInv'
  <2>1. CASE BeginRun(p) BY <2>1 DEF BeginRun, Begin
  <2>2. CASE BeginRestore(p) BY <2>2 DEF BeginRestore, Begin
  <2>3. CASE BeginUndo(p)
    <3>1. PICK t \in UndoTargets : Begin(p, "undo", t)
      BY <2>3 DEF BeginUndo
    <3>2. \A k \in Ids : rec[k] # "none" => k <= t
      BY TargetIsLast
    <3>3. QED
      BY <3>1, <3>2 DEF Begin
  <2>4. QED
    BY <1>1, <2>1, <2>2, <2>3 DEF Ask
<1>2. ASSUME NEW p \in Procs, Work(p) PROVE UndoInv'
  BY <1>2 DEF Work
<1>3. ASSUME NEW p \in Procs, Progress(p) PROVE UndoInv'
  <2>1. CASE LockDatabase(p) BY <2>1 DEF LockDatabase
  <2>2. CASE LockFails(p) BY <2>2 DEF LockFails
  <2>3. CASE Refuse(p) BY <2>3 DEF Refuse
  <2>4. CASE SaveDump(p) BY <2>4 DEF SaveDump
  <2>5. CASE SaveManifest(p) BY <2>5 DEF SaveManifest
  <2>6. CASE SaveRunning(p) BY <1>0, <2>6 DEF SaveRunning
  <2>7. CASE ChangeEnds(p) BY <2>7 DEF ChangeEnds
  <2>8. CASE VerifyDump(p) BY <2>8 DEF VerifyDump
  <2>9. CASE DumpUnreadable(p) BY <2>9 DEF DumpUnreadable
  <2>10. CASE Reset(p) BY <2>10 DEF Reset
  <2>11. CASE ResetFails(p) BY <2>11 DEF ResetFails
  <2>12. CASE Load(p) BY <2>12 DEF Load
  <2>13. CASE LoadFails(p) BY <2>13 DEF LoadFails
  <2>14. CASE SaveFinal(p) BY <1>0, <2>14 DEF SaveFinal
  <2>15. CASE SaveFinalFails(p) BY <2>15 DEF SaveFinalFails
  <2>16. CASE SendRecord(p) BY <2>16 DEF SendRecord
  <2>17. CASE SendFails(p) BY <2>17 DEF SendFails
  <2>18. CASE MarkSynced(p) BY <2>18 DEF MarkSynced
  <2>19. CASE Close(p) BY <2>19 DEF Close
  <2>20. QED
    BY <1>3, <2>1, <2>2, <2>3, <2>4, <2>5, <2>6, <2>7, <2>8, <2>9, <2>10,
       <2>11, <2>12, <2>13, <2>14, <2>15, <2>16, <2>17, <2>18, <2>19
    DEF Progress
<1>4. ASSUME NEW p \in Procs, Crash(p) PROVE UndoInv'
  BY <1>4 DEF Crash
<1>5. CASE Sync
  <2>1. rec' = rec
    BY <1>5, SyncMarkSame
    DEF RestoresInv, Sync, SyncRead, SyncSend, SyncSkip
  <2>2. UNCHANGED <<pc, op, cp>>
    BY <1>5 DEF Sync, SyncRead, SyncSend, SyncMark, SyncSkip
  <2>3. QED
    BY <2>1, <2>2
<1>6. CASE OutsideWrite \/ OrphanEnds \/ Backup \/ CleanUp \/ UNCHANGED vars
  BY <1>6 DEF OutsideWrite, OrphanEnds, Backup, CleanUp, vars
<1>7. QED
  BY <1>1, <1>2, <1>3, <1>4, <1>5, <1>6 DEF Next

\* One process that undoes takes back the last change, for any number of changes
\* before it, failures, kills and clean-ups.
THEOREM UndoIsExact == Spec => [](OneProcess => UndoesLastChange)
<1>1. RestoresInv /\ UndoInv => UndoesLastChange
  <2> SUFFICES ASSUME RestoresInv, UndoInv PROVE UndoesLastChange
      OBVIOUS
  <2>1. TypeOK
    BY DEF RestoresInv, RecordsInv, TypeInv
  <2>2. ASSUME NEW p \in Procs, op[p].kind = "undo",
               NEW k \in Ids, Target(p) < k, k < cp[p]
        PROVE  rec[k] = "none"
    <3>1. k \in Int /\ Target(p) \in Int /\ cp[p] \in Int
      BY <2>1, BoundsAssumption DEF TypeOK, Target, Ids
    <3>2. ~(k <= Target(p)) /\ k # cp[p]
      BY <2>2, <3>1
    <3>3. QED
      BY <2>2, <3>2 DEF UndoInv
  <2>3. QED
    BY <2>2 DEF UndoesLastChange
<1>2. RestoresInv /\ UndoAlone /\ [Next]_vars => UndoAlone'
  BY UndoNext DEF UndoAlone, OneProcess
<1>3. Init => UndoAlone
  BY UndoInit DEF UndoAlone
<1>4. UndoAlone /\ RestoresInv => (OneProcess => UndoesLastChange)
  BY <1>1 DEF UndoAlone
<1>5. QED
  BY <1>2, <1>3, <1>4, RestoresInductive, PTL DEF Spec
=============================================================================
