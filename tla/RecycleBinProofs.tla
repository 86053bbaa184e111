-------------------------- MODULE RecycleBinProofs --------------------------
(***************************************************************************)
(* Proofs about RecycleBin, for any processes, backups, writes and         *)
(* settings of the retention; most of them about buckets, where an object  *)
(* is written at once and listed by its prefix.                            *)
(***************************************************************************)
EXTENDS RecycleBin, FiniteSetTheorems, TLAPS

USE BoundsAssumption, RetentionAssumption, LocalAssumption
USE DEF stored, process

Working == {"copying", "copied", "described", "purged", "restoring", "returning",
            "returned", "removed"}

Types ==
    /\ TypeOK
    /\ \A p \in Procs : pc[p] \in Working => item[p] \in Object

\* A write leaves one object under its key.
LEMMA PutTypes ==
    ASSUME TypeOK, NEW o \in Object, Put(o)
    PROVE  /\ objects' \subseteq Object /\ now' \in Times /\ now' = now + 1
           /\ \A a, x \in objects' :
                 <<a.kind, a.of, a.stamp>> = <<x.kind, x.of, x.stamp>> => a = x
<1> DEFINE new == [o EXCEPT !.time = now + 1]
<1>1. now + 1 \in Times /\ now' = now + 1
  BY DEF TypeOK, Put, Times
<1>2. new \in Object /\ SameKey(new, o)
  BY <1>1 DEF Object, SameKey
<1>3. objects' = {x \in objects : ~SameKey(x, o)} \cup {new}
  BY DEF Put
<1>4. QED
  BY <1>1, <1>2, <1>3 DEF TypeOK, SameKey

LEMMA RemoveTypes ==
    ASSUME TypeOK, NEW o, Remove(o)
    PROVE  /\ objects' \subseteq Object
           /\ \A a, x \in objects' :
                 <<a.kind, a.of, a.stamp>> = <<x.kind, x.of, x.stamp>> => a = x
BY DEF TypeOK, Remove

LEMMA Names ==
    ASSUME NEW b \in Backups, NEW s \in Times, NEW w \in BOOLEAN
    PROVE  Trash(b, s, w) \in Object /\ Meta(b, s) \in Object
BY DEF Trash, Meta, Object, Times

LEMMA BackupName == ASSUME NEW b \in Backups, NEW w \in BOOLEAN PROVE Backup(b, w) \in Object
BY DEF Backup, Object, Times

LEMMA TypesInit == Init => Types
BY DEF Init, Types, TypeOK, Times, PCs, Working

LEMMA TypesNext == Types /\ [Next]_vars => Types'
<1> SUFFICES ASSUME Types, [Next]_vars PROVE Types'
    OBVIOUS
<1> USE DEF Types, TypeOK, Working, PCs, At, Release
<1>a. /\ \A o \in Object : o.of \in Backups /\ o.stamp \in Times /\ o.whole \in BOOLEAN
      /\ \A o \in Object : IsWhole(o) \in BOOLEAN
      /\ 0 \in Times /\ 0 <= now /\ TypeOK
  BY DEF Object, IsWhole, Times
<1>1. CASE MakeBackup
  <2>1. made + 1 \in Backups
    BY <1>1 DEF MakeBackup, Backups
  <2>2. Backup(made + 1, TRUE) \in Object
    BY <2>1, BackupName
  <2>3. objects' \subseteq Object /\ now' \in Times
        /\ \A a, x \in objects' :
              <<a.kind, a.of, a.stamp>> = <<x.kind, x.of, x.stamp>> => a = x
    BY <1>1, <1>a, <2>2, PutTypes DEF MakeBackup
  <2>4. made' \in 0..MaxBackups
    BY <1>1 DEF MakeBackup
  <2>5. QED
    BY <1>1, <2>3, <2>4 DEF MakeBackup
<1>2. CASE TimePasses
  BY <1>2 DEF TimePasses, Times
<1>3. ASSUME NEW p \in Procs, CleanUp(p) \/ Purge(p) PROVE Types'
  BY <1>3 DEF CleanUp, Purge, Listed
<1>4. ASSUME NEW p \in Procs, RestoreStarts(p) PROVE Types'
  <2>1. PICK m \in objects :
           item' = [item EXCEPT ![p] = Trash(m.of, m.stamp, IsWhole(Trash(m.of, m.stamp, TRUE)))]
    BY <1>4 DEF RestoreStarts
  <2>2. Trash(m.of, m.stamp, IsWhole(Trash(m.of, m.stamp, TRUE))) \in Object
    BY <1>a, <2>1, Names DEF IsWhole
  <2>3. QED
    BY <1>4, <2>1, <2>2 DEF RestoreStarts
<1>5. ASSUME NEW p \in Procs, Copy(p) PROVE Types'
  <2>1. PICK o \in plan[p] :
           /\ item' = [item EXCEPT ![p] = [o EXCEPT !.whole = IsWhole(o)]]
           /\ Put(Trash(o.of, now + 1, IsWhole(o) /\ ~Local))
    BY <1>5 DEF Copy
  <2>2. now + 1 \in Times
    BY <2>1 DEF Put, Times
  <2>3. Trash(o.of, now + 1, IsWhole(o) /\ ~Local) \in Object
    BY <1>a, <2>1, <2>2, Names
  <2>4. [o EXCEPT !.whole = IsWhole(o)] \in Object
    BY <1>a, <2>1 DEF Object
  <2>5. QED
    BY <1>5, <1>a, <2>1, <2>2, <2>3, <2>4, PutTypes DEF Copy
<1>6. ASSUME NEW p \in Procs, CopyEnds(p) \/ Describe(p) PROVE Types'
  <2>1. PICK o \in Object : Put(o)
    BY <1>6, <1>a, Names DEF CopyEnds, Describe
  <2>2. QED
    BY <1>6, <1>a, <2>1, PutTypes DEF CopyEnds, Describe
<1>7. ASSUME NEW p \in Procs, Delete(p) \/ RemoveReturned(p) PROVE Types'
  BY <1>7, <1>a, RemoveTypes DEF Delete, RemoveReturned, Handled
<1>8. ASSUME NEW p \in Procs, DeleteTrash(p) PROVE Types'
  BY <1>8, <1>a, RemoveTypes DEF DeleteTrash
<1>9. ASSUME NEW p \in Procs, CleanUpFails(p) PROVE Types'
  <2>1. plan' \in [Procs -> SUBSET Object] /\ UNCHANGED stored
    BY <1>9 DEF CleanUpFails, Handled
  <2>2. \/ UNCHANGED <<pc, item, stamp>>
        \/ /\ pc' = [pc EXCEPT ![p] = "cleaning"]
           /\ Release(p)
    BY <1>9 DEF CleanUpFails
  <2>3. QED
    BY <1>a, <2>1, <2>2
<1>10. ASSUME NEW p \in Procs, CleanUpEnds(p) \/ PurgeEnds(p) \/ Stop(p) PROVE Types'
  BY <1>10 DEF CleanUpEnds, PurgeEnds, Stop, Times
<1>11. ASSUME NEW p \in Procs, Return(p) \/ ReturnEnds(p) PROVE Types'
  <2>1. PICK o \in Object : Put(o)
    BY <1>11, <1>a, BackupName DEF Return, ReturnEnds, Found, SameKey
  <2>2. QED
    BY <1>11, <1>a, <2>1, PutTypes DEF Return, ReturnEnds
<1>12. ASSUME NEW p \in Procs, RestoreEnds(p) \/ PurgeMeta(p) PROVE Types'
  BY <1>12, <1>a, RemoveTypes DEF RestoreEnds, PurgeMeta
<1>13. ASSUME NEW p \in Procs, PurgeOne(p) PROVE Types'
  BY <1>13, <1>a, RemoveTypes DEF PurgeOne
<1>14. CASE UNCHANGED vars
  BY <1>14 DEF vars
<1>15. QED
  BY <1>1, <1>2, <1>3, <1>4, <1>5, <1>6, <1>7, <1>8, <1>9, <1>10, <1>11, <1>12, <1>13,
     <1>14 DEF Next, GoesOn

\* Every variable has its type in every reachable state, on local disk as well.
THEOREM TypeCorrect == Spec => []TypeOK
<1>1. Types => TypeOK
  BY DEF Types
<1> QED
  BY <1>1, TypesInit, TypesNext, PTL DEF Spec

-----------------------------------------------------------------------------
(* What a clean-up, a purge and a restore of a bucket rely on.             *)

Deleting == {"copied", "described"}
Restoring == {"restoring", "returned", "removed"}

\* What is stored: everything is whole, a trash copy is as old as its timestamp says.
StoredInv ==
    /\ cutoff <= now + 1
    /\ \A o \in objects : /\ o.whole
                          /\ o.stamp <= now /\ o.of <= made
                          /\ o.kind = "trash" => o.time = o.stamp
                          /\ o.kind = "backup" => o.stamp = 0

Original(o) == o.kind = "backup" /\ o.stamp = 0 /\ o.of <= made

\* A clean-up deletes originals, and no purge is as late as the copy it makes.
CleaningInv(p) ==
    /\ pc[p] \in Deleting \cup {"cleaning"} => \A o \in plan[p] : Original(o)
    /\ pc[p] \in Deleting => /\ Original(item[p])
                             /\ cutoff <= stamp[p] /\ stamp[p] <= now
                             /\ Found(Trash(item[p].of, stamp[p], TRUE))
    /\ pc[p] = "described" => Found(Meta(item[p].of, stamp[p]))

\* A purge has planned old copies, and finishes with one before it takes the next.
PurgingInv(p) ==
    /\ pc[p] \in {"purging", "purged"} => \A o \in plan[p] : o.kind = "trash" /\ o.stamp < cutoff
    /\ pc[p] = "purged" => item[p].kind = "trash" /\ item[p].stamp < cutoff /\ ~Found(item[p])

\* A restore has the bin alone and puts back before it removes.
RestoringInv(p) ==
    /\ pc[p] \in Restoring => /\ \A q \in Procs \ {p} : pc[q] = "idle"
                              /\ item[p].kind = "trash" /\ item[p].stamp <= now
    /\ pc[p] = "returned" => Found(Backup(item[p].of, TRUE))
    /\ pc[p] = "removed" => ~Found(item[p])

BucketInv ==
    /\ StoredInv
    /\ \A p \in Procs : /\ pc[p] \notin {"copying", "returning"}
                        /\ CleaningInv(p) /\ PurgingInv(p) /\ RestoringInv(p)

\* The objects of a bucket are whole, whatever is made of them.
Numbers ==
    /\ now \in Int /\ made \in Int /\ cutoff \in Int
    /\ \A o \in objects : o.stamp \in Int /\ o.of \in Int /\ o.time \in Int

LEMMA TypesNumbers == Types => Numbers
BY DEF Types, TypeOK, Times, Backups, Object, Numbers

LEMMA StoredPut ==
    ASSUME Types, StoredInv, NEW o \in Object, Put(o), o.whole, o.stamp <= now + 1,
           o.kind = "trash" => o.stamp = now + 1, o.kind = "backup" => o.stamp = 0,
           made' \in Int, made <= made', o.of <= made', cutoff' = cutoff
    PROVE  StoredInv'
<1> DEFINE new == [o EXCEPT !.time = now + 1]
<1>1. now' = now + 1 /\ objects' = {x \in objects : ~SameKey(x, o)} \cup {new}
  BY DEF Put
<1>2. new.whole /\ new.stamp = o.stamp /\ new.kind = o.kind /\ new.of = o.of /\ new.time = now + 1
  BY DEF Object
<1>3. Numbers /\ o.stamp \in Int /\ o.of \in Int
  BY TypesNumbers DEF Object, Times, Backups
<1>4. cutoff' <= now' + 1
  BY <1>1, <1>3 DEF StoredInv, Numbers
<1>5. ASSUME NEW x \in objects'
      PROVE  /\ x.whole /\ x.stamp <= now' /\ x.of <= made'
             /\ x.kind = "trash" => x.time = x.stamp
             /\ x.kind = "backup" => x.stamp = 0
  <2>1. CASE x = new
    BY <1>1, <1>2, <1>3, <2>1 DEF Numbers
  <2>2. CASE x \in objects
    BY <1>1, <1>3, <2>2 DEF StoredInv, Numbers
  <2>3. QED
    BY <1>1, <1>5, <2>1, <2>2
<1>6. QED
  BY <1>4, <1>5 DEF StoredInv

LEMMA StoredNext == ~Local /\ Types /\ BucketInv /\ [Next]_vars => StoredInv'
<1> SUFFICES ASSUME ~Local, Types, BucketInv, [Next]_vars PROVE StoredInv'
    OBVIOUS
<1>a. Numbers /\ StoredInv
  BY TypesNumbers DEF BucketInv
<1>b. ASSUME objects' \subseteq objects, UNCHANGED <<made, now, cutoff>> PROVE StoredInv'
  BY <1>a, <1>b DEF StoredInv
<1>1. CASE MakeBackup
  <2>1. made + 1 \in Backups
    BY <1>1 DEF MakeBackup, Backups, Types, TypeOK
  <2>2. Backup(made + 1, TRUE) \in Object
    BY <2>1, BackupName
  <2>3. PICK o \in Object : Put(o) /\ o.whole /\ o.kind = "backup" /\ o.stamp = 0
                            /\ o.of = made + 1
    BY <1>1, <2>2 DEF MakeBackup, Backup
  <2>4. 0 <= now + 1
    BY DEF Types, TypeOK, Times
  <2>5. QED
    BY <1>1, <1>a, <2>3, <2>4, StoredPut DEF MakeBackup, Numbers
<1>2. CASE TimePasses
  BY <1>2, <1>a DEF TimePasses, StoredInv, Numbers
<1>3. ASSUME NEW p \in Procs, CleanUp(p) \/ RestoreStarts(p) \/ Purge(p) \/ Stop(p) PROVE StoredInv'
  BY <1>3, <1>b DEF CleanUp, RestoreStarts, Purge, Stop
<1>4. ASSUME NEW p \in Procs, Copy(p) PROVE StoredInv'
  <2>1. PICK o \in plan[p] : Found(o) /\ Put(Trash(o.of, now + 1, IsWhole(o) /\ ~Local))
    BY <1>4 DEF Copy
  <2>2. PICK x \in objects : SameKey(x, o)
    BY <2>1 DEF Found
  <2>3. IsWhole(o) /\ o.of <= made /\ o.of \in Backups /\ now + 1 \in Times
    BY <1>a, <2>1, <2>2 DEF IsWhole, StoredInv, SameKey, Types, TypeOK, Object, Put, Times
  <2>4. Trash(o.of, now + 1, TRUE) \in Object
    BY <2>3, Names
  <2>5. Put(Trash(o.of, now + 1, TRUE))
    BY <2>1, <2>3
  <2>6. PICK t \in Object : Put(t) /\ t.whole /\ t.kind = "trash" /\ t.stamp = now + 1
                            /\ t.of = o.of
    BY <2>4, <2>5 DEF Trash
  <2>7. QED
    BY <1>4, <1>a, <2>3, <2>6, StoredPut DEF Copy, Numbers
<1>5. ASSUME NEW p \in Procs, Describe(p) PROVE StoredInv'
  <2> DEFINE m == Meta(item[p].of, stamp[p])
  <2>1. pc[p] = "copied" /\ Put(m) /\ UNCHANGED <<made, cutoff>>
    BY <1>5 DEF Describe, At
  <2>2. item[p].of \in Backups /\ stamp[p] \in Times /\ stamp[p] <= now /\ item[p].of <= made
    BY <2>1 DEF BucketInv, CleaningInv, Deleting, Original, Types, TypeOK, Working, Object
  <2>3. m \in Object
    BY <2>2, Names
  <2>4. m.whole /\ m.kind = "meta" /\ m.stamp = stamp[p] /\ m.of = item[p].of
    BY DEF Meta
  <2>5. stamp[p] <= now + 1
    BY <1>a, <2>2 DEF Numbers, Times
  <2>6. QED
    BY <1>a, <2>1, <2>2, <2>3, <2>4, <2>5, StoredPut DEF Numbers
<1>6. ASSUME NEW p \in Procs, Return(p) PROVE StoredInv'
  <2>1. /\ Found(item[p]) /\ UNCHANGED <<made, cutoff>>
        /\ Put(Backup(item[p].of, IsWhole(item[p]) /\ ~Local))
    BY <1>6 DEF Return
  <2>2. PICK x \in objects : SameKey(x, item[p])
    BY <2>1 DEF Found
  <2>3. item[p].of \in Backups /\ item[p].of <= made /\ IsWhole(item[p])
    BY <1>a, <2>2 DEF IsWhole, StoredInv, SameKey, Types, TypeOK, Object
  <2>4. Backup(item[p].of, TRUE) \in Object
    BY <2>3, BackupName
  <2>5. Put(Backup(item[p].of, TRUE))
    BY <2>1, <2>3
  <2>6. PICK o \in Object : Put(o) /\ o.whole /\ o.kind = "backup" /\ o.stamp = 0
                            /\ o.of = item[p].of
    BY <2>4, <2>5 DEF Backup
  <2>7. 0 <= now + 1
    BY DEF Types, TypeOK, Times
  <2>8. QED
    BY <1>a, <2>1, <2>3, <2>6, <2>7, StoredPut DEF Numbers
<1>7. ASSUME NEW p \in Procs, CopyEnds(p) \/ ReturnEnds(p) PROVE StoredInv'
  BY <1>7 DEF CopyEnds, ReturnEnds, At, BucketInv
<1>8. ASSUME NEW p \in Procs,
             Delete(p) \/ DeleteTrash(p) \/ RemoveReturned(p) \/ RestoreEnds(p)
             \/ PurgeOne(p) \/ PurgeMeta(p)
      PROVE  StoredInv'
  BY <1>8, <1>b DEF Delete, DeleteTrash, RemoveReturned, RestoreEnds, PurgeOne, PurgeMeta, Remove
<1>9. ASSUME NEW p \in Procs, CleanUpFails(p) \/ CleanUpEnds(p) \/ PurgeEnds(p) PROVE StoredInv'
  BY <1>9, <1>b DEF CleanUpFails, CleanUpEnds, PurgeEnds
<1>10. CASE UNCHANGED vars
  BY <1>10, <1>b DEF vars
<1>11. QED
  BY <1>1, <1>2, <1>3, <1>4, <1>5, <1>6, <1>7, <1>8, <1>9, <1>10 DEF Next, GoesOn

-----------------------------------------------------------------------------
(* What a write and a removal do to the object under another key.          *)

FoundNext(x) == \E y \in objects' : SameKey(y, x)

LEMMA PutFinds ==
    ASSUME NEW o \in Object, NEW x, Put(o), Found(x) \/ SameKey(o, x) PROVE FoundNext(x)
<1> DEFINE new == [o EXCEPT !.time = now + 1]
<1>1. objects' = {y \in objects : ~SameKey(y, o)} \cup {new} /\ SameKey(new, o)
  BY DEF Put, SameKey, Object
<1>2. \A y : SameKey(y, o) /\ SameKey(y, x) => SameKey(new, x)
  BY <1>1 DEF SameKey
<1>3. SameKey(o, x) => SameKey(new, x)
  BY <1>1 DEF SameKey
<1>4. QED
  BY <1>1, <1>2, <1>3 DEF Found, FoundNext

LEMMA PutSpares ==
    ASSUME NEW o \in Object, NEW x, Put(o), ~Found(x), ~SameKey(o, x) PROVE ~FoundNext(x)
<1> DEFINE new == [o EXCEPT !.time = now + 1]
<1>1. objects' = {y \in objects : ~SameKey(y, o)} \cup {new} /\ SameKey(new, o)
  BY DEF Put, SameKey, Object
<1>2. ~SameKey(new, x)
  BY <1>1 DEF SameKey
<1>3. QED
  BY <1>1, <1>2 DEF Found, FoundNext

LEMMA RemoveFinds ==
    ASSUME NEW o, NEW x, Remove(o), Found(x), ~SameKey(x, o) PROVE FoundNext(x)
BY DEF Remove, Found, FoundNext, SameKey

LEMMA RemoveEnds == ASSUME NEW o, NEW x, Remove(o), ~Found(x) \/ SameKey(x, o) PROVE ~FoundNext(x)
BY DEF Remove, Found, FoundNext, SameKey

-----------------------------------------------------------------------------
(* A deletion under way.                                                   *)

LEMMA CleaningKept ==
    ASSUME NEW q \in Procs, Numbers, Types, CleaningInv(q), pc'[q] = pc[q], plan'[q] = plan[q],
           item'[q] = item[q], stamp'[q] = stamp[q], made <= made', now <= now',
           made' \in Int, now' \in Int,
           pc[q] \in Deleting => cutoff' <= stamp[q],
           pc[q] \in Deleting => FoundNext(Trash(item[q].of, stamp[q], TRUE)),
           pc[q] = "described" => FoundNext(Meta(item[q].of, stamp[q]))
    PROVE  CleaningInv(q)'
<1>1. \A o : Original(o) /\ o.of \in Int => Original(o)'
  BY DEF Original, Numbers
<1>2. \A o \in plan[q] : o.of \in Int
  BY DEF Types, TypeOK, Object, Backups
<1>3. pc[q] \in Deleting => item[q].of \in Int /\ stamp[q] \in Int
  BY DEF Types, TypeOK, Object, Backups, Deleting, Working, Times
<1>4. pc'[q] \in Deleting \cup {"cleaning"} => \A o \in plan'[q] : Original(o)'
  BY <1>1, <1>2 DEF CleaningInv
<1>5. pc'[q] \in Deleting => cutoff' <= stamp'[q] /\ stamp'[q] <= now'
  <2>1. pc[q] \in Deleting => stamp[q] <= now
    BY DEF CleaningInv
  <2>2. QED
    BY <1>3, <2>1 DEF Numbers
<1>a. pc'[q] \in Deleting => Original(item[q])'
  <2>1. pc[q] \in Deleting => Original(item[q])
    BY DEF CleaningInv
  <2>2. QED
    BY <1>3, <2>1 DEF Original, Numbers
<1>6. pc'[q] \in Deleting => Found(Trash(item[q].of, stamp[q], TRUE))'
  BY DEF Found, FoundNext
<1>7. pc'[q] = "described" => Found(Meta(item[q].of, stamp[q]))'
  BY DEF Found, FoundNext
<1>8. QED
  BY <1>a, <1>4, <1>5, <1>6, <1>7 DEF CleaningInv

LEMMA CleaningNext ==
    ~Local /\ Types /\ BucketInv /\ [Next]_vars => \A q \in Procs : CleaningInv(q)'
<1> SUFFICES ASSUME ~Local, Types, BucketInv, [Next]_vars, NEW q \in Procs PROVE CleaningInv(q)'
    OBVIOUS
<1>a. Numbers /\ StoredInv /\ CleaningInv(q) /\ made' \in Int /\ now' \in Int
      /\ pc \in [Procs -> PCs] /\ plan \in [Procs -> SUBSET Object]
      /\ item \in [Procs -> Object \cup {Nothing}] /\ stamp \in [Procs -> Times]
  BY TypesNumbers, TypesNext DEF BucketInv, Types, TypeOK, Times
<1> DEFINE Copied == pc[q] \in Deleting => FoundNext(Trash(item[q].of, stamp[q], TRUE))
           Described == pc[q] = "described" => FoundNext(Meta(item[q].of, stamp[q]))
           Apart == pc'[q] = pc[q] /\ plan'[q] = plan[q] /\ item'[q] = item[q] /\ stamp'[q] = stamp[q]
           Later == made <= made' /\ now <= now' /\ (pc[q] \in Deleting => cutoff' <= stamp[q])
<1>b. Copied /\ Described /\ Apart /\ Later => CleaningInv(q)'
  BY <1>a, CleaningKept
<1>i. pc[q] \in Deleting => cutoff <= stamp[q] /\ stamp[q] <= now
  BY <1>a DEF CleaningInv
<1>c. UNCHANGED <<made, now, cutoff>> => Later
  BY <1>a, <1>i DEF Numbers
<1>d. UNCHANGED objects => Copied /\ Described
  BY <1>a DEF CleaningInv, Found, FoundNext
<1>e. ASSUME NEW o \in Object, Put(o), UNCHANGED <<made, cutoff>> PROVE Copied /\ Described /\ Later
  <2>1. Later
    BY <1>a, <1>e, <1>i DEF Numbers, Put
  <2>2. QED
    BY <1>a, <1>e, <2>1, PutFinds DEF CleaningInv
<1>f. ASSUME NEW o, Remove(o), o.kind = "backup" PROVE Copied /\ Described
  <2>1. \A b, s : ~SameKey(Trash(b, s, TRUE), o) /\ ~SameKey(Meta(b, s), o)
    BY <1>f DEF SameKey, Trash, Meta
  <2>2. QED
    BY <1>a, <1>f, <2>1, RemoveFinds DEF CleaningInv
<1>g. ASSUME NEW o, Remove(o), o.stamp < cutoff, o.stamp \in Int PROVE Copied /\ Described
  <2>1. pc[q] \in Deleting => o.stamp # stamp[q]
    BY <1>a, <1>g DEF CleaningInv, Numbers, Times
  <2>2. \A b, s : o.stamp # s => ~SameKey(Trash(b, s, TRUE), o) /\ ~SameKey(Meta(b, s), o)
    BY DEF SameKey, Trash, Meta
  <2>3. QED
    BY <1>a, <1>g, <2>1, <2>2, RemoveFinds DEF CleaningInv, Deleting
<1>h. pc'[q] \notin Deleting \cup {"cleaning"} => CleaningInv(q)'
  BY DEF CleaningInv, Deleting
<1>1. CASE MakeBackup
  <2>1. made + 1 \in Backups
    BY <1>1 DEF MakeBackup, Backups, Types, TypeOK
  <2>2. PICK o \in Object : Put(o)
    BY <1>1, <2>1, BackupName DEF MakeBackup
  <2>3. Copied /\ Described
    BY <1>a, <2>2, PutFinds DEF CleaningInv
  <2>4. Later /\ Apart
    BY <1>1, <1>a, <1>i DEF MakeBackup, Put, Numbers
  <2>5. QED
    BY <2>3, <2>4, <1>b
<1>2. CASE TimePasses
  <2>1. Later /\ Apart
    BY <1>2, <1>a DEF TimePasses, Numbers, CleaningInv, Deleting
  <2>2. QED
    BY <1>2, <2>1, <1>b, <1>d DEF TimePasses
<1>3. ASSUME NEW p \in Procs,
             RestoreStarts(p) \/ Purge(p) \/ Stop(p) \/ CleanUpEnds(p) \/ PurgeEnds(p)
      PROVE  CleaningInv(q)'
  <2>1. CASE p = q
    BY <1>3, <1>a, <1>h, <2>1
       DEF RestoreStarts, Purge, Stop, CleanUpEnds, PurgeEnds, At, Release, Deleting
  <2>2. CASE p # q
    <3>1. Apart
      BY <1>3, <1>a, <2>2
         DEF RestoreStarts, Purge, Stop, CleanUpEnds, PurgeEnds, At, Release
    <3>2. QED
      BY <1>3, <1>b, <1>c, <1>d, <3>1 DEF RestoreStarts, Purge, Stop, CleanUpEnds, PurgeEnds
  <2>3. QED
    BY <2>1, <2>2
<1>4. ASSUME NEW p \in Procs, CleanUp(p) PROVE CleaningInv(q)'
  <2>1. CASE p = q
    <3>1. pc'[q] = "cleaning" /\ plan'[q] \subseteq {o \in objects : o.kind = "backup"}
      BY <1>4, <1>a, <2>1 DEF CleanUp, At, Listed
    <3>2. QED
      BY <1>4, <1>a, <3>1 DEF CleaningInv, Deleting, Original, StoredInv, CleanUp
  <2>2. CASE p # q
    <3>1. Apart
      BY <1>4, <1>a, <2>2 DEF CleanUp, At
    <3>2. QED
      BY <1>4, <1>b, <1>c, <1>d, <3>1 DEF CleanUp
  <2>3. QED
    BY <2>1, <2>2
<1>5. ASSUME NEW p \in Procs, Copy(p) PROVE CleaningInv(q)'
  <2>1. PICK o \in plan[p] :
           /\ Found(o)
           /\ item' = [item EXCEPT ![p] = [o EXCEPT !.whole = IsWhole(o)]]
           /\ Put(Trash(o.of, now + 1, IsWhole(o) /\ ~Local))
    BY <1>5 DEF Copy
  <2>2. o \in Object /\ Original(o) /\ pc[p] = "cleaning" /\ now' = now + 1 /\ now' \in Times
    <3>1. pc[p] = "cleaning"
      BY <1>5 DEF Copy, At
    <3>2. now' = now + 1 /\ now' \in Times
      BY <1>a, <2>1 DEF Put, Times, Types, TypeOK
    <3>3. o \in Object /\ Original(o)
      BY <1>a, <2>1, <3>1 DEF BucketInv, CleaningInv
    <3>4. QED
      BY <3>1, <3>2, <3>3
  <2>3. Trash(o.of, now + 1, IsWhole(o) /\ ~Local) \in Object
    BY <2>2, Names DEF Object, IsWhole
  <2>4. CASE p = q
    <3>1. /\ pc'[q] = "copied" /\ stamp'[q] = now + 1 /\ plan'[q] = plan[q]
          /\ UNCHANGED <<made, cutoff>>
      BY <1>5, <1>a, <2>4 DEF Copy, At
    <3>2. item'[q].kind = "backup" /\ item'[q].stamp = 0 /\ item'[q].of = o.of /\ o.of <= made
      BY <1>a, <2>1, <2>2, <2>4 DEF Object, Original
    <3>3. FoundNext(Trash(o.of, now + 1, TRUE))
      <4>1. SameKey(Trash(o.of, now + 1, IsWhole(o) /\ ~Local), Trash(o.of, now + 1, TRUE))
        BY DEF SameKey, Trash
      <4>2. QED
        BY <2>1, <2>3, <4>1, PutFinds
    <3>4. Found(Trash(item[q].of, stamp[q], TRUE))'
      BY <3>1, <3>2, <3>3 DEF Found, FoundNext
    <3>5. \A x \in plan[q] : Original(x)
      BY <2>2, <2>4 DEF BucketInv, CleaningInv
    <3>6. cutoff' <= stamp'[q] /\ stamp'[q] <= now'
      BY <1>a, <2>2, <3>1 DEF StoredInv, Numbers
    <3>7. (\A x \in plan[q] : Original(x))' /\ Original(item[q])'
      BY <3>1, <3>2, <3>5 DEF Original
    <3>8. QED
      BY <3>1, <3>4, <3>6, <3>7 DEF CleaningInv, Deleting
  <2>5. CASE p # q
    <3>1. Apart
      BY <1>5, <1>a, <2>1, <2>5 DEF Copy, At
    <3>2. QED
      BY <1>5, <1>b, <1>e, <2>1, <2>3, <3>1 DEF Copy
  <2>6. QED
    BY <2>4, <2>5
<1>6. ASSUME NEW p \in Procs, Describe(p) PROVE CleaningInv(q)'
  <2>1. /\ Put(Meta(item[p].of, stamp[p])) /\ pc[p] = "copied"
        /\ UNCHANGED <<made, cutoff, plan, item, stamp>>
    BY <1>6 DEF Describe, At
  <2>2. Meta(item[p].of, stamp[p]) \in Object
    BY <1>a, <2>1, Names DEF Types, Working, Object
  <2>3. Copied /\ Described /\ Later
    BY <1>e, <2>1, <2>2
  <2>4. CASE p = q
    <3>1. FoundNext(Meta(item[q].of, stamp[q])) /\ FoundNext(Trash(item[q].of, stamp[q], TRUE))
      <4>1. SameKey(Meta(item[p].of, stamp[p]), Meta(item[q].of, stamp[q]))
        BY <2>4 DEF SameKey
      <4>2. QED
        BY <2>1, <2>2, <2>3, <2>4, <4>1, PutFinds DEF Deleting
    <3>2. pc'[q] = "described"
      BY <1>6, <1>a, <2>4 DEF Describe, At
    <3>3. Found(Meta(item[q].of, stamp[q]))' /\ Found(Trash(item[q].of, stamp[q], TRUE))'
      BY <2>1, <3>1 DEF Found, FoundNext
    <3>4. /\ (\A o \in plan[q] : Original(o))' /\ Original(item[q])'
          /\ cutoff' <= stamp'[q] /\ stamp'[q] <= now'
      BY <1>a, <2>1, <2>3, <2>4 DEF CleaningInv, Deleting, Original, Put, Numbers, Times
    <3>5. QED
      BY <3>2, <3>3, <3>4 DEF CleaningInv
  <2>5. CASE p # q
    <3>1. Apart
      BY <1>6, <1>a, <2>5 DEF Describe, At
    <3>2. QED
      BY <1>b, <2>3, <3>1
  <2>6. QED
    BY <2>4, <2>5
<1>7. ASSUME NEW p \in Procs, Delete(p) PROVE CleaningInv(q)'
  <2>1. /\ Remove(item[p]) /\ item[p].kind = "backup" /\ pc[p] = "described"
        /\ UNCHANGED <<made, now, cutoff>>
    BY <1>7 DEF Delete, At, BucketInv, CleaningInv, Deleting, Original
  <2>2. CASE p = q
    <3>1. pc'[q] = "cleaning" /\ plan'[q] \subseteq plan[q]
      BY <1>7, <1>a, <2>2 DEF Delete, At, Handled
    <3>2. (\A o \in plan[q] : Original(o))'
      BY <1>a, <2>1, <2>2, <3>1 DEF CleaningInv, Deleting, Original
    <3>3. QED
      BY <3>1, <3>2 DEF CleaningInv, Deleting
  <2>3. CASE p # q
    <3>1. Apart
      BY <1>7, <1>a, <2>3 DEF Delete, At, Handled, Release
    <3>2. QED
      BY <1>b, <1>c, <1>f, <2>1, <3>1
  <2>4. QED
    BY <2>2, <2>3
<1>8. ASSUME NEW p \in Procs, CleanUpFails(p) PROVE CleaningInv(q)'
  <2>1. UNCHANGED stored /\ pc[p] \in {"cleaning", "copying", "copied", "described"}
    BY <1>8 DEF CleanUpFails, At
  <2>2. CASE p = q
    <3>1. pc'[q] = "cleaning" /\ plan'[q] \subseteq plan[q]
      BY <1>8, <1>a, <2>2 DEF CleanUpFails, At, Handled
    <3>2. pc[q] # "copying"
      BY DEF BucketInv
    <3>3. (\A o \in plan[q] : Original(o))'
      BY <1>a, <2>1, <2>2, <3>1, <3>2 DEF CleaningInv, Deleting, Original
    <3>4. QED
      BY <3>1, <3>3 DEF CleaningInv, Deleting
  <2>3. CASE p # q
    <3>1. Apart
      BY <1>8, <1>a, <2>3 DEF CleanUpFails, At, Handled, Release
    <3>2. QED
      BY <1>b, <1>c, <1>d, <2>1, <3>1
  <2>4. QED
    BY <2>2, <2>3
<1>9. ASSUME NEW p \in Procs, DeleteTrash(p) \/ CopyEnds(p) \/ ReturnEnds(p) PROVE CleaningInv(q)'
  BY <1>9 DEF DeleteTrash, CopyEnds, ReturnEnds, At, BucketInv, CleaningInv, Original
<1>10. ASSUME NEW p \in Procs, Return(p) \/ RemoveReturned(p) \/ RestoreEnds(p)
       PROVE  CleaningInv(q)'
  <2>1. pc[p] \in Restoring
    BY <1>10 DEF Return, RemoveReturned, RestoreEnds, At, Restoring
  <2>2. p # q => pc[q] = "idle"
    BY <2>1 DEF BucketInv, RestoringInv
  <2>3. pc'[q] \in {"idle", "removed", "returned"}
    BY <1>10, <1>a, <2>2 DEF Return, RemoveReturned, RestoreEnds, At
  <2>4. QED
    BY <1>h, <2>3 DEF Deleting
<1>11. ASSUME NEW p \in Procs, PurgeOne(p) PROVE CleaningInv(q)'
  <2>1. PICK o \in plan[p] : Remove(o)
    BY <1>11 DEF PurgeOne
  <2>2. o.stamp < cutoff /\ o.stamp \in Int
    BY <1>11, <1>a DEF PurgeOne, At, BucketInv, PurgingInv, Object, Times
  <2>3. CASE p = q
    BY <1>11, <1>a, <1>h, <2>3 DEF PurgeOne, At, Deleting
  <2>4. CASE p # q
    <3>1. Apart
      BY <1>11, <1>a, <2>4 DEF PurgeOne, At
    <3>2. QED
      BY <1>11, <1>b, <1>c, <1>g, <2>1, <2>2, <3>1 DEF PurgeOne
  <2>5. QED
    BY <2>3, <2>4
<1>12. ASSUME NEW p \in Procs, PurgeMeta(p) PROVE CleaningInv(q)'
  <2> DEFINE m == Meta(item[p].of, item[p].stamp)
  <2>1. m.stamp < cutoff /\ m.stamp \in Int
    BY <1>12, <1>a DEF PurgeMeta, At, BucketInv, PurgingInv, Meta, Types, Working, Object, Times
  <2>2. CASE p = q
    BY <1>12, <1>a, <1>h, <2>2 DEF PurgeMeta, At, Deleting
  <2>3. CASE p # q
    <3>1. Apart
      BY <1>12, <1>a, <2>3 DEF PurgeMeta, At, Release
    <3>2. Copied /\ Described
      BY <1>12, <1>d, <1>g, <2>1 DEF PurgeMeta
    <3>3. QED
      BY <1>12, <1>b, <1>c, <3>1, <3>2 DEF PurgeMeta
  <2>4. QED
    BY <2>2, <2>3
<1>13. CASE UNCHANGED vars
  BY <1>13, <1>b, <1>c, <1>d DEF vars
<1>14. QED
  BY <1>1, <1>2, <1>3, <1>4, <1>5, <1>6, <1>7, <1>8, <1>9, <1>10, <1>11, <1>12, <1>13
     DEF Next, GoesOn

-----------------------------------------------------------------------------
(* A purge under way.                                                      *)

LEMMA PurgingNext ==
    ~Local /\ Types /\ BucketInv /\ [Next]_vars => \A q \in Procs : PurgingInv(q)'
<1> SUFFICES ASSUME ~Local, Types, BucketInv, [Next]_vars, NEW q \in Procs PROVE PurgingInv(q)'
    OBVIOUS
<1>a. Numbers /\ StoredInv /\ PurgingInv(q)
      /\ pc \in [Procs -> PCs] /\ plan \in [Procs -> SUBSET Object]
      /\ item \in [Procs -> Object \cup {Nothing}] /\ stamp \in [Procs -> Times]
  BY TypesNumbers DEF BucketInv, Types, TypeOK
<1> DEFINE Gone == pc[q] = "purged" => ~FoundNext(item[q])
           Apart == pc'[q] = pc[q] /\ plan'[q] = plan[q] /\ item'[q] = item[q]
           Later == cutoff' \in Int /\ cutoff <= cutoff'
<1>b. ASSUME Gone, Apart, Later PROVE PurgingInv(q)'
  <2>1. \A o \in plan[q] : o.stamp \in Int
    BY <1>a DEF Object, Times
  <2>2. pc[q] = "purged" => item[q].stamp \in Int
    BY DEF Types, Working, Object, Times
  <2>3. (pc[q] \in {"purging", "purged"} => \A o \in plan[q] : o.kind = "trash" /\ o.stamp < cutoff)'
    BY <1>a, <1>b, <2>1 DEF PurgingInv, Numbers
  <2>4. pc'[q] = "purged" => item'[q].kind = "trash" /\ item'[q].stamp < cutoff'
    BY <1>a, <1>b, <2>2 DEF PurgingInv, Numbers
  <2>5. pc'[q] = "purged" => ~Found(item[q])'
    BY <1>b DEF Found, FoundNext
  <2>6. QED
    BY <2>3, <2>4, <2>5 DEF PurgingInv
<1>c. UNCHANGED cutoff => Later
  BY <1>a DEF Numbers
<1>d. UNCHANGED objects => Gone
  BY <1>a DEF PurgingInv, Found, FoundNext
<1>e. ASSUME NEW o \in Object, Put(o), o.kind = "trash" => o.stamp = now + 1 PROVE Gone
  <2>1. pc[q] = "purged" => item[q].kind = "trash" /\ item[q].stamp \in Int /\ item[q].stamp < cutoff
    BY <1>a DEF PurgingInv, Types, Working, Object, Times
  <2>2. pc[q] = "purged" => ~SameKey(o, item[q])
    BY <1>a, <1>e, <2>1 DEF SameKey, StoredInv, Numbers
  <2>3. QED
    BY <1>a, <1>e, <2>2, PutSpares DEF PurgingInv
<1>f. ASSUME NEW o, Remove(o) PROVE Gone
  BY <1>a, <1>f, RemoveEnds DEF PurgingInv
<1>g. pc'[q] \notin {"purging", "purged"} => PurgingInv(q)'
  BY DEF PurgingInv
<1>1. CASE MakeBackup
  <2>1. made + 1 \in Backups
    BY <1>1 DEF MakeBackup, Backups, Types, TypeOK
  <2>2. PICK o \in Object : Put(o) /\ o.kind = "backup"
    BY <1>1, <2>1, BackupName DEF MakeBackup, Backup
  <2>3. QED
    BY <1>1, <1>b, <1>c, <1>e, <2>2 DEF MakeBackup
<1>2. CASE TimePasses
  <2>1. Later
    BY <1>2, <1>a DEF TimePasses, Numbers
  <2>2. QED
    BY <1>2, <1>b, <1>d, <2>1 DEF TimePasses
<1>3. ASSUME NEW p \in Procs,
             CleanUp(p) \/ RestoreStarts(p) \/ Stop(p) \/ CleanUpEnds(p) \/ PurgeEnds(p)
             \/ CleanUpFails(p)
      PROVE  PurgingInv(q)'
  <2>1. UNCHANGED stored
    BY <1>3 DEF CleanUp, RestoreStarts, Stop, CleanUpEnds, PurgeEnds, CleanUpFails
  <2>2. CASE p = q
    BY <1>3, <1>a, <1>g, <2>2
       DEF CleanUp, RestoreStarts, Stop, CleanUpEnds, PurgeEnds, CleanUpFails, At
  <2>3. CASE p # q
    <3>1. Apart
      BY <1>3, <1>a, <2>3
         DEF CleanUp, RestoreStarts, Stop, CleanUpEnds, PurgeEnds, CleanUpFails, At, Release, Handled
    <3>2. QED
      BY <1>b, <1>c, <1>d, <2>1, <3>1
  <2>4. QED
    BY <2>2, <2>3
<1>4. ASSUME NEW p \in Procs, Purge(p) PROVE PurgingInv(q)'
  <2>1. CASE p = q
    <3>1. /\ pc'[q] = "purging" /\ UNCHANGED cutoff
          /\ \A o \in plan'[q] : o \in objects /\ o.kind = "trash" /\ o.time < cutoff
      BY <1>4, <1>a, <2>1 DEF Purge, At
    <3>2. QED
      BY <1>a, <3>1 DEF PurgingInv, StoredInv
  <2>2. CASE p # q
    <3>1. Apart
      BY <1>4, <1>a, <2>2 DEF Purge, At
    <3>2. QED
      BY <1>4, <1>b, <1>c, <1>d, <3>1 DEF Purge
  <2>3. QED
    BY <2>1, <2>2
<1>5. ASSUME NEW p \in Procs, Copy(p) PROVE PurgingInv(q)'
  <2>1. PICK o \in plan[p] : Put(Trash(o.of, now + 1, IsWhole(o) /\ ~Local))
    BY <1>5 DEF Copy
  <2>2. Trash(o.of, now + 1, IsWhole(o) /\ ~Local) \in Object
    <3>1. now + 1 \in Times /\ o \in Object
      BY <1>a, <2>1 DEF Put, Times, Types, TypeOK
    <3>2. QED
      BY <3>1, Names DEF Object, IsWhole
  <2>3. PICK t \in Object : Put(t) /\ t.stamp = now + 1
    BY <2>1, <2>2 DEF Trash
  <2>4. CASE p = q
    BY <1>5, <1>a, <1>g, <2>4 DEF Copy, At
  <2>5. CASE p # q
    <3>1. Apart
      BY <1>5, <1>a, <2>5 DEF Copy, At
    <3>2. QED
      BY <1>5, <1>b, <1>c, <1>e, <2>3, <3>1 DEF Copy
  <2>6. QED
    BY <2>4, <2>5
<1>6. ASSUME NEW p \in Procs, Describe(p) PROVE PurgingInv(q)'
  <2>1. Put(Meta(item[p].of, stamp[p])) /\ pc[p] = "copied"
    BY <1>6 DEF Describe, At
  <2>2. Meta(item[p].of, stamp[p]) \in Object
    BY <1>a, <2>1, Names DEF Types, Working, Object
  <2>3. PICK m \in Object : Put(m) /\ m.kind = "meta"
    BY <2>1, <2>2 DEF Meta
  <2>4. CASE p = q
    BY <1>6, <1>a, <1>g, <2>4 DEF Describe, At
  <2>5. CASE p # q
    <3>1. Apart
      BY <1>6, <1>a, <2>5 DEF Describe, At
    <3>2. QED
      BY <1>6, <1>b, <1>c, <1>e, <2>3, <3>1 DEF Describe
  <2>6. QED
    BY <2>4, <2>5
<1>7. ASSUME NEW p \in Procs, Delete(p) PROVE PurgingInv(q)'
  <2>1. CASE p = q
    BY <1>7, <1>a, <1>g, <2>1 DEF Delete, At
  <2>2. CASE p # q
    <3>1. Apart
      BY <1>7, <1>a, <2>2 DEF Delete, At, Handled, Release
    <3>2. QED
      BY <1>7, <1>b, <1>c, <1>f, <3>1 DEF Delete
  <2>3. QED
    BY <2>1, <2>2
<1>8. ASSUME NEW p \in Procs, DeleteTrash(p) \/ CopyEnds(p) \/ ReturnEnds(p) PROVE PurgingInv(q)'
  BY <1>8 DEF DeleteTrash, CopyEnds, ReturnEnds, At, BucketInv, CleaningInv, Original
<1>9. ASSUME NEW p \in Procs, Return(p) \/ RemoveReturned(p) \/ RestoreEnds(p)
      PROVE  PurgingInv(q)'
  <2>1. pc[p] \in Restoring
    BY <1>9 DEF Return, RemoveReturned, RestoreEnds, At, Restoring
  <2>2. p # q => pc[q] = "idle"
    BY <2>1 DEF BucketInv, RestoringInv
  <2>3. pc'[q] \in {"idle", "removed", "returned"}
    BY <1>9, <1>a, <2>2 DEF Return, RemoveReturned, RestoreEnds, At
  <2>4. QED
    BY <1>g, <2>3
<1>10. ASSUME NEW p \in Procs, PurgeOne(p) PROVE PurgingInv(q)'
  <2>1. PICK o \in plan[p] : /\ Remove(o) /\ item' = [item EXCEPT ![p] = o]
                             /\ plan' = [plan EXCEPT ![p] = @ \ {o}]
    BY <1>10 DEF PurgeOne
  <2>2. CASE p = q
    <3>1. /\ pc'[q] = "purged" /\ UNCHANGED cutoff /\ item'[q] = o /\ plan'[q] = plan[q] \ {o}
          /\ pc[q] = "purging"
      BY <1>10, <1>a, <2>1, <2>2 DEF PurgeOne, At
    <3>2. SameKey(o, o)
      BY DEF SameKey
    <3>3. ~FoundNext(o)
      BY <2>1, <3>2, RemoveEnds
    <3>4. ~Found(item[q])'
      BY <3>1, <3>3 DEF Found, FoundNext
    <3>5. QED
      BY <1>a, <2>1, <2>2, <3>1, <3>4 DEF PurgingInv
  <2>3. CASE p # q
    <3>1. Apart
      BY <1>10, <1>a, <2>3 DEF PurgeOne, At
    <3>2. QED
      BY <1>10, <1>b, <1>c, <1>f, <2>1, <3>1 DEF PurgeOne
  <2>4. QED
    BY <2>2, <2>3
<1>11. ASSUME NEW p \in Procs, PurgeMeta(p) PROVE PurgingInv(q)'
  <2>1. CASE p = q
    BY <1>11, <1>a, <2>1 DEF PurgeMeta, At, PurgingInv
  <2>2. CASE p # q
    <3>1. Apart
      BY <1>11, <1>a, <2>2 DEF PurgeMeta, At, Release
    <3>2. Gone
      BY <1>11, <1>d, <1>f DEF PurgeMeta
    <3>3. QED
      BY <1>11, <1>b, <1>c, <3>1, <3>2 DEF PurgeMeta
  <2>3. QED
    BY <2>1, <2>2
<1>12. CASE UNCHANGED vars
  BY <1>12, <1>b, <1>c, <1>d DEF vars
<1>13. QED
  BY <1>1, <1>2, <1>3, <1>4, <1>5, <1>6, <1>7, <1>8, <1>9, <1>10, <1>11, <1>12
     DEF Next, GoesOn

-----------------------------------------------------------------------------
(* A restore under way.                                                    *)

LEMMA RestoringNext ==
    ~Local /\ Types /\ BucketInv /\ [Next]_vars => \A q \in Procs : RestoringInv(q)'
<1> SUFFICES ASSUME ~Local, Types, BucketInv, [Next]_vars, NEW q \in Procs PROVE RestoringInv(q)'
    OBVIOUS
<1>a. Numbers /\ StoredInv /\ RestoringInv(q)
      /\ pc \in [Procs -> PCs] /\ plan \in [Procs -> SUBSET Object]
      /\ item \in [Procs -> Object \cup {Nothing}] /\ stamp \in [Procs -> Times]
  BY TypesNumbers DEF BucketInv, Types, TypeOK
<1>b. pc'[q] \notin Restoring => RestoringInv(q)'
  BY DEF RestoringInv, Restoring
<1>1. CASE MakeBackup
  <2>1. made + 1 \in Backups
    BY <1>1 DEF MakeBackup, Backups, Types, TypeOK
  <2>2. PICK o \in Object : Put(o) /\ o.kind = "backup"
    BY <1>1, <2>1, BackupName DEF MakeBackup, Backup
  <2>3. pc[q] \in Restoring => ~SameKey(o, item[q]) /\ item[q].stamp \in Int
    BY <1>a, <2>2 DEF RestoringInv, SameKey, Types, Working, Restoring, Object, Times
  <2>4. pc[q] = "returned" => FoundNext(Backup(item[q].of, TRUE))
    BY <1>a, <2>2, PutFinds DEF RestoringInv
  <2>5. pc[q] = "removed" => ~FoundNext(item[q])
    BY <1>a, <2>2, <2>3, PutSpares DEF RestoringInv, Restoring
  <2>6. UNCHANGED process /\ now' = now + 1
    BY <1>1 DEF MakeBackup, Put
  <2>7. (pc[q] = "returned" => Found(Backup(item[q].of, TRUE)))'
    BY <2>4, <2>6 DEF Found, FoundNext
  <2>8. (pc[q] = "removed" => ~Found(item[q]))'
    BY <2>5, <2>6 DEF Found, FoundNext
  <2>9. pc[q] \in Restoring => item[q].stamp <= now + 1
    BY <1>a, <2>3 DEF RestoringInv, Numbers
  <2>10. QED
    BY <1>a, <2>6, <2>7, <2>8, <2>9 DEF RestoringInv
<1>2. CASE TimePasses \/ UNCHANGED vars
  BY <1>2, <1>a DEF TimePasses, vars, RestoringInv, Found
<1>3. ASSUME NEW p \in Procs, CleanUp(p) \/ Purge(p) PROVE RestoringInv(q)'
  BY <1>3, <1>a, <1>b DEF CleanUp, Purge, Unrestored, At, Restoring
<1>4. ASSUME NEW p \in Procs, RestoreStarts(p) PROVE RestoringInv(q)'
  <2>1. PICK m \in objects :
           item' = [item EXCEPT ![p] = Trash(m.of, m.stamp, IsWhole(Trash(m.of, m.stamp, TRUE)))]
    BY <1>4 DEF RestoreStarts
  <2>2. CASE p = q
    <3>1. item'[q].kind = "trash" /\ item'[q].stamp = m.stamp
      BY <1>a, <2>1, <2>2 DEF Trash
    <3>2. pc'[q] = "restoring" /\ UNCHANGED now
      BY <1>4, <1>a, <2>2 DEF RestoreStarts, At
    <3>3. \A r \in Procs \ {q} : pc'[r] = "idle"
      BY <1>4, <1>a, <2>2 DEF RestoreStarts, Undisturbed, At
    <3>4. QED
      BY <1>a, <3>1, <3>2, <3>3 DEF RestoringInv, StoredInv
  <2>3. CASE p # q
    BY <1>4, <1>a, <1>b, <2>3 DEF RestoreStarts, Undisturbed, At, Restoring
  <2>4. QED
    BY <2>2, <2>3
<1>5. ASSUME NEW p \in Procs, Return(p) PROVE RestoringInv(q)'
  <2>1. pc[p] = "restoring" /\ pc' = [pc EXCEPT ![p] = "returned"]
        /\ Found(item[p]) /\ Put(Backup(item[p].of, IsWhole(item[p]) /\ ~Local))
        /\ UNCHANGED <<made, cutoff, plan, item, stamp>>
    BY <1>5 DEF Return, At
  <2>2. CASE p = q
    <3>1. item[p].of \in Backups /\ item[p].stamp \in Int
      BY <2>1 DEF Types, Working, Object, Times
    <3>2. Backup(item[p].of, IsWhole(item[p]) /\ ~Local) \in Object
      BY <3>1, BackupName DEF IsWhole
    <3>3. SameKey(Backup(item[p].of, IsWhole(item[p]) /\ ~Local), Backup(item[p].of, TRUE))
      BY DEF SameKey, Backup
    <3>4. FoundNext(Backup(item[q].of, TRUE))
      BY <2>1, <2>2, <3>2, <3>3, PutFinds
    <3>5. Found(Backup(item[q].of, TRUE))'
      BY <2>1, <3>4 DEF Found, FoundNext
    <3>6. item[q].kind = "trash" /\ item[q].stamp <= now' /\ \A r \in Procs \ {q} : pc'[r] = "idle"
      BY <1>a, <2>1, <2>2, <3>1 DEF RestoringInv, Restoring, Put, Numbers
    <3>7. pc'[q] = "returned" /\ item'[q] = item[q]
      BY <1>a, <2>1, <2>2
    <3>8. QED
      BY <3>5, <3>6, <3>7 DEF RestoringInv
  <2>3. CASE p # q
    BY <1>a, <1>b, <2>1, <2>3 DEF RestoringInv, BucketInv, Restoring
  <2>4. QED
    BY <2>2, <2>3
<1>6. ASSUME NEW p \in Procs, RemoveReturned(p) PROVE RestoringInv(q)'
  <2>1. pc[p] = "returned" /\ pc' = [pc EXCEPT ![p] = "removed"] /\ Remove(item[p])
        /\ UNCHANGED <<made, now, cutoff, plan, item, stamp>>
    BY <1>6 DEF RemoveReturned, At
  <2>2. CASE p = q
    <3>1. SameKey(item[q], item[q])
      BY DEF SameKey
    <3>2. ~FoundNext(item[q])
      BY <2>1, <2>2, <3>1, RemoveEnds
    <3>3. ~Found(item[q])'
      BY <2>1, <3>2 DEF Found, FoundNext
    <3>4. QED
      BY <1>a, <2>1, <2>2, <3>3 DEF RestoringInv, Restoring
  <2>3. CASE p # q
    BY <1>a, <1>b, <2>1, <2>3 DEF RestoringInv, BucketInv, Restoring
  <2>4. QED
    BY <2>2, <2>3
<1>7. ASSUME NEW p \in Procs, RestoreEnds(p) PROVE RestoringInv(q)'
  BY <1>7, <1>a, <1>b DEF RestoreEnds, At, RestoringInv, BucketInv, Restoring
<1>8. ASSUME NEW p \in Procs, Stop(p) \/ CleanUpEnds(p) \/ PurgeEnds(p) \/ CleanUpFails(p)
      PROVE  RestoringInv(q)'
  <2>1. UNCHANGED stored
    BY <1>8 DEF Stop, CleanUpEnds, PurgeEnds, CleanUpFails
  <2>2. CASE p = q
    BY <1>8, <1>a, <1>b, <2>2 DEF Stop, CleanUpEnds, PurgeEnds, CleanUpFails, At, Restoring
  <2>3. CASE p # q
    <3>1. pc'[q] = pc[q] /\ item'[q] = item[q]
      BY <1>8, <1>a, <2>3 DEF Stop, CleanUpEnds, PurgeEnds, CleanUpFails, At, Release
    <3>2. pc[p] # "idle"
      BY <1>8 DEF Stop, CleanUpEnds, PurgeEnds, CleanUpFails, At
    <3>3. QED
      BY <1>a, <1>b, <2>3, <3>1, <3>2 DEF RestoringInv
  <2>4. QED
    BY <2>2, <2>3
<1>9. ASSUME NEW p \in Procs,
             Copy(p) \/ CopyEnds(p) \/ Describe(p) \/ Delete(p) \/ DeleteTrash(p)
             \/ ReturnEnds(p) \/ PurgeOne(p) \/ PurgeMeta(p)
      PROVE  RestoringInv(q)'
  <2>1. pc[p] \in {"cleaning", "copied", "described", "purging", "purged"}
    BY <1>9 DEF Copy, CopyEnds, Describe, Delete, DeleteTrash, ReturnEnds, PurgeOne, PurgeMeta,
                At, BucketInv
  <2>2. pc'[p] \notin Restoring /\ (p # q => pc'[q] = pc[q])
    BY <1>9, <1>a DEF Copy, CopyEnds, Describe, Delete, DeleteTrash, ReturnEnds, PurgeOne,
                      PurgeMeta, At, BucketInv, Restoring
  <2>3. QED
    BY <1>a, <1>b, <2>1, <2>2 DEF RestoringInv
<1>10. QED
  BY <1>1, <1>2, <1>3, <1>4, <1>5, <1>6, <1>7, <1>8, <1>9 DEF Next, GoesOn

-----------------------------------------------------------------------------
(* Nothing is lost before its time.                                        *)

LEMMA BucketInit == Init => BucketInv
BY DEF Init, BucketInv, StoredInv, CleaningInv, PurgingInv, RestoringInv, Deleting, Restoring

LEMMA BucketNext == ~Local /\ Types /\ BucketInv /\ [Next]_vars => BucketInv'
<1> SUFFICES ASSUME ~Local, Types, BucketInv, [Next]_vars PROVE BucketInv'
    OBVIOUS
<1>1. ASSUME NEW q \in Procs PROVE pc'[q] \notin {"copying", "returning"}
  <2>1. pc \in [Procs -> PCs] /\ pc[q] \notin {"copying", "returning"}
    BY DEF Types, TypeOK, BucketInv
  <2>2. ASSUME NEW p \in Procs, NEW from, NEW to, to \notin {"copying", "returning"}, At(p, from, to)
        PROVE  pc'[q] \notin {"copying", "returning"}
    BY <2>1, <2>2 DEF At
  <2>3. CASE MakeBackup \/ TimePasses \/ UNCHANGED vars
    BY <2>1, <2>3 DEF MakeBackup, TimePasses, vars
  <2>4. ASSUME NEW p \in Procs,
               CleanUp(p) \/ Copy(p) \/ CopyEnds(p) \/ Describe(p) \/ Delete(p) \/ DeleteTrash(p)
               \/ CleanUpFails(p) \/ CleanUpEnds(p)
        PROVE  pc'[q] \notin {"copying", "returning"}
    BY <2>1, <2>2, <2>4
       DEF CleanUp, Copy, CopyEnds, Describe, Delete, DeleteTrash, CleanUpFails, CleanUpEnds
  <2>5. ASSUME NEW p \in Procs,
               RestoreStarts(p) \/ Return(p) \/ ReturnEnds(p) \/ RemoveReturned(p) \/ RestoreEnds(p)
               \/ Purge(p) \/ PurgeOne(p) \/ PurgeMeta(p) \/ PurgeEnds(p) \/ Stop(p)
        PROVE  pc'[q] \notin {"copying", "returning"}
    BY <2>1, <2>2, <2>5
       DEF RestoreStarts, Return, ReturnEnds, RemoveReturned, RestoreEnds, Purge, PurgeOne,
           PurgeMeta, PurgeEnds, Stop
  <2>6. QED
    BY <2>3, <2>4, <2>5 DEF Next, GoesOn
<1>2. QED
  BY <1>1, StoredNext, CleaningNext, PurgingNext, RestoringNext DEF BucketInv

\* A write takes nothing away in a bucket, where all that is written is whole.
LEMMA PutKeepsSafe ==
    ASSUME StoredInv', NEW o \in Object, Put(o), NEW b, Safe(b) PROVE Safe(b)'
<1> DEFINE new == [o EXCEPT !.time = now + 1]
<1>1. objects' = {y \in objects : ~SameKey(y, o)} \cup {new} /\ SameKey(new, o) /\ new \in objects'
  BY DEF Put, SameKey, Object
<1>2. PICK w \in objects : /\ w.of = b
                           /\ w.kind = "backup" \/ (w.kind = "trash" /\ Found(Meta(b, w.stamp)))
  BY DEF Safe
<1>3. PICK x \in objects' : x.kind = w.kind /\ x.of = w.of /\ x.stamp = w.stamp
  BY <1>1 DEF SameKey
<1>4. Found(Meta(b, w.stamp)) => FoundNext(Meta(b, w.stamp))
  BY PutFinds
<1>5. x.whole
  BY DEF StoredInv
<1>6. x.of = b /\ x.whole
  BY <1>2, <1>3, <1>5
<1>7. CASE x.kind = "backup"
  BY <1>6, <1>7 DEF Safe
<1>8. CASE x.kind # "backup"
  <2>1. x.kind = "trash" /\ FoundNext(Meta(b, w.stamp))
    BY <1>2, <1>3, <1>4, <1>8
  <2>2. \E y \in objects' : SameKey(y, Meta(b, x.stamp))
    BY <1>3, <2>1 DEF FoundNext, SameKey, Meta
  <2>3. QED
    BY <1>6, <2>1, <2>2 DEF Safe, Found
<1>9. QED
  BY <1>7, <1>8

LEMMA KeepingKeepsSafe == ASSUME NEW b, Safe(b), UNCHANGED objects PROVE Safe(b)'
BY DEF Safe, Found

\* The one step after which a backup may be lost removes an old copy of it.
LEMMA Losing ==
    ~Local /\ Types /\ BucketInv /\ [Next]_vars =>
        \A b \in Backups : Safe(b) /\ ~Safe(b)' => Aged(b)
<1> SUFFICES ASSUME ~Local, Types, BucketInv, [Next]_vars, NEW b \in Backups, Safe(b), ~Safe(b)'
             PROVE  Aged(b)
    OBVIOUS
<1>a. /\ Types' /\ BucketInv' /\ StoredInv /\ StoredInv' /\ Numbers
  BY TypesNext, BucketNext, TypesNumbers DEF BucketInv
<1>b. PICK w \in objects : /\ w.of = b /\ w.whole
                           /\ w.kind = "backup" \/ (w.kind = "trash" /\ Found(Meta(b, w.stamp)))
  BY DEF Safe
<1>c. ~UNCHANGED objects
  BY KeepingKeepsSafe
<1>d. \A o \in Object : ~Put(o)
  BY <1>a, PutKeepsSafe
\* What is left of a backup is enough.
<1>e. ASSUME NEW x \in objects', x.of = b, x.kind = "backup" PROVE FALSE
  BY <1>a, <1>e DEF Safe, StoredInv
<1>f. ASSUME NEW x \in objects', x.of = b, x.kind = "trash", FoundNext(Meta(b, x.stamp)) PROVE FALSE
  <2>1. Found(Meta(b, x.stamp))'
    BY <1>f DEF Found, FoundNext
  <2>2. QED
    BY <1>a, <1>f, <2>1 DEF Safe, StoredInv
<1>g. ASSUME w \in objects', w.kind = "trash" => FoundNext(Meta(b, w.stamp)) PROVE FALSE
  <2>1. CASE w.kind = "backup"
    BY <1>b, <1>e, <1>g, <2>1
  <2>2. CASE w.kind = "trash"
    <3>1. FoundNext(Meta(b, w.stamp))
      BY <1>g, <2>2
    <3>2. w.of = b /\ w \in objects'
      BY <1>b, <1>g
    <3>3. QED
      BY <1>f, <2>2, <3>1, <3>2
  <2>3. QED
    BY <1>b, <2>1, <2>2
<1>1. CASE MakeBackup
  <2>1. made + 1 \in Backups
    BY <1>1 DEF MakeBackup, Backups, Types, TypeOK
  <2>2. QED
    BY <1>1, <1>d, <2>1, BackupName DEF MakeBackup
<1>2. ASSUME NEW p \in Procs, Copy(p) PROVE FALSE
  <2>1. PICK o \in plan[p] : Put(Trash(o.of, now + 1, IsWhole(o) /\ ~Local))
    BY <1>2 DEF Copy
  <2>2. now + 1 \in Times /\ o \in Object
    BY <1>a, <2>1 DEF Put, Times, Types, TypeOK
  <2>3. QED
    BY <1>d, <2>1, <2>2, Names DEF Object, IsWhole
<1>3. ASSUME NEW p \in Procs, Describe(p) PROVE FALSE
  <2>1. item[p] \in Object /\ stamp[p] \in Times
    BY <1>3 DEF Describe, At, Types, TypeOK, Working
  <2>2. QED
    BY <1>3, <1>d, <2>1, Names DEF Describe, Object
<1>4. ASSUME NEW p \in Procs, Return(p) PROVE FALSE
  <2>1. item[p] \in Object
    BY <1>4 DEF Return, At, Types, TypeOK, Working
  <2>2. QED
    BY <1>4, <1>d, <2>1, BackupName DEF Return, Object, IsWhole
<1>5. ASSUME NEW p \in Procs, Delete(p) PROVE FALSE
  <2>1. /\ Remove(item[p]) /\ item[p].kind = "backup"
        /\ Found(Trash(item[p].of, stamp[p], TRUE)) /\ Found(Meta(item[p].of, stamp[p]))
    BY <1>5 DEF Delete, At, BucketInv, CleaningInv, Deleting, Original
  <2>2. \A c, s : ~SameKey(Trash(c, s, TRUE), item[p]) /\ ~SameKey(Meta(c, s), item[p])
    BY <2>1 DEF SameKey, Trash, Meta
  <2>3. CASE w \in objects'
    <3>1. w.kind = "trash" => FoundNext(Meta(b, w.stamp))
      BY <1>b, <2>1, <2>2, RemoveFinds
    <3>2. QED
      BY <1>g, <2>3, <3>1
  <2>4. CASE w \notin objects'
    <3>a. w \in objects /\ w.of = b
      BY <1>b
    <3>1. item[p].of = b
      BY <2>1, <2>4, <3>a DEF Remove, SameKey
    <3>2. FoundNext(Trash(b, stamp[p], TRUE)) /\ FoundNext(Meta(b, stamp[p]))
      BY <2>1, <2>2, <3>1, RemoveFinds
    <3>3. PICK t \in objects' : t.of = b /\ t.kind = "trash" /\ t.stamp = stamp[p]
      BY <3>2 DEF FoundNext, SameKey, Trash
    <3>4. QED
      BY <1>f, <3>2, <3>3
  <2>5. QED
    BY <2>3, <2>4
<1>6. ASSUME NEW p \in Procs, RemoveReturned(p) PROVE FALSE
  <2>1. Remove(item[p]) /\ item[p].kind = "trash" /\ Found(Backup(item[p].of, TRUE))
    BY <1>6 DEF RemoveReturned, At, BucketInv, RestoringInv, Restoring
  <2>2. \A c, s : ~SameKey(Backup(c, TRUE), item[p]) /\ ~SameKey(Meta(c, s), item[p])
    BY <2>1 DEF SameKey, Backup, Meta
  <2>3. CASE w \in objects'
    <3>1. w.kind = "trash" => FoundNext(Meta(b, w.stamp))
      BY <1>b, <2>1, <2>2, RemoveFinds
    <3>2. QED
      BY <1>g, <2>3, <3>1
  <2>4. CASE w \notin objects'
    <3>a. w \in objects /\ w.of = b
      BY <1>b
    <3>1. item[p].of = b
      BY <2>1, <2>4, <3>a DEF Remove, SameKey
    <3>2. FoundNext(Backup(b, TRUE))
      BY <2>1, <2>2, <3>1, RemoveFinds
    <3>3. PICK t \in objects' : t.of = b /\ t.kind = "backup"
      BY <3>2 DEF FoundNext, SameKey, Backup
    <3>4. QED
      BY <1>e, <3>3
  <2>5. QED
    BY <2>3, <2>4
<1>7. ASSUME NEW p \in Procs, RestoreEnds(p) \/ PurgeMeta(p) PROVE FALSE
  <2> DEFINE m == Meta(item[p].of, item[p].stamp)
  <2>1. Remove(m) /\ item[p].kind = "trash" /\ ~Found(item[p])
    BY <1>7, <1>c DEF RestoreEnds, PurgeMeta, At, BucketInv, RestoringInv, PurgingInv, Restoring
  <2>2. w \in objects'
    BY <1>b, <2>1 DEF Remove, SameKey, Meta
  <2>3. w.kind = "trash" => ~SameKey(Meta(b, w.stamp), m)
    <3>1. w.kind = "trash" => w.of # item[p].of \/ w.stamp # item[p].stamp
      BY <2>1 DEF Found, SameKey
    <3>2. Meta(b, w.stamp).of = b /\ Meta(b, w.stamp).stamp = w.stamp
          /\ m.of = item[p].of /\ m.stamp = item[p].stamp /\ w.of = b
      BY <1>b DEF Meta
    <3>3. QED
      BY <3>1, <3>2 DEF SameKey
  <2>4. w.kind = "trash" => FoundNext(Meta(b, w.stamp))
    BY <1>b, <2>1, <2>3, RemoveFinds
  <2>5. QED
    BY <1>g, <2>2, <2>4
<1>8. ASSUME NEW p \in Procs, PurgeOne(p) PROVE Aged(b)
  <2>1. PICK o \in plan[p] : Remove(o)
    BY <1>8 DEF PurgeOne
  <2>2. o.kind = "trash" /\ o.stamp < cutoff
    BY <1>8, <2>1 DEF PurgeOne, At, BucketInv, PurgingInv
  <2>3. \A s : ~SameKey(Meta(b, s), o)
    BY <2>2 DEF SameKey, Meta
  <2>4. w.kind = "trash" => FoundNext(Meta(b, w.stamp))
    BY <1>b, <2>1, <2>3, RemoveFinds
  <2>5. w \notin objects'
    BY <1>g, <2>4
  <2>6. w.kind = "trash" /\ w.stamp = o.stamp
    BY <2>1, <2>2, <2>5 DEF Remove, SameKey
  <2>7. w \in objects /\ w.of = b /\ w.time < cutoff
    <3>1. w \in objects /\ w.of = b
      BY <1>b
    <3>2. w.time = o.stamp
      BY <1>a, <2>6, <3>1 DEF StoredInv
    <3>3. QED
      BY <2>2, <3>1, <3>2
  <2>8. QED
    BY <2>5, <2>6, <2>7 DEF Aged
<1>9. ASSUME NEW p \in Procs, DeleteTrash(p) \/ CopyEnds(p) \/ ReturnEnds(p) PROVE FALSE
  BY <1>9 DEF DeleteTrash, CopyEnds, ReturnEnds, At, BucketInv, CleaningInv, Original
<1>10. ASSUME NEW p \in Procs,
              CleanUp(p) \/ RestoreStarts(p) \/ Purge(p) \/ CleanUpFails(p) \/ CleanUpEnds(p)
              \/ PurgeEnds(p) \/ Stop(p)
       PROVE  FALSE
  BY <1>10, <1>c DEF CleanUp, RestoreStarts, Purge, CleanUpFails, CleanUpEnds, PurgeEnds, Stop
<1>11. CASE TimePasses \/ UNCHANGED vars
  BY <1>11, <1>c DEF TimePasses, vars
<1>12. QED
  BY <1>1, <1>2, <1>3, <1>4, <1>5, <1>6, <1>7, <1>8, <1>9, <1>10, <1>11 DEF Next, GoesOn

\* In a bucket a backup is lost in one way only, by the purge of an old copy, however
\* many clean-ups, purges and restores fail or are killed (safe-storage.adapter.ts:
\* 79-107, 113-166).
THEOREM DeletionIsSoft == ~Local => (Spec => SoftDeletion)
<1> SUFFICES ASSUME ~Local PROVE Spec => SoftDeletion
    OBVIOUS
<1>1. Types /\ BucketInv /\ [Next]_vars => Types' /\ BucketInv'
  BY TypesNext, BucketNext
<1>2. Types /\ BucketInv /\ [Next]_vars =>
          [\A b \in Backups : Safe(b) /\ ~Safe(b)' => Aged(b)]_vars
  BY Losing
<1>3. Init => Types /\ BucketInv
  BY TypesInit, BucketInit
<1>4. QED
  BY <1>1, <1>2, <1>3, PTL DEF Spec, SoftDeletion

-----------------------------------------------------------------------------
(* The minimum of backups stays.                                           *)

\* What process p is going to delete.
Marked(p) == (IF pc[p] \in Deleting \cup {"cleaning"} THEN plan[p] ELSE {})
             \cup (IF pc[p] \in Deleting THEN {item[p]} ELSE {})

Newer(x) == {y \in Live : y.time > x.time}

\* An object under the key of o leaves MinKept newer backups when it goes.
Sparing(o) == \A x \in objects : SameKey(x, o) => Cardinality(Newer(x)) >= MinKept

SparingNext(o) == \A x \in objects' : SameKey(x, o) => Cardinality(Newer(x)') >= MinKept

SparingInv ==
    /\ IsFiniteSet(objects)
    /\ MinBackupsStay
    /\ \A p \in Procs : \A o \in Marked(p) : Sparing(o)

LEMMA Enough ==
    ASSUME NEW T, IsFiniteSet(T), NEW S \in SUBSET T, NEW n \in Nat, Cardinality(S) >= n
    PROVE  Cardinality(T) >= n
<1>1. IsFiniteSet(S) /\ Cardinality(S) <= Cardinality(T)
  BY FS_Subset
<1>2. Cardinality(S) \in Nat /\ Cardinality(T) \in Nat
  BY <1>1, FS_CardinalityType
<1>3. QED
  BY <1>1, <1>2

LEMMA LiveFinite == ASSUME IsFiniteSet(objects) PROVE IsFiniteSet(Live) /\ Cardinality(Live) \in Nat
BY FS_Subset, FS_CardinalityType DEF Live

LEMMA PutFinite == ASSUME NEW o, IsFiniteSet(objects), Put(o) PROVE IsFiniteSet(objects')
<1>1. IsFiniteSet({x \in objects : ~SameKey(x, o)})
  BY FS_Subset
<1>2. QED
  BY <1>1, FS_AddElement DEF Put

LEMMA RemoveFinite == ASSUME NEW o, IsFiniteSet(objects), Remove(o) PROVE IsFiniteSet(objects')
BY FS_Subset DEF Remove

\* What is written or removed beside the backups.
LEMMA Beside ==
    ASSUME NEW o \in Object, Put(o) \/ Remove(o), o.kind # "backup"
    PROVE  /\ Live' = Live
           /\ \A r : r.kind = "backup" /\ Sparing(r) => SparingNext(r)
<1>1. \A x : x.kind = "backup" => (x \in objects' <=> x \in objects)
  <2>1. CASE Put(o)
    <3>1. PICK new : new.kind = o.kind /\ objects' = {x \in objects : ~SameKey(x, o)} \cup {new}
      BY <2>1 DEF Put, Object
    <3>2. QED
      BY <3>1 DEF SameKey
  <2>2. CASE Remove(o)
    BY <2>2 DEF Remove, SameKey
  <2>3. QED
    BY <2>1, <2>2
<1>2. Live' = Live
  BY <1>1 DEF Live
<1>3. ASSUME NEW r, r.kind = "backup", Sparing(r), NEW x \in objects', SameKey(x, r)
      PROVE  Cardinality(Newer(x)') >= MinKept
  <2>1. x \in objects
    BY <1>1, <1>3 DEF SameKey
  <2>2. Newer(x)' = Newer(x)
    BY <1>2 DEF Newer
  <2>3. QED
    BY <1>3, <2>1, <2>2 DEF Sparing
<1>4. QED
  BY <1>2, <1>3 DEF SparingNext

\* A backup that goes has newer ones, which are newer than what has that one before it.
LEMMA Going ==
    ASSUME Types, IsFiniteSet(objects), NEW o, Remove(o), Sparing(o)
    PROVE  /\ Live' = Live \/ Cardinality(Live') >= MinKept
           /\ \A r : Sparing(r) => SparingNext(r)
<1>a. Numbers /\ IsFiniteSet(Live')
  BY TypesNumbers, RemoveFinite, FS_Subset DEF Live
<1>b. \A x, y \in objects : SameKey(x, o) /\ SameKey(y, o) => x = y
  BY DEF Types, TypeOK, SameKey
<1>c. ASSUME NEW z \in Live, SameKey(z, o) PROVE Newer(z) \subseteq Live' /\ Cardinality(Newer(z)) >= MinKept
  BY <1>a, <1>b, <1>c DEF Newer, Live, Remove, Sparing, Numbers
<1>1. Live' = Live \/ Cardinality(Live') >= MinKept
  <2>1. CASE \E z \in Live : SameKey(z, o)
    BY <1>a, <1>c, <2>1, Enough
  <2>2. CASE ~ \E z \in Live : SameKey(z, o)
    BY <2>2 DEF Live, Remove
  <2>3. QED
    BY <2>1, <2>2
<1>2. ASSUME NEW r, Sparing(r), NEW x \in objects', SameKey(x, r)
      PROVE  Cardinality(Newer(x)') >= MinKept
  <2>1. x \in objects /\ Cardinality(Newer(x)) >= MinKept
    BY <1>2 DEF Remove, Sparing
  <2>2. Newer(x)' = {y \in Live' : y.time > x.time} /\ IsFiniteSet(Newer(x)')
    BY <1>a, FS_Subset DEF Newer
  <2>3. CASE \E z \in Newer(x) : SameKey(z, o)
    <3>1. PICK z \in Newer(x) : SameKey(z, o)
      BY <2>3
    <3>2. Newer(z) \subseteq Live' /\ Cardinality(Newer(z)) >= MinKept
      BY <1>c, <3>1 DEF Newer
    <3>3. \A y \in Newer(z) : y.time > x.time
      BY <1>a, <2>1, <3>1 DEF Newer, Live, Numbers
    <3>4. Newer(z) \subseteq Newer(x)'
      BY <2>2, <3>2, <3>3
    <3>5. QED
      BY <2>2, <3>2, <3>4, Enough
  <2>4. CASE ~ \E z \in Newer(x) : SameKey(z, o)
    <3>1. Newer(x) \subseteq Newer(x)'
      BY <2>2, <2>4 DEF Newer, Live, Remove
    <3>2. QED
      BY <2>1, <2>2, <3>1, Enough
  <2>5. QED
    BY <2>3, <2>4
<1>3. QED
  BY <1>1, <1>2 DEF SparingNext

\* A backup that comes takes at most the place of one.
LEMMA Coming ==
    ASSUME Types, IsFiniteSet(objects), NEW o \in Object, Put(o), o.kind = "backup", o.whole
    PROVE  /\ Cardinality(Live') >= Cardinality(Live)
           /\ ~Found(o) => /\ Live \subseteq Live'
                           /\ Cardinality(Live') = Cardinality(Live) + 1
<1>a. IsFiniteSet(Live) /\ Cardinality(Live) \in Nat
  BY LiveFinite
<1>b. \A x, y \in objects : SameKey(x, o) /\ SameKey(y, o) => x = y
  BY DEF Types, TypeOK, SameKey
<1>1. PICK new : /\ new.kind = "backup" /\ new.whole /\ SameKey(new, o)
                 /\ objects' = {x \in objects : ~SameKey(x, o)} \cup {new}
  BY DEF Put, Object, SameKey
<1> DEFINE Rest == {x \in Live : ~SameKey(x, o)}
<1>2. Live' = Rest \cup {new} /\ new \notin Rest
  BY <1>1 DEF Live
<1>3. IsFiniteSet(Rest) /\ Cardinality(Rest) \in Nat
  BY <1>a, FS_Subset, FS_CardinalityType
<1>4. Cardinality(Live') = Cardinality(Rest) + 1
  BY <1>2, <1>3, FS_AddElement
<1>5. CASE \E z \in Live : SameKey(z, o)
  <2>1. PICK z \in Live : SameKey(z, o)
    BY <1>5
  <2>2. Rest = Live \ {z} /\ Found(o)
    BY <1>b, <2>1 DEF Live, Found
  <2>3. Cardinality(Rest) = Cardinality(Live) - 1
    BY <1>a, <2>1, <2>2, FS_RemoveElement
  <2>4. QED
    BY <1>a, <1>3, <1>4, <2>2, <2>3
<1>6. CASE ~ \E z \in Live : SameKey(z, o)
  <2>1. Rest = Live
    BY <1>6
  <2>2. Live' = Live \cup {new}
    BY <1>2, <2>1
  <2>3. Cardinality(Live') = Cardinality(Live) + 1
    BY <1>4, <2>1
  <2>4. QED
    BY <1>a, <2>2, <2>3
<1>7. QED
  BY <1>5, <1>6

\* A step of a clean-up adds nothing to what is going to be deleted.
LEMMA MarkedNext ==
    ASSUME ~Local, Types, BucketInv, [Next]_vars, NEW q \in Procs, ~CleanUp(q),
           NEW o, o \in Marked(q)'
    PROVE  \E r \in Marked(q) : SameKey(o, r)
<1>a. /\ pc \in [Procs -> PCs] /\ plan \in [Procs -> SUBSET Object]
      /\ item \in [Procs -> Object \cup {Nothing}] /\ pc[q] # "copying"
  BY DEF Types, TypeOK, BucketInv
<1>b. SameKey(o, o)
  BY DEF SameKey
<1>c. (pc'[q] = pc[q] /\ plan'[q] = plan[q] /\ item'[q] = item[q]) => o \in Marked(q)
  BY DEF Marked
<1>d. (pc'[q] \notin Deleting \cup {"cleaning"}) => FALSE
  BY DEF Marked
<1>1. CASE MakeBackup \/ TimePasses \/ UNCHANGED vars
  BY <1>1, <1>b, <1>c DEF MakeBackup, TimePasses, vars
<1>2. ASSUME NEW p \in Procs, p # q,
             CleanUp(p) \/ RestoreStarts(p) \/ Purge(p) \/ GoesOn(p) \/ Stop(p)
      PROVE  o \in Marked(q)
  BY <1>2, <1>a, <1>c
     DEF CleanUp, RestoreStarts, Purge, Stop, GoesOn, Copy, CopyEnds, Describe, Delete, DeleteTrash,
         CleanUpFails, CleanUpEnds, Return, ReturnEnds, RemoveReturned, RestoreEnds, PurgeOne,
         PurgeMeta, PurgeEnds, At, Release, Handled
<1>3. ASSUME RestoreStarts(q) \/ Purge(q) \/ Stop(q) \/ CleanUpEnds(q) \/ Return(q)
             \/ ReturnEnds(q) \/ RemoveReturned(q) \/ RestoreEnds(q) \/ PurgeOne(q)
             \/ PurgeMeta(q) \/ PurgeEnds(q)
      PROVE  FALSE
  BY <1>3, <1>a, <1>d
     DEF RestoreStarts, Purge, Stop, CleanUpEnds, Return, ReturnEnds, RemoveReturned, RestoreEnds,
         PurgeOne, PurgeMeta, PurgeEnds, At, Deleting
<1>4. CASE Copy(q)
  <2>1. PICK x \in plan[q] : item' = [item EXCEPT ![q] = [x EXCEPT !.whole = IsWhole(x)]]
    BY <1>4 DEF Copy
  <2>2. pc[q] = "cleaning" /\ plan' = plan
    BY <1>4 DEF Copy, At
  <2>3. SameKey(item'[q], x) /\ x \in Marked(q)
    BY <1>a, <2>1, <2>2 DEF SameKey, Object, Marked
  <2>4. o \in plan[q] \/ o = item'[q]
    BY <2>2 DEF Marked
  <2>5. QED
    BY <1>b, <2>2, <2>3, <2>4 DEF Marked
<1>5. CASE Describe(q)
  BY <1>5, <1>a, <1>b DEF Describe, At, Marked, Deleting
<1>6. CASE Delete(q) \/ CleanUpFails(q)
  <2>1. pc[q] \in Deleting \cup {"cleaning"} /\ pc'[q] = "cleaning" /\ plan'[q] \subseteq plan[q]
    BY <1>6, <1>a DEF Delete, CleanUpFails, Handled, At, Deleting
  <2>2. QED
    BY <1>b, <2>1 DEF Marked, Deleting
<1>7. CASE DeleteTrash(q) \/ CopyEnds(q)
  BY <1>7 DEF DeleteTrash, CopyEnds, At, BucketInv, CleaningInv, Original
<1>8. QED
  BY <1>1, <1>2, <1>3, <1>4, <1>5, <1>6, <1>7, <1>b DEF Next, GoesOn

\* What is stored after a step leaves MinKept of them, and so does what was marked.
LEMMA SparingStep ==
    ASSUME ~Local, Types, BucketInv, [Next]_vars, SparingInv
    PROVE  /\ IsFiniteSet(objects') /\ MinBackupsStay'
           /\ \A p \in Procs : \A o \in Marked(p) : SparingNext(o)
<1>a. /\ StoredInv /\ Numbers /\ IsFiniteSet(objects) /\ MinBackupsStay /\ made \in Nat
      /\ Cardinality(Live) \in Nat /\ IsFiniteSet(Live)
  BY TypesNumbers, LiveFinite DEF BucketInv, Types, TypeOK, SparingInv
<1>b. ASSUME NEW p \in Procs, NEW o \in Marked(p) PROVE Original(o) /\ Sparing(o)
  BY <1>b DEF BucketInv, CleaningInv, Marked, SparingInv, Deleting
<1>c. ASSUME UNCHANGED <<objects, made>>
      PROVE  /\ IsFiniteSet(objects') /\ MinBackupsStay'
             /\ \A p \in Procs : \A o \in Marked(p) : SparingNext(o)
  <2>1. Live' = Live
    BY <1>c DEF Live
  <2>2. \A x : Newer(x)' = Newer(x)
    BY <2>1 DEF Newer
  <2>3. QED
    BY <1>a, <1>b, <1>c, <2>1, <2>2 DEF MinBackupsStay, Sparing, SparingNext
<1>d. ASSUME NEW o \in Object, Put(o) \/ Remove(o), o.kind # "backup", UNCHANGED made
      PROVE  /\ IsFiniteSet(objects') /\ MinBackupsStay'
             /\ \A p \in Procs : \A r \in Marked(p) : SparingNext(r)
  <2>1. Live' = Live /\ \A r : r.kind = "backup" /\ Sparing(r) => SparingNext(r)
    BY <1>d, Beside
  <2>2. IsFiniteSet(objects')
    BY <1>a, <1>d, PutFinite, RemoveFinite
  <2>3. QED
    BY <1>a, <1>b, <1>d, <2>1, <2>2 DEF MinBackupsStay, Original
<1>e. ASSUME NEW b, NEW s PROVE Trash(b, s, TRUE).kind # "backup" /\ Meta(b, s).kind # "backup"
  BY DEF Trash, Meta
<1>1. CASE MakeBackup
  <2>1. made + 1 \in Backups
    BY <1>1 DEF MakeBackup, Backups, Types, TypeOK
  <2>2. PICK b \in Object : Put(b) /\ b.kind = "backup" /\ b.whole /\ b.of = made + 1
    BY <1>1, <2>1, BackupName DEF MakeBackup, Backup
  <2>3. ~Found(b)
    BY <1>a, <2>2 DEF Found, SameKey, StoredInv, Numbers
  <2>4. Live \subseteq Live' /\ Cardinality(Live') = Cardinality(Live) + 1 /\ IsFiniteSet(objects')
    BY <1>a, <2>2, <2>3, Coming, PutFinite
  <2>5. IsFiniteSet(Live')
    BY <2>4, FS_Subset DEF Live
  <2>6. MinBackupsStay'
    BY <1>1, <1>a, <2>4 DEF MakeBackup, MinBackupsStay
  <2>7. ASSUME NEW p \in Procs, NEW o \in Marked(p), NEW x \in objects', SameKey(x, o)
        PROVE  Cardinality(Newer(x)') >= MinKept
    <3>1. PICK new : SameKey(new, b) /\ objects' = {y \in objects : ~SameKey(y, b)} \cup {new}
      BY <2>2 DEF Put, SameKey, Object
    <3>2. o.of <= made
      BY <1>b, <2>7 DEF Original
    <3>3. x # new
      BY <1>a, <2>2, <2>7, <3>1, <3>2 DEF SameKey, Numbers
    <3>4. x \in objects /\ Cardinality(Newer(x)) >= MinKept
      BY <1>b, <2>7, <3>1, <3>3 DEF Sparing
    <3>5. Newer(x)' = {y \in Live' : y.time > x.time}
      BY DEF Newer
    <3>6. Newer(x) \subseteq Newer(x)' /\ IsFiniteSet(Newer(x)')
      BY <2>4, <2>5, <3>5, FS_Subset DEF Newer
    <3>7. QED
      BY <3>4, <3>6, Enough
  <2>8. QED
    BY <2>4, <2>6, <2>7 DEF SparingNext
<1>2. ASSUME NEW p \in Procs, Return(p)
      PROVE  /\ IsFiniteSet(objects') /\ MinBackupsStay'
             /\ \A q \in Procs : \A o \in Marked(q) : SparingNext(o)
  <2>1. /\ Found(item[p]) /\ pc[p] = "restoring" /\ UNCHANGED made
        /\ Put(Backup(item[p].of, IsWhole(item[p]) /\ ~Local))
    BY <1>2 DEF Return, At
  <2>2. IsWhole(item[p]) /\ item[p] \in Object
    BY <1>a, <2>1 DEF Found, IsWhole, StoredInv, Types, Working
  <2>3. Put(Backup(item[p].of, TRUE)) /\ Backup(item[p].of, TRUE) \in Object
    BY <2>1, <2>2, BackupName DEF Object
  <2>4. PICK b \in Object : Put(b) /\ b.kind = "backup" /\ b.whole
    BY <2>3 DEF Backup
  <2>5. IsFiniteSet(objects') /\ Cardinality(Live') >= Cardinality(Live)
    BY <1>a, <2>4, Coming, PutFinite
  <2>6. Cardinality(Live') \in Nat
    BY <2>5, FS_Subset, FS_CardinalityType DEF Live
  <2>7. \A q \in Procs : Marked(q) = {}
    BY <2>1 DEF BucketInv, RestoringInv, Restoring, Marked, Deleting
  <2>8. QED
    BY <1>a, <2>1, <2>5, <2>6, <2>7 DEF MinBackupsStay
<1>3. ASSUME NEW p \in Procs, Copy(p)
      PROVE  /\ IsFiniteSet(objects') /\ MinBackupsStay'
             /\ \A q \in Procs : \A o \in Marked(q) : SparingNext(o)
  <2>1. PICK o \in plan[p] : Put(Trash(o.of, now + 1, IsWhole(o) /\ ~Local))
    BY <1>3 DEF Copy
  <2>2. now + 1 \in Times /\ o \in Object
    BY <2>1 DEF Put, Times, Types, TypeOK
  <2>3. Trash(o.of, now + 1, IsWhole(o) /\ ~Local) \in Object
    BY <2>2, Names DEF Object, IsWhole
  <2>4. PICK t \in Object : Put(t) /\ t.kind = "trash"
    BY <2>1, <2>3 DEF Trash
  <2>5. QED
    BY <1>3, <1>d, <2>4 DEF Copy
<1>4. ASSUME NEW p \in Procs, Describe(p) \/ RestoreEnds(p) \/ PurgeMeta(p)
      PROVE  /\ IsFiniteSet(objects') /\ MinBackupsStay'
             /\ \A q \in Procs : \A o \in Marked(q) : SparingNext(o)
  <2>1. item[p] \in Object /\ stamp[p] \in Times
    BY <1>4 DEF Describe, RestoreEnds, PurgeMeta, At, Types, TypeOK, Working
  <2>2. /\ Meta(item[p].of, stamp[p]) \in Object
        /\ Meta(item[p].of, item[p].stamp) \in Object
    BY <2>1, Names DEF Object
  <2>3. /\ UNCHANGED made
        /\ \/ Put(Meta(item[p].of, stamp[p]))
           \/ Remove(Meta(item[p].of, item[p].stamp))
           \/ UNCHANGED objects
    BY <1>4 DEF Describe, RestoreEnds, PurgeMeta
  <2>4. QED
    BY <1>c, <1>d, <1>e, <2>2, <2>3
<1>5. ASSUME NEW p \in Procs, Delete(p)
      PROVE  /\ IsFiniteSet(objects') /\ MinBackupsStay'
             /\ \A q \in Procs : \A o \in Marked(q) : SparingNext(o)
  <2>1. Remove(item[p]) /\ pc[p] = "described" /\ UNCHANGED made
    BY <1>5 DEF Delete, At
  <2>2. Sparing(item[p])
    BY <1>b, <2>1 DEF Marked, Deleting
  <2>3. /\ Live' = Live \/ Cardinality(Live') >= MinKept
        /\ \A r : Sparing(r) => SparingNext(r)
    BY <1>a, <2>1, <2>2, Going
  <2>4. IsFiniteSet(objects')
    BY <1>a, <2>1, RemoveFinite
  <2>5. QED
    BY <1>a, <1>b, <2>1, <2>3, <2>4 DEF MinBackupsStay
<1>6. ASSUME NEW p \in Procs, RemoveReturned(p) \/ PurgeOne(p)
      PROVE  /\ IsFiniteSet(objects') /\ MinBackupsStay'
             /\ \A q \in Procs : \A o \in Marked(q) : SparingNext(o)
  <2>1. PICK o \in Object : Remove(o) /\ o.kind = "trash"
    BY <1>6 DEF RemoveReturned, PurgeOne, At, BucketInv, RestoringInv, PurgingInv, Restoring,
                Types, TypeOK, Working
  <2>2. QED
    BY <1>6, <1>d, <2>1 DEF RemoveReturned, PurgeOne
<1>7. ASSUME NEW p \in Procs, DeleteTrash(p) \/ CopyEnds(p) \/ ReturnEnds(p) PROVE FALSE
  BY <1>7 DEF DeleteTrash, CopyEnds, ReturnEnds, At, BucketInv, CleaningInv, Original
<1>8. ASSUME NEW p \in Procs,
             CleanUp(p) \/ RestoreStarts(p) \/ Purge(p) \/ CleanUpFails(p) \/ CleanUpEnds(p)
             \/ PurgeEnds(p) \/ Stop(p)
      PROVE  UNCHANGED <<objects, made>>
  BY <1>8 DEF CleanUp, RestoreStarts, Purge, CleanUpFails, CleanUpEnds, PurgeEnds, Stop
<1>9. CASE TimePasses \/ UNCHANGED vars
  BY <1>9, <1>c DEF TimePasses, vars
<1>10. QED
  BY <1>1, <1>2, <1>3, <1>4, <1>5, <1>6, <1>7, <1>8, <1>9, <1>c DEF Next, GoesOn

LEMMA SparingInit == Init => SparingInv
BY FS_EmptySet DEF Init, SparingInv, MinBackupsStay, Live, Marked, Deleting

LEMMA SparingsNext == ~Local /\ Types /\ BucketInv /\ SparingInv /\ [Next]_vars => SparingInv'
<1> SUFFICES ASSUME ~Local, Types, BucketInv, SparingInv, [Next]_vars PROVE SparingInv'
    OBVIOUS
<1>1. /\ IsFiniteSet(objects') /\ MinBackupsStay'
      /\ \A p \in Procs : \A o \in Marked(p) : SparingNext(o)
  BY SparingStep
<1>2. ASSUME NEW q \in Procs, CleanUp(q), NEW o \in Marked(q)' PROVE Sparing(o)'
  <2>1. PICK oldest : plan' = [plan EXCEPT ![q] = {x \in Listed : ShouldDelete(x, oldest)}]
    BY <1>2 DEF CleanUp
  <2>2. pc'[q] = "cleaning" /\ UNCHANGED objects
    BY <1>2 DEF CleanUp, At, Types, TypeOK
  <2>3. o \in Listed /\ ShouldDelete(o, oldest)
    BY <2>1, <2>2 DEF Marked, Deleting, Types, TypeOK
  <2>4. Listed = Live
    BY DEF Listed, Live, BucketInv, StoredInv
  <2>5. Cardinality(Newer(o)) >= MinKept
    BY <2>3, <2>4 DEF ShouldDelete, Position, Newer
  <2>6. \A x \in objects : SameKey(x, o) => x = o
    BY <2>3, <2>4 DEF Types, TypeOK, SameKey, Live
  <2>7. Sparing(o)
    BY <2>5, <2>6 DEF Sparing
  <2>8. QED
    BY <2>2, <2>7 DEF Sparing, Newer, Live
<1>3. ASSUME NEW q \in Procs, ~CleanUp(q), NEW o \in Marked(q)' PROVE Sparing(o)'
  <2>1. PICK r \in Marked(q) : SameKey(o, r)
    BY <1>3, MarkedNext
  <2>2. SparingNext(r)
    BY <1>1, <2>1
  <2>3. QED
    BY <2>1, <2>2 DEF Sparing, SparingNext, SameKey
<1>4. QED
  BY <1>1, <1>2, <1>3 DEF SparingInv

\* In a bucket a clean-up leaves at least minBackups backups in place, though its list is
\* old and others clean up beside it (retention.ts:43-72, 110-138).
THEOREM MinimumStays == ~Local => (Spec => []MinBackupsStay)
<1> SUFFICES ASSUME ~Local PROVE Spec => []MinBackupsStay
    OBVIOUS
<1>1. Init => Types /\ BucketInv /\ SparingInv
  BY TypesInit, BucketInit, SparingInit
<1>2. Types /\ BucketInv /\ SparingInv /\ [Next]_vars => Types' /\ BucketInv' /\ SparingInv'
  BY TypesNext, BucketNext, SparingsNext
<1>3. SparingInv => MinBackupsStay
  BY DEF SparingInv
<1>4. QED
  BY <1>1, <1>2, <1>3, PTL DEF Spec


-----------------------------------------------------------------------------
(* One process, also on local disk, where a copy takes time: what it knows *)
(* of the object it works on stays true until it is done with it.          *)

OneProcess == \E p \in Procs : Procs = {p}

WholeNext(x) == \E y \in objects' : SameKey(y, x) /\ y.whole

\* A write leaves what is stored under other keys, and what is written is whole or not.
LEMMA PutWhole ==
    ASSUME NEW o \in Object, NEW x, Put(o)
    PROVE  /\ ~SameKey(x, o) => (WholeNext(x) <=> IsWhole(x)) /\ (Found(x) => FoundNext(x))
           /\ SameKey(x, o) => (WholeNext(x) <=> o.whole) /\ FoundNext(x)
<1> DEFINE new == [o EXCEPT !.time = now + 1]
<1>1. /\ objects' = {y \in objects : ~SameKey(y, o)} \cup {new}
      /\ SameKey(new, o) /\ new.whole = o.whole
  BY DEF Put, SameKey, Object
<1> HIDE DEF new
<1>2. ASSUME ~SameKey(x, o)
      PROVE  (WholeNext(x) <=> IsWhole(x)) /\ (Found(x) => FoundNext(x))
  <2>1. ~SameKey(new, x)
    BY <1>1, <1>2 DEF SameKey
  <2>2. \A y \in objects : SameKey(y, x) => ~SameKey(y, o)
    BY <1>2 DEF SameKey
  <2> QED
    BY <1>1, <2>1, <2>2 DEF WholeNext, IsWhole, Found, FoundNext
<1>3. ASSUME SameKey(x, o)
      PROVE  (WholeNext(x) <=> o.whole) /\ FoundNext(x)
  <2>1. SameKey(new, x)
    BY <1>1, <1>3 DEF SameKey
  <2>2. \A y \in objects' : SameKey(y, x) => y = new
    BY <1>1, <1>3 DEF SameKey
  <2>3. new \in objects'
    BY <1>1
  <2> QED
    BY <1>1, <2>1, <2>2, <2>3 DEF WholeNext, FoundNext
<1> QED
  BY <1>2, <1>3

\* What a deletion and a restore know of the object they work on.
DeletionInv(p) ==
    /\ pc[p] \in {"copying", "copied", "described"} => item[p].kind = "backup" /\ item[p].of <= made
    /\ pc[p] = "copying" /\ IsWhole(item[p]) => item[p].whole
    /\ pc[p] \in {"copied", "described"} /\ IsWhole(item[p])
           => IsWhole(Trash(item[p].of, stamp[p], TRUE))
    /\ pc[p] = "described" => Found(Meta(item[p].of, stamp[p]))

ReturnInv(p) ==
    /\ pc[p] \in {"restoring", "returning"} =>
           /\ item[p].kind = "trash" /\ item[p].of <= made
           /\ Found(Meta(item[p].of, item[p].stamp))
           /\ item[p].whole => IsWhole(item[p])
    /\ pc[p] = "returning" => ~IsWhole(Backup(item[p].of, TRUE))

AloneInv ==
    /\ \A o \in objects : o.of <= made
    /\ \A p \in Procs : DeletionInv(p) /\ ReturnInv(p)

\* A write of an object of some backup that was made.
LEMMA PutMade ==
    ASSUME NEW o \in Object, Put(o), \A x \in objects : x.of <= made, o.of <= made', made <= made',
           made \in Nat, made' \in Nat, \A x \in objects : x.of \in Nat
    PROVE  \A x \in objects' : x.of <= made'
<1> DEFINE new == [o EXCEPT !.time = now + 1]
<1>1. objects' = {y \in objects : ~SameKey(y, o)} \cup {new} /\ new.of = o.of
  BY DEF Put, Object
<1> HIDE DEF new
<1> QED
  BY <1>1

LEMMA ObjectsNamed ==
    ASSUME Types
    PROVE  made \in Nat /\ \A x \in objects : x \in Object /\ x.of \in Nat /\ x.of \in Backups
<1>1. \A x \in Object : x.of \in Backups
  BY DEF Object
<1> QED
  BY <1>1 DEF Types, TypeOK, Backups

LEMMA MakeBackupAlone ==
    ASSUME Types, AloneInv, MakeBackup
    PROVE  AloneInv'
<1> DEFINE o == Backup(made + 1, TRUE)
<1>1. made \in Nat /\ made' = made + 1 /\ Put(o) /\ UNCHANGED process
  BY ObjectsNamed DEF MakeBackup
<1>2. o \in Object /\ o.kind = "backup" /\ o.of = made + 1 /\ o.stamp = 0
  <2>1. made + 1 \in Backups
    BY <1>1 DEF MakeBackup, Backups
  <2> QED
    BY <2>1, BackupName DEF Backup
<1>3. \A x \in objects : x.of \in Nat
  BY ObjectsNamed
<1> HIDE DEF o
<1>4. \A x \in objects' : x.of <= made'
  <2>1. made' \in Nat /\ made <= made' /\ o.of <= made'
    BY <1>1, <1>2
  <2>2. \A x \in objects : x.of <= made
    BY DEF AloneInv
  <2> QED
    BY <1>1, <1>2, <1>3, <2>1, <2>2, PutMade
<1>5. ASSUME NEW p \in Procs PROVE DeletionInv(p)'
  <2>1. CASE pc[p] \in {"copying", "copied", "described"}
    <3> DEFINE i == item[p]
               t == Trash(i.of, stamp[p], TRUE)
               m == Meta(i.of, stamp[p])
    <3>1. i.kind = "backup" /\ i.of <= made /\ i.of \in Nat
      <4>1. i \in Object
        BY <2>1 DEF Types, Working
      <4>2. DeletionInv(p)
        BY DEF AloneInv
      <4> QED
        BY <2>1, <4>1, <4>2 DEF DeletionInv, Object, Backups
    <3>2. ~SameKey(i, o) /\ ~SameKey(t, o) /\ ~SameKey(m, o)
      BY <1>1, <1>2, <3>1 DEF SameKey, Trash, Meta
    <3> HIDE DEF i, t, m
    <3>3. (WholeNext(i) <=> IsWhole(i)) /\ (WholeNext(t) <=> IsWhole(t)) /\ (Found(m) => FoundNext(m))
      BY <1>1, <1>2, <3>2, PutWhole
    <3>4. DeletionInv(p)
      BY DEF AloneInv
    <3>5. UNCHANGED <<pc, item, stamp>> /\ i.of <= made'
      BY <1>1, <3>1
    <3> QED
      BY <2>1, <3>1, <3>3, <3>4, <3>5 DEF DeletionInv, WholeNext, IsWhole, FoundNext, Found, Trash, Meta, i, t, m
  <2>2. CASE pc[p] \notin {"copying", "copied", "described"}
    BY <1>1, <2>2 DEF DeletionInv
  <2> QED
    BY <2>1, <2>2
<1>6. ASSUME NEW p \in Procs PROVE ReturnInv(p)'
  <2>1. CASE pc[p] \in {"restoring", "returning"}
    <3> DEFINE i == item[p]
               m == Meta(i.of, i.stamp)
               b == Backup(i.of, TRUE)
    <3>1. i.kind = "trash" /\ i.of <= made /\ i.of \in Nat
      <4>1. i \in Object
        BY <2>1 DEF Types, Working
      <4>2. ReturnInv(p)
        BY DEF AloneInv
      <4> QED
        BY <2>1, <4>1, <4>2 DEF ReturnInv, Object, Backups
    <3>2. ~SameKey(i, o) /\ ~SameKey(m, o) /\ ~SameKey(b, o)
      BY <1>1, <1>2, <3>1 DEF SameKey, Meta, Backup
    <3> HIDE DEF i, b, m
    <3>3. (WholeNext(i) <=> IsWhole(i)) /\ (WholeNext(b) <=> IsWhole(b)) /\ (Found(m) => FoundNext(m))
      BY <1>1, <1>2, <3>2, PutWhole
    <3>4. ReturnInv(p)
      BY DEF AloneInv
    <3>5. UNCHANGED <<pc, item, stamp>> /\ i.of <= made'
      BY <1>1, <3>1
    <3> QED
      BY <2>1, <3>1, <3>3, <3>4, <3>5 DEF ReturnInv, WholeNext, IsWhole, FoundNext, Found, Meta, Backup, i, b, m
  <2>2. CASE pc[p] \notin {"restoring", "returning"}
    BY <1>1, <2>2 DEF ReturnInv
  <2> QED
    BY <2>1, <2>2
<1> QED
  BY <1>4, <1>5, <1>6 DEF AloneInv

\* Facts about the objects a process handles, in the form the steps need.
LEMMA HandledObject ==
    ASSUME Types, NEW p \in Procs, pc[p] \in Working
    PROVE  /\ item[p] \in Object /\ item[p].of \in Backups /\ item[p].of \in Nat
           /\ item[p].stamp \in Times /\ stamp[p] \in Times
           /\ Trash(item[p].of, stamp[p], TRUE) \in Object /\ Meta(item[p].of, stamp[p]) \in Object
           /\ Meta(item[p].of, item[p].stamp) \in Object /\ Backup(item[p].of, TRUE) \in Object
<1>1. item[p] \in Object /\ stamp[p] \in Times
  BY DEF Types, TypeOK
<1>2. item[p].of \in Backups /\ item[p].stamp \in Times
  BY <1>1 DEF Object
<1>3. item[p].of \in Nat
  BY <1>2 DEF Backups
<1> QED
  BY <1>1, <1>2, <1>3, Names, BackupName

LEMMA CopyAlone ==
    ASSUME Types, AloneInv, NEW p \in Procs, Copy(p)
    PROVE  /\ \A x \in objects' : x.of <= made'
           /\ DeletionInv(p)' /\ ReturnInv(p)'
<1>1. PICK o \in plan[p] :
          /\ o.kind = "backup" /\ Found(o)
          /\ item' = [item EXCEPT ![p] = [o EXCEPT !.whole = IsWhole(o)]]
          /\ Put(Trash(o.of, now + 1, IsWhole(o) /\ ~Local))
  BY DEF Copy
<1>2. o \in Object /\ now + 1 \in Times
  BY <1>1 DEF Types, TypeOK, Put, Times
<1>3. o.of \in Backups /\ o.of <= made /\ made' = made
  <2>1. PICK x \in objects : SameKey(x, o)
    BY <1>1 DEF Found
  <2> QED
    BY <1>2, <2>1 DEF AloneInv, SameKey, Object, Copy
<1> DEFINE t == Trash(o.of, now + 1, IsWhole(o) /\ ~Local)
           w == Trash(o.of, now + 1, TRUE)
<1>4. IsWhole(o) \in BOOLEAN
  BY DEF IsWhole, Types, TypeOK, Object
<1>5. t \in Object /\ t.of = o.of /\ t.kind = "trash" /\ t.whole = (IsWhole(o) /\ ~Local) /\ SameKey(w, t)
  <2>1. t \in Object
    BY <1>2, <1>3, <1>4, Names
  <2> QED
    BY <2>1 DEF Trash, SameKey
<1>6. ~SameKey(o, t)
  BY <1>1, <1>5 DEF SameKey
<1>7. (WholeNext(o) <=> IsWhole(o)) /\ (WholeNext(w) <=> t.whole)
  <2>1. Put(t)
    BY <1>1
  <2> HIDE DEF t, w
  <2> QED
    BY <1>5, <1>6, <2>1, PutWhole
<1>8. /\ item'[p] = [o EXCEPT !.whole = IsWhole(o)] /\ stamp'[p] = now + 1
      /\ pc'[p] = IF Local THEN "copying" ELSE "copied"
  BY <1>1 DEF Copy, At, Types, TypeOK
<1>9. item'[p].kind = "backup" /\ item'[p].of = o.of /\ item'[p].whole = IsWhole(o) /\ item'[p].stamp = o.stamp
  BY <1>1, <1>2, <1>8 DEF Object
<1>10. IsWhole(item[p])' <=> WholeNext(o)
  BY <1>1, <1>9 DEF IsWhole, WholeNext, SameKey
<1>11. IsWhole(Trash(item[p].of, stamp[p], TRUE))' <=> WholeNext(w)
  BY <1>8, <1>9 DEF IsWhole, WholeNext
<1>12. DeletionInv(p)'
  <2>1. item'[p].of <= made'
    BY <1>3, <1>9
  <2>2. pc'[p] = "copying" => (IsWhole(item[p])' => item'[p].whole)
    BY <1>7, <1>9, <1>10
  <2>3. pc'[p] = "copied" => (IsWhole(item[p])' => IsWhole(Trash(item[p].of, stamp[p], TRUE))')
    BY <1>5, <1>7, <1>8, <1>10, <1>11
  <2> QED
    BY <1>8, <1>9, <2>1, <2>2, <2>3 DEF DeletionInv
<1>13. ReturnInv(p)'
  BY <1>8 DEF ReturnInv
<1>14. \A x \in objects' : x.of <= made'
  <2>1. \A x \in objects : x.of <= made /\ x.of \in Nat /\ made \in Nat
    BY ObjectsNamed DEF AloneInv
  <2>2. Put(t) /\ t.of <= made'
    BY <1>1, <1>3, <1>5
  <2>3. made \in Nat
    BY ObjectsNamed
  <2> HIDE DEF t
  <2> QED
    BY <1>3, <1>5, <2>1, <2>2, <2>3, PutMade
<1> QED
  BY <1>12, <1>13, <1>14

LEMMA CopyEndsAlone ==
    ASSUME Types, AloneInv, NEW p \in Procs, CopyEnds(p)
    PROVE  /\ \A x \in objects' : x.of <= made'
           /\ DeletionInv(p)' /\ ReturnInv(p)'
<1> DEFINE i == item[p]
           w == Trash(i.of, stamp[p], TRUE)
<1>1. pc[p] = "copying" /\ pc'[p] = "copied" /\ UNCHANGED <<made, item, stamp>>
  BY DEF CopyEnds, At, Types, TypeOK
<1>2. PICK whole \in {i.whole, i.whole \/ IsWhole(i)} : Put(Trash(i.of, stamp[p], whole))
  BY DEF CopyEnds
<1>3. i \in Object /\ i.of \in Backups /\ stamp[p] \in Times
  BY <1>1, HandledObject DEF Working
<1>4. i.kind = "backup" /\ i.of <= made /\ (IsWhole(i) => i.whole)
  BY <1>1 DEF AloneInv, DeletionInv
<1> DEFINE t == Trash(i.of, stamp[p], whole)
<1>5. t \in Object /\ SameKey(w, t) /\ t.of = i.of /\ t.kind = "trash" /\ t.whole = whole
  <2>1. i.whole \in BOOLEAN /\ IsWhole(i) \in BOOLEAN
    BY <1>3 DEF Object, IsWhole, Types, TypeOK
  <2>2. whole \in BOOLEAN
    BY <1>2, <2>1
  <2> QED
    BY <1>3, <2>2, Names DEF Trash, SameKey
<1>6. ~SameKey(i, t)
  BY <1>4, <1>5 DEF SameKey
<1>7. (WholeNext(i) <=> IsWhole(i)) /\ (WholeNext(w) <=> whole)
  <2>1. Put(t)
    BY <1>2
  <2> HIDE DEF t, w, i
  <2> QED
    BY <1>5, <1>6, <2>1, PutWhole
<1>8. IsWhole(i) => whole
  BY <1>2, <1>4
<1>9. DeletionInv(p)'
  <2>1. IsWhole(item[p])' <=> WholeNext(i)
    BY <1>1 DEF IsWhole, WholeNext
  <2>2. IsWhole(Trash(item[p].of, stamp[p], TRUE))' <=> WholeNext(w)
    BY <1>1 DEF IsWhole, WholeNext
  <2> QED
    BY <1>1, <1>4, <1>7, <1>8, <2>1, <2>2 DEF DeletionInv
<1>10. ReturnInv(p)'
  BY <1>1 DEF ReturnInv
<1>11. \A x \in objects' : x.of <= made'
  <2>1. made \in Nat /\ \A x \in objects : x.of <= made /\ x.of \in Nat
    BY ObjectsNamed DEF AloneInv
  <2>2. Put(t) /\ t.of <= made'
    BY <1>1, <1>2, <1>4, <1>5
  <2> HIDE DEF t
  <2> QED
    BY <1>1, <1>5, <2>1, <2>2, PutMade
<1> QED
  BY <1>9, <1>10, <1>11

LEMMA DescribeAlone ==
    ASSUME Types, AloneInv, NEW p \in Procs, Describe(p)
    PROVE  /\ \A x \in objects' : x.of <= made'
           /\ DeletionInv(p)' /\ ReturnInv(p)'
<1> DEFINE i == item[p]
           w == Trash(i.of, stamp[p], TRUE)
           m == Meta(i.of, stamp[p])
<1>1. pc[p] = "copied" /\ pc'[p] = "described" /\ UNCHANGED <<made, item, stamp>> /\ Put(m)
  BY DEF Describe, At, Types, TypeOK
<1>2. m \in Object
  BY <1>1, HandledObject DEF Working
<1>3. i.kind = "backup" /\ i.of <= made /\ (IsWhole(i) => IsWhole(w))
  BY <1>1 DEF AloneInv, DeletionInv
<1>4. ~SameKey(i, m) /\ ~SameKey(w, m) /\ SameKey(m, m) /\ m.of = i.of
  BY <1>3 DEF SameKey, Meta, Trash
<1>5. (WholeNext(i) <=> IsWhole(i)) /\ (WholeNext(w) <=> IsWhole(w)) /\ FoundNext(m)
  <2> HIDE DEF i, w, m
  <2> QED
    BY <1>1, <1>2, <1>4, PutWhole
<1>6. DeletionInv(p)'
  <2>1. IsWhole(item[p])' <=> WholeNext(i)
    BY <1>1 DEF IsWhole, WholeNext
  <2>2. IsWhole(Trash(item[p].of, stamp[p], TRUE))' <=> WholeNext(w)
    BY <1>1 DEF IsWhole, WholeNext
  <2>3. Found(Meta(item[p].of, stamp[p]))' <=> FoundNext(m)
    BY <1>1 DEF Found, FoundNext
  <2> QED
    BY <1>1, <1>3, <1>5, <2>1, <2>2, <2>3 DEF DeletionInv
<1>7. ReturnInv(p)'
  BY <1>1 DEF ReturnInv
<1>8. \A x \in objects' : x.of <= made'
  <2>1. made \in Nat /\ \A x \in objects : x.of <= made /\ x.of \in Nat
    BY ObjectsNamed DEF AloneInv
  <2>2. m.of <= made'
    BY <1>1, <1>3, <1>4
  <2> HIDE DEF m
  <2> QED
    BY <1>1, <1>2, <2>1, <2>2, PutMade
<1> QED
  BY <1>6, <1>7, <1>8

LEMMA RestoreStartsAlone ==
    ASSUME Types, AloneInv, NEW p \in Procs, RestoreStarts(p)
    PROVE  /\ \A x \in objects' : x.of <= made'
           /\ DeletionInv(p)' /\ ReturnInv(p)'
<1>1. PICK m \in objects :
          /\ m.kind = "meta"
          /\ item' = [item EXCEPT ![p] = Trash(m.of, m.stamp, IsWhole(Trash(m.of, m.stamp, TRUE)))]
  BY DEF RestoreStarts
<1>2. pc'[p] = "restoring" /\ UNCHANGED <<objects, made, stamp>>
  BY DEF RestoreStarts, At, Types, TypeOK
<1> DEFINE w == IsWhole(Trash(m.of, m.stamp, TRUE))
<1>3. item'[p] = Trash(m.of, m.stamp, w)
  BY <1>1 DEF Types, TypeOK
<1>4. /\ item'[p].kind = "trash" /\ item'[p].of = m.of /\ item'[p].stamp = m.stamp /\ item'[p].whole = w
      /\ m.of <= made
  <2> HIDE DEF w
  <2> QED
    BY <1>1, <1>3 DEF Trash, AloneInv
<1>5. Found(Meta(item[p].of, item[p].stamp))'
  BY <1>1, <1>2, <1>4 DEF Found, Meta, SameKey
<1>6. IsWhole(item[p])' <=> w
  BY <1>2, <1>4 DEF IsWhole, SameKey, Trash
<1>7. ReturnInv(p)'
  BY <1>2, <1>4, <1>5, <1>6 DEF ReturnInv
<1>8. DeletionInv(p)'
  BY <1>2 DEF DeletionInv
<1> QED
  BY <1>2, <1>7, <1>8 DEF AloneInv

LEMMA ReturnAlone ==
    ASSUME Types, AloneInv, NEW p \in Procs, Return(p)
    PROVE  /\ \A x \in objects' : x.of <= made'
           /\ DeletionInv(p)' /\ ReturnInv(p)'
<1> DEFINE i == item[p]
           m == Meta(i.of, i.stamp)
           b == Backup(i.of, TRUE)
           t == Backup(i.of, IsWhole(i) /\ ~Local)
<1>1. /\ pc[p] = "restoring" /\ pc'[p] = (IF Local THEN "returning" ELSE "returned")
      /\ UNCHANGED <<made, item, stamp>> /\ Put(t)
  BY DEF Return, At, Types, TypeOK
<1>2. i \in Object /\ i.of \in Backups
  BY <1>1, HandledObject DEF Working
<1>3. i.kind = "trash" /\ i.of <= made /\ Found(m) /\ (i.whole => IsWhole(i))
  BY <1>1 DEF AloneInv, ReturnInv
<1>4. t \in Object /\ t.of = i.of /\ (Local => ~t.whole)
  <2>1. (IsWhole(i) /\ ~Local) \in BOOLEAN
    BY DEF IsWhole
  <2> QED
    BY <1>2, <2>1, BackupName DEF Backup
<1>5. ~SameKey(i, t) /\ ~SameKey(m, t) /\ SameKey(b, t)
  BY <1>3 DEF SameKey, Meta, Backup
<1>6. (WholeNext(i) <=> IsWhole(i)) /\ FoundNext(m) /\ (WholeNext(b) <=> t.whole)
  <2> HIDE DEF i, m, b, t
  <2> QED
    BY <1>1, <1>3, <1>4, <1>5, PutWhole
<1>7. ReturnInv(p)'
  <2>1. IsWhole(item[p])' <=> WholeNext(i)
    BY <1>1 DEF IsWhole, WholeNext
  <2>2. IsWhole(Backup(item[p].of, TRUE))' <=> WholeNext(b)
    BY <1>1 DEF IsWhole, WholeNext
  <2>3. Found(Meta(item[p].of, item[p].stamp))' <=> FoundNext(m)
    BY <1>1 DEF Found, FoundNext
  <2> HIDE DEF m, b, t
  <2> QED
    BY <1>1, <1>3, <1>4, <1>6, <2>1, <2>2, <2>3 DEF ReturnInv
<1>8. DeletionInv(p)'
  BY <1>1 DEF DeletionInv
<1>9. \A x \in objects' : x.of <= made'
  <2>1. made \in Nat /\ \A x \in objects : x.of <= made /\ x.of \in Nat
    BY ObjectsNamed DEF AloneInv
  <2>2. t.of <= made'
    BY <1>1, <1>3, <1>4
  <2> HIDE DEF t
  <2> QED
    BY <1>1, <1>4, <2>1, <2>2, PutMade
<1> QED
  BY <1>7, <1>8, <1>9

LEMMA ReturnEndsAlone ==
    ASSUME Types, AloneInv, NEW p \in Procs, ReturnEnds(p)
    PROVE  /\ \A x \in objects' : x.of <= made'
           /\ DeletionInv(p)' /\ ReturnInv(p)'
<1> DEFINE i == item[p]
           t == Backup(i.of, i.whole)
<1>1. pc[p] = "returning" /\ pc'[p] = "returned" /\ UNCHANGED made /\ Put(t)
  BY DEF ReturnEnds, At, Types, TypeOK
<1>2. i \in Object /\ i.of \in Backups /\ i.whole \in BOOLEAN
  BY <1>1, HandledObject DEF Working, Object
<1>3. t \in Object /\ t.of = i.of /\ i.of <= made
  BY <1>1, <1>2, BackupName DEF Backup, AloneInv, ReturnInv
<1>4. \A x \in objects' : x.of <= made'
  <2>1. made \in Nat /\ \A x \in objects : x.of <= made /\ x.of \in Nat
    BY ObjectsNamed DEF AloneInv
  <2>2. t.of <= made'
    BY <1>1, <1>3
  <2> HIDE DEF t
  <2> QED
    BY <1>1, <1>3, <2>1, <2>2, PutMade
<1>5. DeletionInv(p)' /\ ReturnInv(p)'
  BY <1>1 DEF DeletionInv, ReturnInv
<1> QED
  BY <1>4, <1>5

\* The other steps write nothing and end what the process knew of an object.
LEMMA OthersAlone ==
    ASSUME Types, AloneInv, NEW p \in Procs,
           \/ CleanUp(p) \/ Purge(p) \/ Stop(p) \/ Delete(p) \/ DeleteTrash(p) \/ CleanUpFails(p)
           \/ CleanUpEnds(p) \/ RemoveReturned(p) \/ RestoreEnds(p) \/ PurgeOne(p) \/ PurgeMeta(p)
           \/ PurgeEnds(p)
    PROVE  /\ \A x \in objects' : x.of <= made'
           /\ DeletionInv(p)' /\ ReturnInv(p)'
<1>1. made' = made /\ objects' \subseteq objects
  BY DEF CleanUp, Purge, Stop, Delete, DeleteTrash, CleanUpFails, CleanUpEnds, RemoveReturned,
         RestoreEnds, PurgeOne, PurgeMeta, PurgeEnds, Remove
<1>2. \A x \in objects' : x.of <= made'
  BY <1>1 DEF AloneInv
<1>3. pc \in [Procs -> PCs]
  BY DEF Types, TypeOK
<1>4. pc'[p] \in {"idle", "cleaning", "purging", "purged", "removed"}
  <2>1. CASE CleanUp(p) \/ Purge(p) \/ Stop(p) \/ Delete(p) \/ DeleteTrash(p) \/ CleanUpFails(p)
    BY <1>3, <2>1 DEF CleanUp, Purge, Stop, Delete, DeleteTrash, CleanUpFails, At
  <2>2. CASE CleanUpEnds(p) \/ RemoveReturned(p) \/ RestoreEnds(p) \/ PurgeOne(p) \/ PurgeMeta(p)
             \/ PurgeEnds(p)
    BY <1>3, <2>2 DEF CleanUpEnds, RemoveReturned, RestoreEnds, PurgeOne, PurgeMeta, PurgeEnds, At
  <2> QED
    BY <2>1, <2>2
<1>5. DeletionInv(p)' /\ ReturnInv(p)'
  BY <1>4 DEF DeletionInv, ReturnInv
<1> QED
  BY <1>2, <1>5

LEMMA AloneInit == Init => AloneInv
BY DEF Init, AloneInv, DeletionInv, ReturnInv

LEMMA AloneNext == OneProcess /\ Types /\ AloneInv /\ [Next]_vars => AloneInv'
<1> SUFFICES ASSUME OneProcess, Types, AloneInv, [Next]_vars PROVE AloneInv'
    OBVIOUS
<1>1. ASSUME NEW p \in Procs,
             \A x \in objects' : x.of <= made',
             DeletionInv(p)', ReturnInv(p)'
      PROVE  AloneInv'
  BY <1>1 DEF OneProcess, AloneInv
<1>2. CASE MakeBackup
  BY <1>2, MakeBackupAlone
<1>3. CASE TimePasses \/ UNCHANGED vars
  BY <1>3 DEF TimePasses, vars, AloneInv, DeletionInv, ReturnInv, IsWhole, Found
<1>4. ASSUME NEW p \in Procs, Copy(p) \/ CopyEnds(p) \/ Describe(p) PROVE AloneInv'
  BY <1>1, <1>4, CopyAlone, CopyEndsAlone, DescribeAlone
<1>5. ASSUME NEW p \in Procs, RestoreStarts(p) \/ Return(p) \/ ReturnEnds(p) PROVE AloneInv'
  BY <1>1, <1>5, RestoreStartsAlone, ReturnAlone, ReturnEndsAlone
<1>6. ASSUME NEW p \in Procs,
             \/ CleanUp(p) \/ Purge(p) \/ Stop(p) \/ Delete(p) \/ DeleteTrash(p) \/ CleanUpFails(p)
             \/ CleanUpEnds(p) \/ RemoveReturned(p) \/ RestoreEnds(p) \/ PurgeOne(p)
             \/ PurgeMeta(p) \/ PurgeEnds(p)
      PROVE  AloneInv'
  BY <1>1, <1>6, OthersAlone
<1> QED
  BY <1>2, <1>3, <1>4, <1>5, <1>6 DEF Next, GoesOn

\* A purge removes copies, and a restore what it has put back: neither a backup.
CopiesOnly ==
    \A p \in Procs :
        /\ pc[p] \in {"restoring", "returning", "returned"} => item[p].kind = "trash"
        /\ pc[p] \in {"purging", "purged"} => \A o \in plan[p] : o.kind = "trash"

LEMMA CopiesOnlyNext == Types /\ CopiesOnly /\ [Next]_vars => CopiesOnly'
<1> SUFFICES ASSUME Types, CopiesOnly, [Next]_vars, NEW q \in Procs
             PROVE  /\ pc'[q] \in {"restoring", "returning", "returned"} => item'[q].kind = "trash"
                    /\ pc'[q] \in {"purging", "purged"} => \A o \in plan'[q] : o.kind = "trash"
    BY DEF CopiesOnly
<1>1. pc \in [Procs -> PCs] /\ DOMAIN item = Procs /\ DOMAIN plan = Procs /\ DOMAIN stamp = Procs
  BY DEF Types, TypeOK
<1>2. CASE MakeBackup \/ TimePasses \/ UNCHANGED vars
  BY <1>2 DEF MakeBackup, TimePasses, vars, CopiesOnly
<1>3. ASSUME NEW p \in Procs, CleanUp(p) \/ Copy(p) \/ CopyEnds(p) \/ Describe(p) \/ Delete(p)
      PROVE  /\ pc'[q] \in {"restoring", "returning", "returned"} => item'[q].kind = "trash"
             /\ pc'[q] \in {"purging", "purged"} => \A o \in plan'[q] : o.kind = "trash"
  BY <1>1, <1>3 DEF CleanUp, Copy, CopyEnds, Describe, Delete, At, Handled, Release, CopiesOnly
<1>4. ASSUME NEW p \in Procs, DeleteTrash(p) \/ CleanUpFails(p) \/ CleanUpEnds(p) \/ Stop(p)
      PROVE  /\ pc'[q] \in {"restoring", "returning", "returned"} => item'[q].kind = "trash"
             /\ pc'[q] \in {"purging", "purged"} => \A o \in plan'[q] : o.kind = "trash"
  BY <1>1, <1>4 DEF DeleteTrash, CleanUpFails, CleanUpEnds, Stop, At, Handled, Release, CopiesOnly
<1>5. ASSUME NEW p \in Procs,
             RestoreStarts(p) \/ Return(p) \/ ReturnEnds(p) \/ RemoveReturned(p) \/ RestoreEnds(p)
      PROVE  /\ pc'[q] \in {"restoring", "returning", "returned"} => item'[q].kind = "trash"
             /\ pc'[q] \in {"purging", "purged"} => \A o \in plan'[q] : o.kind = "trash"
  <2>1. CASE RestoreStarts(p)
    <3>1. PICK m \in objects :
              item' = [item EXCEPT ![p] = Trash(m.of, m.stamp, IsWhole(Trash(m.of, m.stamp, TRUE)))]
      BY <2>1 DEF RestoreStarts
    <3>2. item'[p].kind = "trash"
      BY <1>1, <3>1 DEF Trash
    <3>3. q # p => item'[q] = item[q] /\ pc'[q] = pc[q]
      BY <1>1, <2>1, <3>1 DEF RestoreStarts, At
    <3>4. pc'[p] = "restoring" /\ UNCHANGED plan
      BY <1>1, <2>1 DEF RestoreStarts, At
    <3> QED
      BY <3>2, <3>3, <3>4 DEF CopiesOnly
  <2>2. CASE Return(p) \/ ReturnEnds(p) \/ RemoveReturned(p)
    BY <1>1, <2>2 DEF Return, ReturnEnds, RemoveReturned, At, CopiesOnly
  <2>3. CASE RestoreEnds(p)
    BY <1>1, <2>3 DEF RestoreEnds, At, Release, CopiesOnly
  <2> QED
    BY <1>5, <2>1, <2>2, <2>3
<1>6. ASSUME NEW p \in Procs, Purge(p) \/ PurgeOne(p) \/ PurgeMeta(p) \/ PurgeEnds(p)
      PROVE  /\ pc'[q] \in {"restoring", "returning", "returned"} => item'[q].kind = "trash"
             /\ pc'[q] \in {"purging", "purged"} => \A o \in plan'[q] : o.kind = "trash"
  BY <1>1, <1>6 DEF Purge, PurgeOne, PurgeMeta, PurgeEnds, At, Release, CopiesOnly
<1> QED
  BY <1>2, <1>3, <1>4, <1>5, <1>6 DEF Next, GoesOn

\* A backup goes when an object is written under its key or removed.
LEMMA WrittenOver ==
    ASSUME NEW o \in Object, NEW w \in objects, w \notin objects', Put(o) \/ Remove(o)
    PROVE  SameKey(w, o)
BY DEF Put, Remove

\* A copy that is whole and described keeps its backup safe.
LEMMA CopyKeepsSafe ==
    ASSUME NEW b, NEW s,
           \A o \in objects \ objects' : o.of = b => o.kind = "backup",
           IsWhole(Trash(b, s, TRUE)), Found(Meta(b, s))
    PROVE  Safe(b)'
<1>1. PICK x \in objects : SameKey(x, Trash(b, s, TRUE)) /\ x.whole
  BY DEF IsWhole
<1>2. x.of = b /\ x.kind = "trash" /\ x.stamp = s /\ x \in objects'
  BY <1>1 DEF SameKey, Trash
<1>3. PICK m \in objects : SameKey(m, Meta(b, s))
  BY DEF Found
<1>4. m.of = b /\ m.kind = "meta" /\ m \in objects'
  BY <1>3 DEF SameKey, Meta
<1>5. Found(Meta(b, x.stamp))'
  BY <1>2, <1>3, <1>4 DEF Found
<1> QED
  BY <1>1, <1>2, <1>5 DEF Safe

\* The one step that loses a backup without an object of the trash restores a part.
LEMMA LosingAlone ==
    ASSUME OneProcess, Types, AloneInv, CopiesOnly, Next, NEW b \in Backups, Safe(b), ~Safe(b)',
           \A o \in objects \ objects' : o.of = b => o.kind = "backup"
    PROVE  \E p \in Procs : pc[p] = "restoring" /\ item[p].of = b /\ ~item[p].whole
<1>1. PICK w \in objects : w.of = b /\ w.kind = "backup" /\ w.whole /\ w \notin objects'
  <2>1. PICK w \in objects : /\ w.of = b /\ w.whole
                             /\ w.kind = "backup" \/ (w.kind = "trash" /\ Found(Meta(b, w.stamp)))
    BY DEF Safe
  <2>2. CASE w.kind = "backup"
    BY <2>1, <2>2 DEF Safe
  <2>3. CASE w.kind = "trash"
    <3>1. IsWhole(Trash(b, w.stamp, TRUE)) /\ Found(Meta(b, w.stamp))
      BY <2>1, <2>3 DEF IsWhole, SameKey, Trash
    <3> QED
      BY <3>1, CopyKeepsSafe
  <2> QED
    BY <2>1, <2>2, <2>3
<1>2. w.of \in Nat /\ w.of <= made /\ made \in Nat
  BY ObjectsNamed DEF AloneInv
<1>3. CASE MakeBackup
  <2>1. made + 1 \in Backups
    BY <1>2, <1>3 DEF MakeBackup, Backups
  <2>2. SameKey(w, Backup(made + 1, TRUE))
    BY <1>1, <1>3, <2>1, BackupName, WrittenOver DEF MakeBackup
  <2> QED
    BY <1>2, <2>2 DEF SameKey, Backup
<1>4. ASSUME NEW p \in Procs, Delete(p) PROVE FALSE
  <2>1. pc[p] = "described" /\ Remove(item[p]) /\ item[p] \in Object
    BY <1>4, HandledObject DEF Delete, At, Working
  <2>2. SameKey(w, item[p])
    BY <1>1, <2>1, WrittenOver
  <2>3. IsWhole(item[p]) /\ item[p].of = b
    BY <1>1, <2>2 DEF IsWhole, SameKey
  <2>4. IsWhole(Trash(b, stamp[p], TRUE)) /\ Found(Meta(b, stamp[p]))
    BY <2>1, <2>3 DEF AloneInv, DeletionInv
  <2> QED
    BY <2>4, CopyKeepsSafe
<1>5. ASSUME NEW p \in Procs, Return(p)
      PROVE  pc[p] = "restoring" /\ item[p].of = b /\ ~item[p].whole
  <2>1. /\ pc[p] = "restoring" /\ Put(Backup(item[p].of, IsWhole(item[p]) /\ ~Local))
        /\ item[p] \in Object /\ item[p].of \in Backups
    BY <1>5, HandledObject DEF Return, At, Working
  <2>2. Backup(item[p].of, IsWhole(item[p]) /\ ~Local) \in Object
    BY <2>1, BackupName DEF IsWhole
  <2>3. item[p].of = b
    BY <1>1, <2>1, <2>2, WrittenOver DEF SameKey, Backup
  <2>4. item[p].kind = "trash" /\ Found(Meta(b, item[p].stamp)) /\ (item[p].whole => IsWhole(item[p]))
    BY <2>1, <2>3 DEF AloneInv, ReturnInv
  <2>5. IsWhole(item[p]) => IsWhole(Trash(b, item[p].stamp, TRUE))
    BY <2>3, <2>4 DEF IsWhole, SameKey, Trash
  <2>6. ~IsWhole(item[p])
    BY <2>4, <2>5, CopyKeepsSafe
  <2> QED
    BY <2>1, <2>3, <2>4, <2>6
<1>6. ASSUME NEW p \in Procs, ReturnEnds(p) PROVE FALSE
  <2>1. /\ pc[p] = "returning" /\ Put(Backup(item[p].of, item[p].whole))
        /\ item[p] \in Object /\ item[p].of \in Backups
    BY <1>6, HandledObject DEF ReturnEnds, At, Working
  <2>2. Backup(item[p].of, item[p].whole) \in Object
    BY <2>1, BackupName DEF Object
  <2>3. SameKey(w, Backup(item[p].of, item[p].whole))
    BY <1>1, <2>1, <2>2, WrittenOver
  <2>4. IsWhole(Backup(item[p].of, TRUE))
    BY <1>1, <2>3 DEF IsWhole, SameKey, Backup
  <2> QED
    BY <2>1, <2>4 DEF AloneInv, ReturnInv
<1>7. ASSUME NEW o \in Object, o.kind # "backup", Put(o) \/ Remove(o) PROVE FALSE
  BY <1>1, <1>7, WrittenOver DEF SameKey
<1>8. ASSUME NEW p \in Procs, Copy(p) PROVE FALSE
  <2>1. PICK o \in plan[p] : Put(Trash(o.of, now + 1, IsWhole(o) /\ ~Local))
    BY <1>8 DEF Copy
  <2>2. o.of \in Backups /\ now + 1 \in Times
    BY <2>1 DEF Put, Times, Types, TypeOK, Object
  <2>3. Trash(o.of, now + 1, IsWhole(o) /\ ~Local) \in Object
    BY <2>2, Names DEF IsWhole
  <2> QED
    BY <1>7, <2>1, <2>3 DEF Trash
<1>9. ASSUME NEW p \in Procs, CopyEnds(p) PROVE FALSE
  <2>1. PICK whole \in {item[p].whole, item[p].whole \/ IsWhole(item[p])} :
            Put(Trash(item[p].of, stamp[p], whole))
    BY <1>9 DEF CopyEnds
  <2>2. item[p] \in Object /\ item[p].of \in Backups /\ stamp[p] \in Times
    BY <1>9, HandledObject DEF CopyEnds, At, Working
  <2>3. whole \in BOOLEAN
    BY <2>1, <2>2 DEF Object, IsWhole
  <2> QED
    BY <1>7, <2>1, <2>2, <2>3, Names DEF Trash
<1>10. ASSUME NEW p \in Procs, Describe(p) PROVE FALSE
  <2>1. Put(Meta(item[p].of, stamp[p])) /\ Meta(item[p].of, stamp[p]) \in Object
    BY <1>10, HandledObject DEF Describe, At, Working
  <2> QED
    BY <1>7, <2>1 DEF Meta
<1>11. ASSUME NEW p \in Procs, DeleteTrash(p) \/ PurgeOne(p) PROVE FALSE
  <2>1. PICK o \in plan[p] : Remove(o) /\ o.kind # "backup"
    BY <1>11 DEF DeleteTrash, PurgeOne, At, CopiesOnly
  <2>2. o \in Object
    BY <2>1 DEF Types, TypeOK
  <2> QED
    BY <1>7, <2>1, <2>2
<1>12. ASSUME NEW p \in Procs, RemoveReturned(p) PROVE FALSE
  <2>1. pc[p] = "returned" /\ Remove(item[p])
    BY <1>12 DEF RemoveReturned, At
  <2>2. item[p] \in Object /\ item[p].kind = "trash"
    BY <2>1, HandledObject DEF CopiesOnly, Working
  <2> QED
    BY <1>7, <2>1, <2>2
<1>13. ASSUME NEW p \in Procs, RestoreEnds(p) \/ PurgeMeta(p) PROVE FALSE
  <2>1. Remove(Meta(item[p].of, item[p].stamp)) /\ Meta(item[p].of, item[p].stamp) \in Object
    BY <1>1, <1>13, HandledObject DEF RestoreEnds, PurgeMeta, At, Working
  <2> QED
    BY <1>7, <2>1 DEF Meta
<1>14. ASSUME NEW p \in Procs,
              CleanUp(p) \/ RestoreStarts(p) \/ Purge(p) \/ CleanUpFails(p) \/ CleanUpEnds(p)
              \/ PurgeEnds(p) \/ Stop(p)
       PROVE  FALSE
  BY <1>1, <1>14 DEF CleanUp, RestoreStarts, Purge, CleanUpFails, CleanUpEnds, PurgeEnds, Stop
<1>15. CASE TimePasses
  BY <1>1, <1>15 DEF TimePasses
<1> QED
  BY <1>3, <1>4, <1>5, <1>6, <1>8, <1>9, <1>10, <1>11, <1>12, <1>13, <1>14, <1>15 DEF Next, GoesOn

\* One process, on local disk too: a deletion or a restore that fails or is killed
\* half way never trades a whole copy for a part, except that a part restored over its
\* backup replaces it (safe-storage.adapter.ts:79-132, 158-187).
THEOREM CopiesStayWhole == OneProcess => (Spec => CopiesWhole)
<1> SUFFICES ASSUME OneProcess PROVE Spec => CopiesWhole
    OBVIOUS
<1> DEFINE IInv == Types /\ AloneInv /\ CopiesOnly
<1>1. Init => IInv
  BY TypesInit, AloneInit DEF Init, CopiesOnly
<1>2. IInv /\ [Next]_vars => IInv'
  BY TypesNext, AloneNext, CopiesOnlyNext
<1>3. IInv /\ [Next]_vars =>
          [\A b \in Backups : Safe(b) /\ ~Safe(b)' =>
              \/ \E o \in objects \ objects' : o.of = b /\ o.kind # "backup"
              \/ \E p \in Procs : pc[p] = "restoring" /\ item[p].of = b /\ ~item[p].whole]_vars
  <2> SUFFICES ASSUME IInv, Next, NEW b \in Backups, Safe(b), ~Safe(b)',
                      ~ \E o \in objects \ objects' : o.of = b /\ o.kind # "backup"
               PROVE  \E p \in Procs : pc[p] = "restoring" /\ item[p].of = b /\ ~item[p].whole
      OBVIOUS
  <2> QED
    BY LosingAlone
<1> HIDE DEF IInv
<1>4. QED
  BY <1>1, <1>2, <1>3, PTL DEF Spec, CopiesWhole
=============================================================================
