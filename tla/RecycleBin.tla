----------------------------- MODULE RecycleBin -----------------------------
(***************************************************************************)
(* Soft deletion: `dbdock cleanup` and the retention job move backups to   *)
(* `.trash/<timestamp>/`, restoreFromTrash takes them back and purgeTrash   *)
(* ends them.  src/storage/safe-storage.adapter.ts, src/storage/adapters/*, *)
(* src/cli/utils/retention.ts.                                             *)
(*                                                                         *)
(* A deletion is a copy, a metadata object and the removal of the original, *)
(* in that order, with nothing that holds other processes off.  Every      *)
(* write gets the next number as its time; what has been in the trash for  *)
(* trashRetentionDays is what was written before `cutoff`.  A backup may   *)
(* be old enough for maxAgeDays at any time.                               *)
(***************************************************************************)
EXTENDS Integers, FiniteSets

CONSTANTS
    Procs,       \* processes that clean up, restore or purge
    MaxBackups,  \* bound: backups ever made
    MaxWrites,   \* bound: objects ever written
    MinKept,     \* backup.retention.minBackups
    MaxKept,     \* backup.retention.maxBackups
    Local        \* local disk: substring listing, copies that take time

ASSUME BoundsAssumption == MaxBackups \in Nat /\ MaxWrites \in Nat
ASSUME RetentionAssumption == MinKept \in Nat \ {0} /\ MaxKept \in Nat \ {0}
ASSUME LocalAssumption == Local \in BOOLEAN

\* CleanUp runs in any process (`dbdock cleanup`, `dbdock backup`); Purge in
\* the daily job of the scheduler; restoreFromTrash where an application calls
\* StorageService.
VARIABLES
    objects,  \* what is stored
    made,     \* backups made so far
    now,      \* objects written so far
    cutoff,   \* what was written before has been there for trashRetentionDays
    pc,       \* where each process is
    plan,     \* what each process has listed and not yet handled
    item,     \* the object each process works on
    stamp     \* the timestamp of the trash copy each process makes

stored == <<objects, made, now, cutoff>>
process == <<pc, plan, item, stamp>>
vars == <<stored, process>>

Backups == 1..MaxBackups
Times == 0..MaxWrites

\* A backup, its copy in the trash, or the .trashmeta.json of that copy.
Object == [kind : {"backup", "trash", "meta"}, of : Backups, stamp : Times,
           time : Times, whole : BOOLEAN]
Nothing == [kind |-> "backup", of |-> 1, stamp |-> 0, time |-> 0, whole |-> FALSE]

PCs == {"idle", "cleaning", "copying", "copied", "described", "purging", "purged",
        "restoring", "returning", "returned", "removed"}

TypeOK ==
    /\ objects \subseteq Object
    /\ \A o, x \in objects :
          <<o.kind, o.of, o.stamp>> = <<x.kind, x.of, x.stamp>> => o = x
    /\ made \in 0..MaxBackups
    /\ now \in Times
    /\ cutoff \in 0..MaxWrites + 1
    /\ pc \in [Procs -> PCs]
    /\ plan \in [Procs -> SUBSET Object]
    /\ item \in [Procs -> Object \cup {Nothing}]
    /\ stamp \in [Procs -> Times]

Init ==
    /\ objects = {}
    /\ made = 0
    /\ now = 0
    /\ cutoff = 0
    /\ pc = [p \in Procs |-> "idle"]
    /\ plan = [p \in Procs |-> {}]
    /\ item = [p \in Procs |-> Nothing]
    /\ stamp = [p \in Procs |-> 0]

SameKey(o, x) == o.kind = x.kind /\ o.of = x.of /\ o.stamp = x.stamp

\* A write under the key of o replaces what is there.
Put(o) == /\ now < MaxWrites
          /\ now' = now + 1
          /\ objects' = {x \in objects : ~SameKey(x, o)} \cup {[o EXCEPT !.time = now + 1]}

Remove(o) == objects' = {x \in objects : ~SameKey(x, o)}

Backup(b, whole) == [kind |-> "backup", of |-> b, stamp |-> 0, time |-> 0, whole |-> whole]
Trash(b, s, whole) == [kind |-> "trash", of |-> b, stamp |-> s, time |-> 0, whole |-> whole]
Meta(b, s) == [kind |-> "meta", of |-> b, stamp |-> s, time |-> 0, whole |-> TRUE]

Found(o) == \E x \in objects : SameKey(x, o)
IsWhole(o) == \E x \in objects : SameKey(x, o) /\ x.whole

MakeBackup ==
    /\ made < MaxBackups
    /\ made' = made + 1
    /\ Put(Backup(made + 1, TRUE))
    /\ UNCHANGED <<cutoff, process>>

\* A deletion that has begun does not take trashRetentionDays.
TimePasses ==
    /\ cutoff' \in cutoff + 1 .. now + 1
    /\ \A p \in Procs :
          pc[p] \in {"copying", "copied", "described"} => cutoff' <= stamp[p]
    /\ UNCHANGED <<objects, made, now, process>>

-----------------------------------------------------------------------------
(* The retention rules: evaluateRetention.                                 *)

\* listObjects({prefix: 'backup-'}) of the local adapter takes every key that
\* has the word in it; S3 takes the keys that begin with it.
Listed == IF Local THEN objects ELSE {o \in objects : o.kind = "backup"}

Position(o) == Cardinality({x \in Listed : x.time > o.time})

\* Slip: the newest is number one.
ShouldDeleteFromOne(o, oldest) ==
    /\ Position(o) + 1 >= MinKept
    /\ Position(o) + 1 >= MaxKept \/ o.time < oldest

ShouldDelete(o, oldest) ==
    /\ Position(o) >= MinKept
    /\ Position(o) >= MaxKept \/ o.time < oldest

-----------------------------------------------------------------------------
(* applyRetention: each object in turn goes through deleteObject.          *)

At(p, from, to) == pc[p] = from /\ pc' = [pc EXCEPT ![p] = to]

Release(p) == /\ item' = [item EXCEPT ![p] = Nothing]
              /\ stamp' = [stamp EXCEPT ![p] = 0]

\* Nothing in the code holds a restore and a deletion of one backup apart, and
\* together they lose it; the runs leave that out: a restore has the bin alone.
Undisturbed(p) == \A q \in Procs : pc[q] = "idle"

Unrestored == \A q \in Procs : pc[q] \notin {"restoring", "returning", "returned", "removed"}

CleanUp(p) ==
    /\ Unrestored
    /\ At(p, "idle", "cleaning")
    /\ \E oldest \in 0..now + 1 :
          plan' = [plan EXCEPT ![p] = {o \in Listed : ShouldDelete(o, oldest)}]
    /\ UNCHANGED <<stored, item, stamp>>

Foremost(p, o) == o \in plan[p] /\ \A x \in plan[p] : x.time <= o.time

\* moveToTrash: copyObject.  The local adapter reads and writes a stream.
Copy(p) ==
    /\ At(p, "cleaning", IF Local THEN "copying" ELSE "copied")
    /\ \E o \in plan[p] :
          /\ Foremost(p, o)
          /\ o.kind = "backup"
          /\ Found(o)
          /\ item' = [item EXCEPT ![p] = [o EXCEPT !.whole = IsWhole(o)]]
          /\ Put(Trash(o.of, now + 1, IsWhole(o) /\ ~Local))
    /\ stamp' = [stamp EXCEPT ![p] = now + 1]
    /\ UNCHANGED <<made, cutoff, plan>>

\* What was whole when the read began is read whole; what was still being
\* written may be read up to where it is.
CopyEnds(p) ==
    /\ At(p, "copying", "copied")
    /\ \E whole \in {item[p].whole, item[p].whole \/ IsWhole(item[p])} :
          Put(Trash(item[p].of, stamp[p], whole))
    /\ UNCHANGED <<made, cutoff, plan, item, stamp>>

Describe(p) ==
    /\ At(p, "copied", "described")
    /\ Put(Meta(item[p].of, stamp[p]))
    /\ UNCHANGED <<made, cutoff, plan, item, stamp>>

Handled(p) == plan' = [plan EXCEPT ![p] = {x \in @ : ~SameKey(x, item[p])}]

\* Slip: a copy that failed does not stop the deletion.
DeleteUncopied(p) ==
    /\ \E s \in {"copying", "copied", "described"} : At(p, s, "cleaning")
    /\ Remove(item[p])
    /\ Handled(p)
    /\ UNCHANGED <<made, now, cutoff>>
    /\ Release(p)

\* Slip: the original goes before its metadata is there.
DeleteUndescribed(p) ==
    /\ \E s \in {"copied", "described"} : At(p, s, "cleaning")
    /\ Remove(item[p])
    /\ Handled(p)
    /\ UNCHANGED <<made, now, cutoff>>
    /\ Release(p)

Delete(p) ==
    /\ At(p, "described", "cleaning")
    /\ Remove(item[p])
    /\ Handled(p)
    /\ UNCHANGED <<made, now, cutoff>>
    /\ Release(p)

\* A key that begins with the trash prefix is deleted for good.
DeleteTrash(p) ==
    /\ pc[p] = "cleaning"
    /\ \E o \in plan[p] :
          /\ Foremost(p, o)
          /\ o.kind # "backup"
          /\ Remove(o)
          /\ plan' = [plan EXCEPT ![p] = @ \ {o}]
    /\ UNCHANGED <<made, now, cutoff, pc, item, stamp>>

\* The error is collected and the loop goes on with the next object.
CleanUpFails(p) ==
    \/ /\ pc[p] = "cleaning"
       /\ \E o \in plan[p] : Foremost(p, o) /\ plan' = [plan EXCEPT ![p] = @ \ {o}]
       /\ UNCHANGED <<stored, pc, item, stamp>>
    \/ /\ \E s \in {"copying", "copied", "described"} : At(p, s, "cleaning")
       /\ Handled(p)
       /\ Release(p)
       /\ UNCHANGED stored

CleanUpEnds(p) ==
    /\ At(p, "cleaning", "idle")
    /\ plan[p] = {}
    /\ UNCHANGED <<stored, plan>>
    /\ Release(p)

-----------------------------------------------------------------------------
(* restoreFromTrash.                                                       *)

RestoreStarts(p) ==
    /\ Undisturbed(p)
    /\ At(p, "idle", "restoring")
    /\ \E m \in objects :
          /\ m.kind = "meta"
          /\ item' = [item EXCEPT ![p] = Trash(m.of, m.stamp, IsWhole(Trash(m.of, m.stamp, TRUE)))]
    /\ UNCHANGED <<stored, plan, stamp>>

Return(p) ==
    /\ At(p, "restoring", IF Local THEN "returning" ELSE "returned")
    /\ Found(item[p])
    /\ Put(Backup(item[p].of, IsWhole(item[p]) /\ ~Local))
    /\ UNCHANGED <<made, cutoff, plan, item, stamp>>

ReturnEnds(p) ==
    /\ At(p, "returning", "returned")
    /\ Put(Backup(item[p].of, item[p].whole))
    /\ UNCHANGED <<made, cutoff, plan, item, stamp>>

\* Slip: the trash object is removed before it has been copied back.
RemoveFirst(p) ==
    /\ \E s \in {"restoring", "returned"} : At(p, s, "removed")
    /\ Remove(item[p])
    /\ UNCHANGED <<made, now, cutoff, plan, item, stamp>>

RemoveReturned(p) ==
    /\ At(p, "returned", "removed")
    /\ Remove(item[p])
    /\ UNCHANGED <<made, now, cutoff, plan, item, stamp>>

\* The metadata goes best effort: a failure is only logged.
RestoreEnds(p) ==
    /\ At(p, "removed", "idle")
    /\ \/ Remove(Meta(item[p].of, item[p].stamp))
       \/ UNCHANGED objects
    /\ UNCHANGED <<made, now, cutoff, plan>>
    /\ Release(p)

-----------------------------------------------------------------------------
(* purgeTrash.                                                             *)

\* Slip: the loop breaks, where it should continue, at the first metadata.
PurgeFirst(p) ==
    /\ Unrestored
    /\ At(p, "idle", "purging")
    /\ plan' = [plan EXCEPT ![p] =
          {o \in objects : /\ o.kind = "trash" /\ o.time < cutoff
                           /\ \A x \in objects : x.kind # "backup" => o.stamp <= x.stamp}]
    /\ UNCHANGED <<stored, item, stamp>>

Purge(p) ==
    /\ Unrestored
    /\ At(p, "idle", "purging")
    /\ plan' = [plan EXCEPT ![p] = {o \in objects : o.kind = "trash" /\ o.time < cutoff}]
    /\ UNCHANGED <<stored, item, stamp>>

PurgeOne(p) ==
    /\ At(p, "purging", "purged")
    /\ \E o \in plan[p] :
          /\ Remove(o)
          /\ item' = [item EXCEPT ![p] = o]
          /\ plan' = [plan EXCEPT ![p] = @ \ {o}]
    /\ UNCHANGED <<made, now, cutoff, stamp>>

PurgeMeta(p) ==
    /\ At(p, "purged", "purging")
    /\ \/ Remove(Meta(item[p].of, item[p].stamp))
       \/ UNCHANGED objects
    /\ UNCHANGED <<made, now, cutoff, plan>>
    /\ Release(p)

PurgeEnds(p) ==
    /\ At(p, "purging", "idle")
    /\ plan[p] = {}
    /\ UNCHANGED <<stored, plan>>
    /\ Release(p)

\* The process is killed, or a restore or a purge meets an error and ends.
Stop(p) ==
    /\ pc[p] # "idle"
    /\ pc' = [pc EXCEPT ![p] = "idle"]
    /\ plan' = [plan EXCEPT ![p] = {}]
    /\ UNCHANGED <<stored>>
    /\ Release(p)

-----------------------------------------------------------------------------
GoesOn(p) ==
    \/ Copy(p) \/ CopyEnds(p) \/ Describe(p) \/ Delete(p) \/ DeleteTrash(p)
    \/ CleanUpFails(p) \/ CleanUpEnds(p)
    \/ Return(p) \/ ReturnEnds(p) \/ RemoveReturned(p) \/ RestoreEnds(p)
    \/ PurgeOne(p) \/ PurgeMeta(p) \/ PurgeEnds(p)

Next ==
    \/ MakeBackup \/ TimePasses
    \/ \E p \in Procs : CleanUp(p) \/ RestoreStarts(p) \/ Purge(p) \/ GoesOn(p) \/ Stop(p)

Spec == Init /\ [][Next]_vars

\* The retention job is run every day; it is not killed each time, and time
\* passes.
Fairness ==
    /\ WF_vars(TimePasses)
    /\ \A p \in Procs : /\ WF_vars(GoesOn(p) \/ Stop(p))
                        /\ SF_vars(Purge(p))
                        /\ SF_vars(PurgeOne(p))

FairSpec == Spec /\ Fairness

-----------------------------------------------------------------------------
(* Properties.                                                             *)

\* A backup is there, or restoreFromTrash can bring it back.
Safe(b) ==
    \E o \in objects :
        /\ o.of = b /\ o.whole
        /\ o.kind = "backup" \/ (o.kind = "trash" /\ Found(Meta(b, o.stamp)))

Aged(b) == \E o \in objects \ objects' : o.kind = "trash" /\ o.of = b /\ o.time < cutoff

\* A backup that is there or in the trash is lost in one way only: its trash
\* copy is older than the retention period when it goes.  Neither errors nor
\* kills nor two clean-ups at once break that (CHANGELOG.md:60).
SoftDeletion ==
    [][\A b \in Backups : Safe(b) /\ ~Safe(b)' => Aged(b)]_vars

\* A clean-up or a restore that is killed half way never trades a whole copy
\* for a part of one: a backup goes only with an object of the trash, or when a
\* part is restored over it, which a clean-up took for a backup after an earlier
\* restore was killed (safe-storage.adapter.ts:113-132, 158-187).
CopiesWhole ==
    [][\A b \in Backups : Safe(b) /\ ~Safe(b)' =>
          \/ \E o \in objects \ objects' : o.of = b /\ o.kind # "backup"
          \/ \E p \in Procs : pc[p] = "restoring" /\ item[p].of = b /\ ~item[p].whole]_vars

\* A clean-up leaves at least minBackups backups in place, stale lists and
\* restored backups included (retention.ts:52-56).
Live == {o \in objects : o.kind = "backup" /\ o.whole}

MinBackupsStay == Cardinality(Live) >= MinKept \/ Cardinality(Live) >= made

InTrash(s) == \E o \in objects : o.kind = "trash" /\ o.stamp = s

\* A trashed object does not stay for ever, whatever a purge that was killed or
\* failed left undone (safe-storage.adapter.ts:134-156).
TrashEmptied == \A s \in Times : InTrash(s) ~> ~InTrash(s)
=============================================================================
