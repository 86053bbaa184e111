-------------------------- MODULE CloudSyncProofs --------------------------
(***************************************************************************)
(* Proofs about CloudSync, for any directories, processes and resources:   *)
(* the baseline first, then the queues.  Jobs are whole and are applied    *)
(* once; with one process in each directory none is lost, and CloudSync    *)
(* implements SharedConfig.  The bounds of the types follow from the same  *)
(* invariant.                                                              *)
(***************************************************************************)
EXTENDS CloudSync, SequenceTheorems, FiniteSetTheorems, TLAPS

USE DEF process, cloud, counters

-----------------------------------------------------------------------------
(* The baseline.  A state, in a file or in a process, that is honest once  *)
(* stays so because Cloud only ever adds revisions; the acknowledgement in *)
(* flight has to be honest too, the one of a repeated push included.       *)

Right(a, h) == a.rev \in Nat /\ a.rev < Len(h) /\ a.base = h[a.rev + 1]

Shaped(s) == \E R, B, Q, X : s \in [rev : R, base : B, pending : Q, dead : X]

RightState(s, h) == Shaped(s) /\ Right(s, h)

CloudShape ==
    /\ \E S : history \in Seq(S)
    /\ \E S : log \in Seq(S)
    /\ Len(history) = Len(log) + 1
    /\ history[1] = Blank

Shapes ==
    /\ file = [d \in Dirs |-> file[d]]
    /\ pc = [p \in Procs |-> pc[p]]
    /\ mem = [p \in Procs |-> mem[p]]
    /\ answer = [p \in Procs |-> answer[p]]

FilesRight == \A d \in Dirs : RightState(file[d], history)
MemRight == \A p \in Procs : RightState(mem[p], history)
AnswersRight == \A p \in Procs : pc[p] = "answered" => Right(answer[p], history)

BaselineInv == CloudShape /\ Shapes /\ FilesRight /\ MemRight /\ AnswersRight

\* A record of the four fields with a right baseline is a right state.
LEMMA MakesRight ==
    ASSUME NEW h, NEW a, Right(a, h), NEW pending, NEW dead
    PROVE  RightState([rev |-> a.rev, base |-> a.base, pending |-> pending, dead |-> dead], h)
<1> DEFINE t == [rev |-> a.rev, base |-> a.base, pending |-> pending, dead |-> dead]
<1>1. t \in [rev : {a.rev}, base : {a.base}, pending : {pending}, dead : {dead}]
  OBVIOUS
<1>2. Right(t, h)
  BY DEF Right
<1> HIDE DEF t
<1>3. Shaped(t)
  BY <1>1, Zenon DEF Shaped
<1>4. RightState(t, h)
  BY <1>2, <1>3 DEF RightState
<1>5. QED
  BY <1>4 DEF t

\* Revision 0 is the empty configuration: the state without a file is honest.
LEMMA DefaultRight == CloudShape => RightState(Default, history)
<1> SUFFICES ASSUME CloudShape PROVE RightState(Default, history)
    OBVIOUS
<1>1. PICK S : log \in Seq(S)
  BY DEF CloudShape
<1>2. Len(log) \in Nat
  BY <1>1
<1>3. 0 < Len(history) /\ history[0 + 1] = Blank
  BY <1>2 DEF CloudShape
<1>4. Right([rev |-> 0, base |-> Blank], history)
  BY <1>3 DEF Right
<1>5. QED
  BY <1>4, MakesRight DEF Default

\* Nothing has been pushed, and every baseline is empty.
LEMMA BaselineInit == Init => BaselineInv
<1> SUFFICES ASSUME Init PROVE BaselineInv
    OBVIOUS
<1>1. history = <<Blank>> /\ log = <<>>
  BY DEF Init
<1>2. history \in Seq({Blank}) /\ Len(history) = 1 /\ history[1] = Blank
  BY <1>1
<1>3. log \in Seq({}) /\ Len(log) = 0
  BY <1>1
<1>4. CloudShape
  <2>1. \E S : history \in Seq(S)
    BY <1>2, Zenon
  <2>2. \E S : log \in Seq(S)
    BY <1>3, Zenon
  <2>3. Len(history) = Len(log) + 1
    BY <1>2, <1>3
  <2>4. QED
    BY <2>1, <2>2, <2>3, <1>2 DEF CloudShape
<1>5. RightState(Default, history)
  BY <1>4, DefaultRight
<1>6. Shapes /\ FilesRight /\ MemRight /\ AnswersRight
  BY <1>5 DEF Shapes, FilesRight, MemRight, AnswersRight, Init
<1>7. QED
  BY <1>4, <1>6 DEF BaselineInv

\* Cloud's revisions only grow: what was right stays right, and the revision a
\* push makes is the one its answer names.
LEMMA PushGrows ==
    ASSUME CloudShape, NEW config, NEW entry,
           history' = Append(history, config), log' = Append(log, entry)
    PROVE  /\ CloudShape'
           /\ \A a : Right(a, history) => Right(a, history')
           /\ Right([rev |-> Revision + 1, base |-> config], history')
<1>1. PICK S : history \in Seq(S)
  BY DEF CloudShape
<1>2. PICK L : log \in Seq(L)
  BY DEF CloudShape
<1>3. history \in Seq(S \cup {config}) /\ config \in S \cup {config}
  BY <1>1
<1>4. log \in Seq(L \cup {entry}) /\ entry \in L \cup {entry}
  BY <1>2
<1>5. history' \in Seq(S \cup {config}) /\ Len(history') = Len(history) + 1
  BY <1>3
<1>6. log' \in Seq(L \cup {entry}) /\ Len(log') = Len(log) + 1
  BY <1>4
<1>7. Len(history) \in Nat /\ Len(log) \in Nat /\ Len(history) = Len(log) + 1
  BY <1>1, <1>2 DEF CloudShape
<1>8. /\ \A r \in 1..Len(history) : history'[r] = history[r]
      /\ history'[Len(history) + 1] = config
  BY <1>3, <1>7
<1>9. CloudShape'
  <2>1. \E T : history' \in Seq(T)
    BY <1>5, Zenon
  <2>2. \E T : log' \in Seq(T)
    BY <1>6, Zenon
  <2>3. history'[1] = history[1] /\ history[1] = Blank
    BY <1>7, <1>8 DEF CloudShape
  <2>4. Blank' = Blank
    BY DEF Blank
  <2>5. Len(history') = Len(log') + 1
    BY <1>5, <1>6, <1>7
  <2>6. QED
    BY <2>1, <2>2, <2>3, <2>4, <2>5 DEF CloudShape
<1>10. ASSUME NEW a, Right(a, history) PROVE Right(a, history')
  <2>1. a.rev \in Nat /\ a.rev < Len(history) /\ a.base = history[a.rev + 1]
    BY <1>10 DEF Right
  <2>2. a.rev + 1 \in 1..Len(history)
    BY <2>1, <1>7
  <2>3. QED
    BY <2>1, <2>2, <1>5, <1>7, <1>8 DEF Right
<1>11. Right([rev |-> Revision + 1, base |-> config], history')
  BY <1>5, <1>7, <1>8 DEF Right, Revision
<1>12. QED
  BY <1>9, <1>10, <1>11

\* A process that ends forgets its copy; the file is as it was, or is the copy.
LEMMA EndsKeeps ==
    ASSUME BaselineInv, NEW p \in Procs, Ends(p), UNCHANGED cloud,
           file' = file \/ file' = [file EXCEPT ![Dir[p]] = mem[p]]
    PROVE  BaselineInv'
<1> USE DEF BaselineInv
<1>1. CloudShape' /\ history' = history
  BY DEF CloudShape, Blank
<1>2. RightState(Default, history)
  BY DefaultRight
<1>3. Shapes'
  BY DEF Shapes, Ends
<1>4. FilesRight'
  BY <1>1 DEF Shapes, FilesRight, MemRight
<1>5. MemRight'
  BY <1>1, <1>2 DEF Shapes, MemRight, Ends
<1>6. AnswersRight'
  BY <1>1 DEF Shapes, AnswersRight, Ends
<1>7. QED
  BY <1>1, <1>3, <1>4, <1>5, <1>6

\* A right copy may be written back.
LEMMA SaveKeeps ==
    ASSUME BaselineInv, NEW p \in Procs, NEW s, RightState(s, history), Save(p, s),
           pc' = [pc EXCEPT ![p] = "drain"], UNCHANGED <<answer, cloud>>
    PROVE  BaselineInv'
<1> USE DEF BaselineInv
<1>1. CloudShape' /\ history' = history
  BY DEF CloudShape, Blank
<1>2. Shapes'
  BY DEF Shapes, Save
<1>3. FilesRight' /\ MemRight'
  BY <1>1 DEF Shapes, FilesRight, MemRight, Save
<1>4. AnswersRight'
  BY <1>1 DEF Shapes, AnswersRight
<1>5. QED
  BY <1>1, <1>2, <1>3, <1>4

\* Assigning to the baseline of a state, and to its queue, makes the record one expects.
LEMMA AssignFields ==
    ASSUME NEW R, NEW B, NEW Q, NEW X, NEW s \in [rev : R, base : B, pending : Q, dead : X],
           NEW u, NEW v, NEW w, NEW t
    PROVE  /\ t = [s EXCEPT !.rev = u, !.base = v, !.pending = w]
                => t = [rev |-> u, base |-> v, pending |-> w, dead |-> s.dead]
           /\ t = [s EXCEPT !.rev = u, !.base = v]
                => t = [rev |-> u, base |-> v, pending |-> s.pending, dead |-> s.dead]
<1>1. ASSUME t = [s EXCEPT !.rev = u, !.base = v, !.pending = w]
      PROVE  t = [rev |-> u, base |-> v, pending |-> w, dead |-> s.dead]
  <2>1. /\ t \in [rev : R \cup {u}, base : B \cup {v}, pending : Q \cup {w}, dead : X]
        /\ t.rev = u /\ t.base = v /\ t.pending = w /\ t.dead = s.dead
    BY <1>1
  <2>2. QED
    BY <2>1
<1>2. ASSUME t = [s EXCEPT !.rev = u, !.base = v]
      PROVE  t = [rev |-> u, base |-> v, pending |-> s.pending, dead |-> s.dead]
  <2>1. /\ t \in [rev : R \cup {u}, base : B \cup {v}, pending : Q, dead : X]
        /\ t.rev = u /\ t.base = v /\ t.pending = s.pending /\ t.dead = s.dead
    BY <1>2
  <2>2. QED
    BY <2>1
<1>3. QED
  BY <1>1, <1>2

\* What an acknowledgement, a failure, a new job and a pull make of a copy.
LEMMA CopiesRight ==
    ASSUME NEW h, NEW s, RightState(s, h), NEW a, Right(a, h),
           NEW job, NEW limit
    PROVE  /\ RightState(Acked(s, job, a), h)
           /\ RightState(MarkFailed(s, job, limit), h)
           /\ RightState([s EXCEPT !.pending = Append(@, job)], h)
           /\ RightState([s EXCEPT !.rev = a.rev, !.base = a.base], h)
<1>1. PICK R, B, Q, X : s \in [rev : R, base : B, pending : Q, dead : X]
  BY DEF RightState, Shaped
<1>2. Right(s, h)
  BY DEF RightState
<1>3. RightState(Acked(s, job, a), h)
  <2>1. Acked(s, job, a) = [rev |-> a.rev, base |-> a.base,
                           pending |-> Without(s.pending, job), dead |-> s.dead]
    <3> DEFINE t == Acked(s, job, a)
               w == Without(s.pending, job)
    <3>1. t = [s EXCEPT !.rev = a.rev, !.base = a.base, !.pending = w]
      BY DEF Acked
    <3> HIDE DEF t, w
    <3>2. t = [rev |-> a.rev, base |-> a.base, pending |-> w, dead |-> s.dead]
      BY <1>1, <3>1, AssignFields
    <3>3. QED
      BY <3>2 DEF t, w
  <2>2. QED
    BY <2>1, MakesRight
<1>4. RightState(MarkFailed(s, job, limit), h)
  <2> DEFINE again == Append(Without(s.pending, job), [job EXCEPT !.tries = @ + 1])
  <2>1. CASE job.tries + 1 >= limit
    <3>1. MarkFailed(s, job, limit)
            = [rev |-> s.rev, base |-> s.base,
               pending |-> Without(s.pending, job), dead |-> s.dead \cup {job.id}]
      BY <1>1, <2>1 DEF MarkFailed
    <3>2. QED
      BY <1>2, <3>1, MakesRight
  <2>2. CASE ~(job.tries + 1 >= limit)
    <3>1. MarkFailed(s, job, limit) = [s EXCEPT !.pending = again]
      BY <2>2 DEF MarkFailed
    <3> HIDE DEF again
    <3>2. MarkFailed(s, job, limit)
            = [rev |-> s.rev, base |-> s.base, pending |-> again, dead |-> s.dead]
      BY <1>1, <3>1
    <3>3. QED
      BY <1>2, <3>2, MakesRight
  <2>3. QED
    BY <2>1, <2>2
<1>5. RightState([s EXCEPT !.pending = Append(@, job)], h)
  <2> DEFINE t == [s EXCEPT !.pending = Append(@, job)]
  <2>1. t = [rev |-> s.rev, base |-> s.base, pending |-> Append(s.pending, job), dead |-> s.dead]
    BY <1>1
  <2> HIDE DEF t
  <2>2. RightState(t, h)
    BY <1>2, <2>1, MakesRight
  <2>3. QED
    BY <2>2 DEF t
<1>6. RightState([s EXCEPT !.rev = a.rev, !.base = a.base], h)
  <2>1. [s EXCEPT !.rev = a.rev, !.base = a.base]
          = [rev |-> a.rev, base |-> a.base, pending |-> s.pending, dead |-> s.dead]
    <3> DEFINE t == [s EXCEPT !.rev = a.rev, !.base = a.base]
    <3>1. t = [s EXCEPT !.rev = a.rev, !.base = a.base]
      OBVIOUS
    <3> HIDE DEF t
    <3>2. t = [rev |-> a.rev, base |-> a.base, pending |-> s.pending, dead |-> s.dead]
      BY <1>1, <3>1, AssignFields
    <3>3. QED
      BY <3>2 DEF t
  <2>2. QED
    BY <2>1, MakesRight
<1>7. QED
  BY <1>3, <1>4, <1>5, <1>6

\* The Cloud's revision is a natural number.
LEMMA RevisionNat ==
    CloudShape => Revision \in Nat /\ Revision < Len(history) /\ Len(log) \in Nat
<1> SUFFICES ASSUME CloudShape PROVE Revision \in Nat /\ Revision < Len(history) /\ Len(log) \in Nat
    OBVIOUS
<1>1. PICK L : log \in Seq(L)
  BY DEF CloudShape
<1>2. Len(log) \in Nat
  BY <1>1
<1>3. QED
  BY <1>2 DEF CloudShape, Revision

\* Every action keeps the baselines right.
LEMMA BaselineNext == BaselineInv /\ [Next]_vars => BaselineInv'
<1> SUFFICES ASSUME BaselineInv, [Next]_vars PROVE BaselineInv'
    OBVIOUS
<1> USE DirAssumption DEF BaselineInv
<1>0. ASSUME UNCHANGED cloud PROVE CloudShape' /\ history' = history
  BY <1>0 DEF CloudShape, Blank
<1>1. CASE UNCHANGED vars
  BY <1>0, <1>1 DEF vars, Shapes, FilesRight, MemRight, AnswersRight
<1>2. ASSUME NEW d \in Dirs, Edit(d) PROVE BaselineInv'
  BY <1>0, <1>2 DEF Edit, Shapes, FilesRight, MemRight, AnswersRight
<1>3. ASSUME NEW p \in Procs, SyncPush(p) PROVE BaselineInv'
  <2>1. CloudShape' /\ history' = history
    BY <1>0, <1>3 DEF SyncPush
  <2>2. Shapes' /\ FilesRight'
    <3>1. CASE UNCHANGED file
      BY <1>3, <2>1, <3>1 DEF SyncPush, At, Shapes, FilesRight
    <3>2. CASE ~UNCHANGED file
      <4>1. PICK job : file' = [file EXCEPT ![Dir[p]].pending = Append(@, job)]
        BY <1>3, <3>2 DEF SyncPush, Enqueue
      <4>2. QED
        <5> DEFINE s == [file[Dir[p]] EXCEPT !.pending = Append(@, job)]
        <5>1. file' = [file EXCEPT ![Dir[p]] = s]
          BY <4>1 DEF Shapes
        <5>2. RightState(file[Dir[p]], history)
          BY DEF FilesRight
        <5>3. RightState(s, history)
          BY <5>2, CopiesRight DEF RightState
        <5> HIDE DEF s
        <5>4. QED
          BY <1>3, <2>1, <5>1, <5>3 DEF SyncPush, At, Shapes, FilesRight
    <3>3. QED
      BY <3>1, <3>2
  <2>3. MemRight' /\ AnswersRight'
    BY <1>3, <2>1 DEF SyncPush, At, Shapes, MemRight, AnswersRight
  <2>4. QED
    BY <2>1, <2>2, <2>3
<1>4. ASSUME NEW p \in Procs, Drain(p) PROVE BaselineInv'
  <2>1. PICK ready : DrainReady(p, ready)
    BY <1>4 DEF Drain
  <2>2. CASE Ends(p)
    BY <2>1, <2>2, EndsKeeps DEF DrainReady
  <2>3. CASE ~Ends(p)
    <3>1. /\ pc' = [pc EXCEPT ![p] = "drain"]
          /\ mem' = [mem EXCEPT ![p] = file[Dir[p]]]
          /\ UNCHANGED <<answer, file, cloud>>
      BY <2>1, <2>3 DEF DrainReady
    <3>2. QED
      BY <1>0, <3>1 DEF Shapes, FilesRight, MemRight, AnswersRight
  <2>4. QED
    BY <2>2, <2>3
<1>5. ASSUME NEW p \in Procs, GetState(p) PROVE BaselineInv'
  BY <1>0, <1>5 DEF GetState, Shapes, FilesRight, MemRight, AnswersRight
<1>6. ASSUME NEW p \in Procs, Conflict(p) PROVE BaselineInv'
  BY <1>6, EndsKeeps DEF Conflict
<1>7. ASSUME NEW p \in Procs, PushApplied(p) PROVE BaselineInv'
  <2>0. PICK config, entry :
            /\ history' = Append(history, config) /\ log' = Append(log, entry)
            /\ Answered(p, Revision + 1, config) /\ UNCHANGED file
    BY <1>7 DEF PushApplied
  <2> DEFINE ans == [rev |-> Revision + 1, base |-> config]
  <2>1. history' = Append(history, config) /\ log' = Append(log, entry)
    BY <2>0
  <2>2. /\ pc' = [pc EXCEPT ![p] = "answered"]
        /\ answer' = [answer EXCEPT ![p] = ans]
        /\ UNCHANGED <<file, mem>>
    BY <2>0 DEF Answered
  <2>3. /\ CloudShape'
        /\ \A a : Right(a, history) => Right(a, history')
        /\ Right(ans, history')
    BY <2>1, PushGrows
  <2> HIDE DEF ans
  <2>4. Shapes'
    BY <2>2 DEF Shapes
  <2>5. FilesRight' /\ MemRight'
    BY <2>2, <2>3 DEF FilesRight, MemRight, RightState
  <2>6. AnswersRight'
    BY <2>2, <2>3 DEF Shapes, AnswersRight
  <2>7. QED
    BY <2>3, <2>4, <2>5, <2>6
<1>8. ASSUME NEW p \in Procs, PushRepeated(p) PROVE BaselineInv'
  <2>1. PICK r \in DOMAIN log : Answered(p, r, Resources(r))
    BY <1>8 DEF PushRepeated, Made
  <2> DEFINE ans == [rev |-> r, base |-> Resources(r)]
  <2>2. Right(ans, history)
    <3>1. PICK L : log \in Seq(L)
      BY DEF CloudShape
    <3>2. r \in 1..Len(log) /\ Len(log) \in Nat
      BY <3>1
    <3>3. r \in Nat /\ r < Len(history)
      BY <3>2 DEF CloudShape
    <3>4. QED
      BY <3>3 DEF Right, Resources
  <2>3. /\ pc' = [pc EXCEPT ![p] = "answered"]
        /\ answer' = [answer EXCEPT ![p] = ans]
        /\ UNCHANGED <<file, mem, cloud>>
    BY <1>8, <2>1 DEF PushRepeated, Answered
  <2> HIDE DEF ans
  <2>4. QED
    BY <1>0, <2>2, <2>3 DEF Shapes, FilesRight, MemRight, AnswersRight
<1>9. ASSUME NEW p \in Procs, PushRejected(p) PROVE BaselineInv'
  BY <1>9, EndsKeeps DEF PushRejected
<1>10. ASSUME NEW p \in Procs, Ack(p) PROVE BaselineInv'
  <2>0. PICK job : Save(p, Acked(mem[p], job, answer[p]))
    BY <1>10 DEF Ack
  <2> DEFINE s == Acked(mem[p], job, answer[p])
  <2>1. RightState(s, history)
    <3>1. Right(answer[p], history) /\ RightState(mem[p], history)
      BY <1>10 DEF Ack, At, AnswersRight, MemRight
    <3>2. QED
      BY <3>1, CopiesRight
  <2>2. Save(p, s) /\ pc' = [pc EXCEPT ![p] = "drain"] /\ UNCHANGED <<answer, cloud>>
    BY <1>10, <2>0 DEF Ack, At
  <2> HIDE DEF s
  <2>3. QED
    BY <2>1, <2>2, SaveKeeps
<1>11. ASSUME NEW p \in Procs, NEW limit, JobFails(p, limit) PROVE BaselineInv'
  <2>0. PICK job : Save(p, MarkFailed(mem[p], job, limit))
    BY <1>11 DEF JobFails
  <2> DEFINE s == MarkFailed(mem[p], job, limit)
  <2>1. RightState(s, history)
    <3>1. RightState(mem[p], history)
      BY <1>11 DEF MemRight
    <3>2. QED
      BY <3>1, CopiesRight DEF RightState
  <2>2. Save(p, s) /\ pc' = [pc EXCEPT ![p] = "drain"] /\ UNCHANGED <<answer, cloud>>
    BY <1>11, <2>0 DEF JobFails
  <2> HIDE DEF s
  <2>3. QED
    BY <2>1, <2>2, SaveKeeps
<1>12. ASSUME NEW p \in Procs, Drained(p) PROVE BaselineInv'
  BY <1>12, EndsKeeps DEF Drained
<1>13. ASSUME NEW p \in Procs, PullStart(p) PROVE BaselineInv'
  BY <1>0, <1>13 DEF PullStart, At, Shapes, FilesRight, MemRight, AnswersRight
<1>14. ASSUME NEW p \in Procs, PullFetch(p) PROVE BaselineInv'
  <2> DEFINE a == [rev |-> Revision, base |-> Resources(Revision)]
             s == [mem[p] EXCEPT !.rev = a.rev, !.base = a.base]
  <2>1. /\ mem' = [mem EXCEPT ![p] = s]
        /\ pc' = [pc EXCEPT ![p] = "pulled"] /\ UNCHANGED <<answer, file, cloud>>
    BY <1>14 DEF PullFetch, At, Shapes
  <2>2. Right(a, history)
    BY RevisionNat DEF Right, Resources
  <2> HIDE DEF a
  <2>4. RightState(s, history)
    BY <2>2, CopiesRight DEF MemRight
  <2> HIDE DEF s
  <2>3. Shapes' /\ FilesRight' /\ AnswersRight'
    BY <1>0, <2>1 DEF Shapes, FilesRight, AnswersRight
  <2>5. MemRight'
    BY <1>0, <2>1, <2>4 DEF Shapes, MemRight
  <2>6. QED
    BY <1>0, <2>1, <2>3, <2>5
<1>15. ASSUME NEW p \in Procs, PullWrite(p) PROVE BaselineInv'
  BY <1>15, EndsKeeps DEF PullWrite
<1>16. ASSUME NEW p \in Procs, Stop(p) PROVE BaselineInv'
  BY <1>16, EndsKeeps DEF Stop
<1>17. ASSUME NEW p \in Procs, Sync(p) \/ Pull(p) \/ Unreachable(p) \/ Refused(p) \/ Stop(p)
       PROVE  BaselineInv'
  BY <1>3, <1>4, <1>5, <1>6, <1>7, <1>8, <1>9, <1>10, <1>11, <1>12, <1>13, <1>14, <1>15,
     <1>16, <1>17 DEF Sync, Push, Pull, Unreachable, Refused
<1>18. QED
  BY <1>1, <1>2, <1>17 DEF Next

\* The baseline of every state file, and of every process at work, is what Cloud
\* held at the revision it names (sync-engine.ts:212-214, 243-258, 271-288): for any
\* directories, processes, resources and limits, whatever is repeated, killed or
\* written back late.
THEOREM BaselinesAreHonest == Spec => []BaselineHonest
<1>1. BaselineInv => BaselineHonest
  BY DirAssumption DEF BaselineInv, FilesRight, MemRight, RightState, Right,
     BaselineHonest, Honest, Resources
<1>2. QED
  BY <1>1, BaselineInit, BaselineNext, PTL DEF Spec


-----------------------------------------------------------------------------
(* Types.  The bounds on identifiers and revisions in TypeOK follow from   *)
(* what is proved below; here they are natural numbers.                    *)

JobShape == [id : Nat, key : Nat, base : Nat, changes : Changes, goal : Config, tries : Nat]
StateShape == [rev : Nat, base : Config, pending : Seq(JobShape), dead : SUBSET Nat]
Pushed == [id : Nat, key : Nat, forced : BOOLEAN, goal : Config]

TypeInv ==
    /\ local \in [Dirs -> Config]
    /\ file \in [Dirs -> StateShape]
    /\ pc \in [Procs -> {"idle", "queued", "drain", "answered", "pulling", "pulled"}]
    /\ force \in [Procs -> BOOLEAN]
    /\ mem \in [Procs -> StateShape]
    /\ todo \in [Procs -> SUBSET Nat]
    /\ answer \in [Procs -> [rev : Nat, base : Config]]
    /\ history \in Seq(Config)
    /\ log \in Seq(Pushed)
    /\ Len(history) = Len(log) + 1
    /\ jobs \in Nat

\* A queue without one of its jobs has the others and no more.
LEMMA WithoutOne ==
    ASSUME NEW S, NEW q \in Seq(S), NEW job \in Range(q)
    PROVE  /\ Without(q, job) \in Seq(S)
           /\ Range(Without(q, job)) \subseteq Range(q)
           /\ Range(q) \subseteq Range(Without(q, job)) \cup {job}
<1>1. PICK i \in DOMAIN q : /\ q[i] = job
                            /\ Without(q, job) = RemoveAt(q, i)
  <2>1. \E i \in DOMAIN q : q[i] = job
    BY DEF Range
  <2>2. QED
    BY <2>1 DEF Without
<1> DEFINE before == SubSeq(q, 1, i - 1)
           after == SubSeq(q, i + 1, Len(q))
<1>2. i \in 1..Len(q) /\ Len(q) \in Nat /\ DOMAIN q = 1..Len(q)
  OBVIOUS
<1>3. /\ before \in Seq(S) /\ Len(before) = i - 1
      /\ \A k \in 1..(i - 1) : before[k] = q[k]
  <2>1. \A k \in 1..(i - 1) : q[k] \in S
    BY <1>2
  <2>2. /\ before \in Seq(S)
        /\ Len(before) = IF 1 <= i - 1 THEN (i - 1) - 1 + 1 ELSE 0
        /\ \A k \in 1..((i - 1) - 1 + 1) : before[k] = q[1 + k - 1]
    BY <1>2, <2>1, SubSeqProperties
  <2> HIDE DEF before
  <2>3. QED
    BY <1>2, <2>2
<1>4. /\ after \in Seq(S) /\ Len(after) = Len(q) - i
      /\ \A k \in 1..(Len(q) - i) : after[k] = q[i + k]
  <2>1. \A k \in (i + 1)..Len(q) : q[k] \in S
    BY <1>2
  <2>2. /\ after \in Seq(S)
        /\ Len(after) = IF i + 1 <= Len(q) THEN Len(q) - (i + 1) + 1 ELSE 0
        /\ \A k \in 1..(Len(q) - (i + 1) + 1) : after[k] = q[i + 1 + k - 1]
    <3>1. i + 1 \in Int /\ Len(q) \in Int
      BY <1>2
    <3>2. QED
      BY <2>1, <3>1, SubSeqProperties
  <2> HIDE DEF after
  <2>3. Len(after) = Len(q) - i
    BY <1>2, <2>2
  <2>4. ASSUME NEW k \in 1..(Len(q) - i) PROVE after[k] = q[i + k]
    <3>1. k \in 1..(Len(q) - (i + 1) + 1) /\ i + 1 + k - 1 = i + k
      BY <1>2
    <3>2. QED
      BY <2>2, <3>1
  <2>5. QED
    BY <2>2, <2>3, <2>4
<1>5. Without(q, job) = before \o after
  BY <1>1 DEF RemoveAt
<1> HIDE DEF before, after
<1>6. Without(q, job) \in Seq(S) /\ Range(Without(q, job)) = Range(before) \cup Range(after)
  BY <1>3, <1>4, <1>5, ConcatProperties, RangeConcatenation
<1>7. Range(before) = {before[k] : k \in 1..(i - 1)}
  BY <1>3, RangeEquality
<1>8. Range(after) = {after[k] : k \in 1..(Len(q) - i)}
  BY <1>4, RangeEquality
<1>9. Range(before) \subseteq Range(q)
  BY <1>2, <1>3, <1>7 DEF Range
<1>10. Range(after) \subseteq Range(q)
  <2>1. ASSUME NEW k \in 1..(Len(q) - i) PROVE after[k] \in Range(q)
    <3>1. after[k] = q[i + k] /\ i + k \in DOMAIN q
      BY <1>2, <1>4
    <3>2. QED
      BY <3>1 DEF Range
  <2>2. QED
    BY <1>8, <2>1
<1>11. ASSUME NEW k \in DOMAIN q PROVE q[k] \in Range(before) \cup Range(after) \cup {job}
  <2>1. CASE k < i
    <3>1. k \in 1..(i - 1)
      BY <1>2, <2>1
    <3>2. QED
      BY <1>3, <1>7, <3>1
  <2>2. CASE k = i
    BY <1>1, <2>2
  <2>3. CASE k > i
    <3>1. k - i \in 1..(Len(q) - i) /\ i + (k - i) = k
      BY <1>2, <2>3
    <3>2. QED
      BY <1>4, <1>8, <3>1
  <2>4. QED
    BY <1>2, <2>1, <2>2, <2>3
<1>12. QED
  BY <1>6, <1>9, <1>10, <1>11 DEF Range

\* A longer queue has one job more.
LEMMA AppendOne ==
    ASSUME NEW S, NEW q \in Seq(S), NEW job \in S
    PROVE  /\ Append(q, job) \in Seq(S)
           /\ Range(Append(q, job)) = Range(q) \cup {job}
<1> DEFINE longer == Append(q, job)
<1>1. /\ longer \in Seq(S) /\ Len(longer) = Len(q) + 1 /\ Len(q) \in Nat
      /\ \A i \in 1..Len(q) : longer[i] = q[i]
      /\ longer[Len(q) + 1] = job
  BY AppendProperties
<1> HIDE DEF longer
<1>2. DOMAIN longer = 1..(Len(q) + 1) /\ DOMAIN q = 1..Len(q)
  BY <1>1
<1>3. DOMAIN longer = DOMAIN q \cup {Len(q) + 1}
  BY <1>1, <1>2
<1>4. Range(longer) = Range(q) \cup {job}
  BY <1>1, <1>2, <1>3 DEF Range
<1>5. QED
  BY <1>1, <1>4 DEF longer

\* What an acknowledgement makes of a state.
LEMMA AckedState ==
    ASSUME NEW s \in StateShape, NEW job \in Range(s.pending), NEW ans \in [rev : Nat, base : Config]
    PROVE  /\ Acked(s, job, ans) \in StateShape
           /\ Acked(s, job, ans).rev = ans.rev /\ Acked(s, job, ans).base = ans.base
           /\ Acked(s, job, ans).pending = Without(s.pending, job)
           /\ Acked(s, job, ans).dead = s.dead
<1> DEFINE q == Without(s.pending, job)
<1>1. s.pending \in Seq(JobShape)
  BY DEF StateShape
<1>2. q \in Seq(JobShape)
  BY <1>1, WithoutOne
<1>3. Acked(s, job, ans) = [s EXCEPT !.rev = ans.rev, !.base = ans.base, !.pending = q]
  BY DEF Acked
<1> HIDE DEF q
<1>4. QED
  <2>1. /\ Acked(s, job, ans) \in StateShape
        /\ Acked(s, job, ans).rev = ans.rev /\ Acked(s, job, ans).base = ans.base
        /\ Acked(s, job, ans).pending = q /\ Acked(s, job, ans).dead = s.dead
    BY <1>2, <1>3 DEF StateShape
  <2>2. QED
    BY <2>1 DEF q

Again(job) == [job EXCEPT !.tries = @ + 1]

LEMMA AgainShape ==
    ASSUME NEW job \in JobShape
    PROVE  /\ Again(job) \in JobShape
           /\ Again(job).id = job.id /\ Again(job).key = job.key /\ Again(job).base = job.base
           /\ Again(job).changes = job.changes /\ Again(job).goal = job.goal
BY DEF Again, JobShape

\* What a failure makes of it.
LEMMA FailedState ==
    ASSUME NEW s \in StateShape, NEW job \in Range(s.pending), NEW limit
    PROVE  /\ MarkFailed(s, job, limit) \in StateShape
           /\ MarkFailed(s, job, limit).rev = s.rev /\ MarkFailed(s, job, limit).base = s.base
           /\ \/ /\ MarkFailed(s, job, limit).pending = Without(s.pending, job)
                 /\ MarkFailed(s, job, limit).dead = s.dead \cup {job.id}
              \/ /\ MarkFailed(s, job, limit).pending = Append(Without(s.pending, job), Again(job))
                 /\ MarkFailed(s, job, limit).dead = s.dead
<1> DEFINE q == Without(s.pending, job)
           longer == Append(q, Again(job))
           t == MarkFailed(s, job, limit)
<1>1. s.pending \in Seq(JobShape) /\ s.dead \in SUBSET Nat
  BY DEF StateShape
<1>2. job \in JobShape
  BY <1>1, RangeOfSeq
<1>3. q \in Seq(JobShape)
  BY <1>1, WithoutOne
<1>4. longer \in Seq(JobShape)
  BY <1>2, <1>3, AgainShape, AppendOne
<1>5. job.id \in Nat
  BY <1>2 DEF JobShape
<1>6. \/ t = [s EXCEPT !.pending = q, !.dead = @ \cup {job.id}]
      \/ t = [s EXCEPT !.pending = longer]
  BY DEF MarkFailed, Again
<1> HIDE DEF q, longer, t
<1>7. CASE t = [s EXCEPT !.pending = q, !.dead = @ \cup {job.id}]
  <2>1. t \in StateShape /\ t.rev = s.rev /\ t.base = s.base /\ t.pending = q
        /\ t.dead = s.dead \cup {job.id}
    BY <1>1, <1>3, <1>5, <1>7 DEF StateShape
  <2>2. QED
    BY <2>1 DEF t, q
<1>8. CASE t = [s EXCEPT !.pending = longer]
  <2>1. t \in StateShape /\ t.rev = s.rev /\ t.base = s.base /\ t.pending = longer
        /\ t.dead = s.dead
    BY <1>4, <1>8 DEF StateShape
  <2>2. QED
    BY <2>1 DEF t, q, longer
<1>9. QED
  BY <1>6, <1>7, <1>8

\* The job at work is one of the queue.
LEMMA CurrentQueued ==
    \A p \in Procs : \A job \in Current(p) : job \in Range(mem[p].pending) /\ job.id \in todo[p]
BY DEF Current, Range

\* What is pushed and what it makes are configurations.
LEMMA DiffChanges ==
    ASSUME NEW c \in Config, NEW e \in Config
    PROVE  Diff(c, e) \in Changes
<1> DEFINE K == {x \in Keys : c[x] # e[x]}
<1>1. Diff(c, e) \in [K -> Hashes] /\ K \in SUBSET Keys
  BY DEF Diff, Config
<1> HIDE DEF K
<1>2. QED
  BY <1>1 DEF Changes

LEMMA ApplyConfig ==
    ASSUME NEW changes \in Changes, NEW c \in Config
    PROVE  Apply(changes, c) \in Config
<1>1. PICK K \in SUBSET Keys : changes \in [K -> Hashes]
  BY DEF Changes
<1>2. QED
  BY <1>1 DEF Apply, Config

LEMMA DefaultShape == Default \in StateShape /\ NoAnswer \in [rev : Nat, base : Config]
<1>1. Blank \in Config
  BY HashesAssumption DEF Blank, Config
<1>2. <<>> \in Seq(JobShape)
  OBVIOUS
<1>3. QED
  BY <1>1, <1>2 DEF Default, NoAnswer, StateShape

LEMMA TypeInit == Init => TypeInv
<1> SUFFICES ASSUME Init PROVE TypeInv
    OBVIOUS
<1>1. Blank \in Config
  BY HashesAssumption DEF Blank, Config
<1>2. history \in Seq(Config) /\ log \in Seq(Pushed) /\ Len(history) = Len(log) + 1
  BY <1>1 DEF Init
<1>3. /\ file \in [Dirs -> StateShape] /\ mem \in [Procs -> StateShape]
      /\ answer \in [Procs -> [rev : Nat, base : Config]]
  BY DefaultShape DEF Init
<1>4. /\ local \in [Dirs -> Config] /\ jobs \in Nat
      /\ pc \in [Procs -> {"idle", "queued", "drain", "answered", "pulling", "pulled"}]
      /\ force \in [Procs -> BOOLEAN] /\ todo \in [Procs -> SUBSET Nat]
  BY <1>1 DEF Init
<1>5. QED
  BY <1>2, <1>3, <1>4 DEF TypeInv

\* A process that ends leaves the types as they are.
LEMMA EndsTypes ==
    ASSUME TypeInv, NEW p \in Procs, Ends(p), UNCHANGED <<local, cloud, jobs>>,
           file' = file \/ file' = [file EXCEPT ![Dir[p]] = mem[p]]
    PROVE  TypeInv'
<1>1. file' \in [Dirs -> StateShape]
  BY DEF TypeInv
<1>2. QED
  BY <1>1, DefaultShape DEF TypeInv, Ends

\* A copy is written back, and the process goes on.
LEMMA SaveTypes ==
    ASSUME TypeInv, NEW p \in Procs, NEW s \in StateShape, Save(p, s), NEW id,
           pc' = [pc EXCEPT ![p] = "drain"], todo' = [todo EXCEPT ![p] = @ \ {id}],
           UNCHANGED <<local, force, answer, cloud, jobs>>
    PROVE  TypeInv'
BY DEF TypeInv, Save

\* A queue gets a new job, unless the directory is as Cloud has it.
LEMMA Enqueued ==
    ASSUME TypeInv, NEW d \in Dirs, Enqueue(d)
    PROVE  \/ UNCHANGED <<file, jobs>>
           \/ \E job \in JobShape :
                 /\ job = [id |-> jobs + 1, key |-> jobs + 1, base |-> file[d].rev,
                           changes |-> Diff(file[d].base, local[d]), goal |-> local[d], tries |-> 0]
                 /\ jobs' = jobs + 1
                 /\ file' = [file EXCEPT ![d].pending = Append(@, job)]
<1> DEFINE changes == Diff(file[d].base, local[d])
           job == [id |-> jobs + 1, key |-> jobs + 1, base |-> file[d].rev,
                   changes |-> changes, goal |-> local[d], tries |-> 0]
<1>1. file[d].base \in Config /\ local[d] \in Config /\ file[d].rev \in Nat /\ jobs \in Nat
  BY DEF TypeInv, StateShape
<1>2. changes \in Changes
  BY <1>1, DiffChanges
<1>3. \/ UNCHANGED <<file, jobs>>
      \/ jobs' = jobs + 1 /\ file' = [file EXCEPT ![d].pending = Append(@, job)]
  BY DEF Enqueue
<1> HIDE DEF changes
<1>4. job \in JobShape
  BY <1>1, <1>2 DEF JobShape
<1> HIDE DEF job
<1>5. QED
  BY <1>3, <1>4 DEF job, changes

\* The revision `next` that a push of `job` makes, and its entry in the log.
Adds(p, job, next, entry) ==
    /\ job \in JobShape
    /\ next = Apply(job.changes, Resources(Revision))
    /\ entry = [id |-> job.id, key |-> job.key, forced |-> force[p], goal |-> job.goal]
    /\ MayPush(p, job) /\ Made(job.key) = {} /\ BaseRevision(p, job) = Revision
    /\ history' = Append(history, next)
    /\ log' = Append(log, entry)
    /\ Answered(p, Revision + 1, next)
    /\ UNCHANGED <<local, file, counters>>

LEMMA Applied ==
    ASSUME TypeInv, NEW p \in Procs, PushApplied(p)
    PROVE  \E job \in Current(p), next \in Config, entry \in Pushed : Adds(p, job, next, entry)
<1>1. PICK job \in Current(p) :
          /\ MayPush(p, job) /\ Made(job.key) = {} /\ BaseRevision(p, job) = Revision
          /\ history' = Append(history, Apply(job.changes, Resources(Revision)))
          /\ log' = Append(log, [id |-> job.id, key |-> job.key, forced |-> force[p],
                                 goal |-> job.goal])
          /\ Answered(p, Revision + 1, Apply(job.changes, Resources(Revision)))
          /\ UNCHANGED <<local, file, counters>>
  BY DEF PushApplied
<1> DEFINE next == Apply(job.changes, Resources(Revision))
           entry == [id |-> job.id, key |-> job.key, forced |-> force[p], goal |-> job.goal]
<1>2. job \in JobShape
  <2>1. mem[p].pending \in Seq(JobShape)
    BY DEF TypeInv, StateShape
  <2>2. QED
    BY <2>1, CurrentQueued, RangeOfSeq
<1>3. Resources(Revision) \in Config /\ Revision \in Nat
  BY DEF TypeInv, Resources, Revision
<1>4. next \in Config
  BY <1>2, <1>3, ApplyConfig DEF JobShape
<1>5. entry \in Pushed
  BY <1>2 DEF JobShape, Pushed, TypeInv
<1>6. Adds(p, job, next, entry)
  BY <1>1, <1>2 DEF Adds
<1> HIDE DEF next, entry
<1>7. QED
  BY <1>4, <1>5, <1>6

\* Every action keeps the types.
LEMMA TypeNext == TypeInv /\ [Next]_vars => TypeInv'
<1> SUFFICES ASSUME TypeInv, [Next]_vars PROVE TypeInv'
    OBVIOUS
<1> USE DirAssumption
<1>1. CASE UNCHANGED vars
  BY <1>1 DEF vars, TypeInv
<1>2. ASSUME NEW d \in Dirs, Edit(d) PROVE TypeInv'
  BY <1>2 DEF Edit, TypeInv, Config
<1>3. ASSUME NEW p \in Procs, SyncPush(p) PROVE TypeInv'
  <2>1. file' \in [Dirs -> StateShape] /\ jobs' \in Nat
    <3>1. CASE UNCHANGED <<file, jobs>>
      BY <3>1 DEF TypeInv
    <3>2. ASSUME NEW job \in JobShape, jobs' = jobs + 1,
                 file' = [file EXCEPT ![Dir[p]].pending = Append(@, job)]
          PROVE  file' \in [Dirs -> StateShape] /\ jobs' \in Nat
      <4>1. file[Dir[p]].pending \in Seq(JobShape)
        BY DEF TypeInv, StateShape
      <4>2. Append(file[Dir[p]].pending, job) \in Seq(JobShape)
        BY <4>1, AppendOne
      <4> DEFINE s == file[Dir[p]]
                 longer == Append(s.pending, job)
                 t == [s EXCEPT !.pending = longer]
      <4>3. s \in StateShape
        BY DEF TypeInv
      <4> HIDE DEF s
      <4>4. t \in StateShape
        <5>1. longer \in Seq(JobShape)
          BY <4>2 DEF s
        <5> HIDE DEF longer
        <5>2. QED
          BY <4>3, <5>1 DEF StateShape
      <4>5. file' = [file EXCEPT ![Dir[p]] = t]
        BY <3>2 DEF TypeInv, s
      <4> HIDE DEF t
      <4>6. file' \in [Dirs -> StateShape]
        BY <4>4, <4>5 DEF TypeInv
      <4>7. QED
        BY <3>2, <4>6 DEF TypeInv
    <3>3. QED
      BY <1>3, <3>1, <3>2, Enqueued DEF SyncPush
  <2>2. force' \in [Procs -> BOOLEAN]
    BY <1>3, ForceAssumption DEF SyncPush, TypeInv
  <2>3. QED
    BY <1>3, <2>1, <2>2 DEF SyncPush, At, TypeInv
<1>4. ASSUME NEW p \in Procs, Drain(p) PROVE TypeInv'
  <2>1. PICK ready : DrainReady(p, ready)
    BY <1>4 DEF Drain
  <2>2. CASE Ends(p)
    BY <2>1, <2>2, EndsTypes DEF DrainReady
  <2>3. CASE ~Ends(p)
    <3> DEFINE due == Due(file[Dir[p]].pending, ready)
    <3>1. due \in SUBSET Nat
      <4>1. file[Dir[p]].pending \in Seq(JobShape)
        BY DEF TypeInv, StateShape
      <4>2. Range(file[Dir[p]].pending) \subseteq JobShape
        BY <4>1, RangeOfSeq
      <4>3. QED
        BY <4>2 DEF Due, JobShape
    <3>2. /\ pc' = [pc EXCEPT ![p] = "drain"]
          /\ mem' = [mem EXCEPT ![p] = file[Dir[p]]]
          /\ todo' = [todo EXCEPT ![p] = due]
          /\ UNCHANGED <<local, file, force, answer, cloud, jobs>>
      BY <2>1, <2>3 DEF DrainReady
    <3> HIDE DEF due
    <3>3. QED
      BY <3>1, <3>2 DEF TypeInv
  <2>4. QED
    BY <2>2, <2>3
<1>5. ASSUME NEW p \in Procs, GetState(p) PROVE TypeInv'
  BY <1>5 DEF GetState, TypeInv
<1>6. ASSUME NEW p \in Procs, Conflict(p) \/ PushRejected(p) \/ Drained(p) PROVE TypeInv'
  BY <1>6, EndsTypes DEF Conflict, PushRejected, Drained
<1>7. ASSUME NEW p \in Procs, PushApplied(p) PROVE TypeInv'
  <2>1. PICK job \in Current(p), next \in Config, entry \in Pushed : Adds(p, job, next, entry)
    BY <1>7, Applied
  <2>2. history' = Append(history, next) /\ log' = Append(log, entry)
    BY <2>1 DEF Adds
  <2>3. /\ history' \in Seq(Config) /\ log' \in Seq(Pushed)
        /\ Len(history') = Len(log') + 1
    BY <2>2, AppendProperties DEF TypeInv
  <2>4. answer' \in [Procs -> [rev : Nat, base : Config]]
    BY <2>1 DEF Adds, Answered, TypeInv, Revision
  <2>5. QED
    BY <2>1, <2>3, <2>4 DEF Adds, Answered, TypeInv
<1>8. ASSUME NEW p \in Procs, PushRepeated(p) PROVE TypeInv'
  <2>1. PICK r \in DOMAIN log : Answered(p, r, Resources(r)) /\ UNCHANGED <<local, file, cloud, counters>>
    BY <1>8 DEF PushRepeated, Made
  <2>2. r \in Nat /\ Resources(r) \in Config
    BY DEF TypeInv, Resources
  <2>3. QED
    BY <2>1, <2>2 DEF Answered, TypeInv
<1>9. ASSUME NEW p \in Procs, Ack(p) PROVE TypeInv'
  <2>1. PICK job \in Current(p) :
            /\ Save(p, Acked(mem[p], job, answer[p]))
            /\ todo' = [todo EXCEPT ![p] = @ \ {job.id}]
    BY <1>9 DEF Ack
  <2>2. mem[p] \in StateShape /\ answer[p] \in [rev : Nat, base : Config]
    BY DEF TypeInv
  <2>3. Acked(mem[p], job, answer[p]) \in StateShape
    BY <2>2, CurrentQueued, AckedState
  <2>4. QED
    BY <1>9, <2>1, <2>3, SaveTypes DEF Ack, At
<1>10. ASSUME NEW p \in Procs, NEW limit, JobFails(p, limit) PROVE TypeInv'
  <2>1. PICK job \in Current(p) :
            /\ Save(p, MarkFailed(mem[p], job, limit))
            /\ todo' = [todo EXCEPT ![p] = @ \ {job.id}]
    BY <1>10 DEF JobFails
  <2>2. MarkFailed(mem[p], job, limit) \in StateShape
    BY CurrentQueued, FailedState DEF TypeInv
  <2>3. QED
    BY <1>10, <2>1, <2>2, SaveTypes DEF JobFails
<1>11. ASSUME NEW p \in Procs, PullStart(p) PROVE TypeInv'
  BY <1>11 DEF PullStart, At, TypeInv
<1>12. ASSUME NEW p \in Procs, PullFetch(p) PROVE TypeInv'
  <2>1. Resources(Revision) \in Config /\ Revision \in Nat
    BY DEF TypeInv, Resources, Revision
  <2>2. [mem[p] EXCEPT !.rev = Revision, !.base = Resources(Revision)] \in StateShape
    BY <2>1 DEF TypeInv, StateShape
  <2>3. QED
    BY <1>12, <2>2 DEF PullFetch, At, TypeInv
<1>13. ASSUME NEW p \in Procs, PullWrite(p) \/ Stop(p) PROVE TypeInv'
  BY <1>13, EndsTypes DEF PullWrite, Stop
<1>14. QED
  BY <1>1, <1>2, <1>3, <1>4, <1>5, <1>6, <1>7, <1>8, <1>9, <1>10, <1>11, <1>12, <1>13
     DEF Next, Sync, Push, Pull, Unreachable, Refused

-----------------------------------------------------------------------------
(* Jobs.  A job has the key it got when it was queued, and its changes are *)
(* what leads from the revision it is based on to its goal, wherever the   *)
(* job is copied to.                                                       *)

Sound(job, h) ==
    /\ job.key = job.id
    /\ job.base < Len(h)
    /\ job.changes = Diff(h[job.base + 1], job.goal)

SoundQueue(q, h) == \A job \in Range(q) : Sound(job, h)

JobInv ==
    /\ \A d \in Dirs : SoundQueue(file[d].pending, history)
    /\ \A p \in Procs : SoundQueue(mem[p].pending, history)

\* What Cloud has applied: every key once, and the goal of what was not forced.
LogInv ==
    /\ \A r \in DOMAIN log : /\ log[r].key = log[r].id
                             /\ ~log[r].forced => history[r + 1] = log[r].goal
    /\ \A r, s \in DOMAIN log : log[r].key = log[s].key => r = s

\* Applying the difference of two configurations to the first makes the second.
LEMMA DiffApplied ==
    ASSUME NEW c \in Config, NEW e \in Config
    PROVE  Apply(Diff(c, e), c) = e
BY DEF Apply, Diff, Config

\* The queues in the files and in the processes are sequences of jobs.
LEMMA QueueShapes ==
    ASSUME TypeInv
    PROVE  /\ \A d \in Dirs : /\ file[d].pending \in Seq(JobShape)
                              /\ Range(file[d].pending) \subseteq JobShape
           /\ \A p \in Procs : /\ mem[p].pending \in Seq(JobShape)
                               /\ Range(mem[p].pending) \subseteq JobShape
<1>1. /\ \A d \in Dirs : file[d].pending \in Seq(JobShape)
      /\ \A p \in Procs : mem[p].pending \in Seq(JobShape)
  BY DEF TypeInv, StateShape
<1>2. QED
  BY <1>1, RangeOfSeq

\* Cloud only adds revisions, and a sound job stays so.
LEMMA SoundLonger ==
    ASSUME NEW h \in Seq(Config), NEW c \in Config, NEW job \in JobShape, Sound(job, h)
    PROVE  Sound(job, Append(h, c))
<1>1. job.base \in Nat /\ job.base < Len(h) /\ Len(h) \in Nat
  BY DEF Sound, JobShape
<1>2. job.base + 1 \in 1..Len(h)
  BY <1>1
<1>3. Len(Append(h, c)) = Len(h) + 1 /\ Append(h, c)[job.base + 1] = h[job.base + 1]
  BY <1>2, AppendProperties
<1>4. QED
  BY <1>1, <1>3 DEF Sound

\* The empty queue, a queue without a job, and one with a further sound job.
LEMMA SoundQueues ==
    ASSUME NEW h, NEW q \in Seq(JobShape), SoundQueue(q, h)
    PROVE  /\ SoundQueue(<<>>, h)
           /\ \A job \in Range(q) : SoundQueue(Without(q, job), h)
           /\ \A job \in JobShape : Sound(job, h) => SoundQueue(Append(q, job), h)
<1>1. Range(<<>>) = {}
  BY DEF Range
<1>2. QED
  BY <1>1, WithoutOne, AppendOne DEF SoundQueue

\* Nothing is queued and nothing has been pushed.
LEMMA JobInit == Init => JobInv /\ LogInv
<1> SUFFICES ASSUME Init PROVE JobInv /\ LogInv
    OBVIOUS
<1>1. Range(<<>>) = {}
  BY DEF Range
<1>2. /\ \A d \in Dirs : file[d].pending = <<>>
      /\ \A p \in Procs : mem[p].pending = <<>>
      /\ DOMAIN log = {}
  BY DEF Init, Default
<1>3. QED
  BY <1>1, <1>2 DEF JobInv, LogInv, SoundQueue

\* Only a push that is applied changes Cloud.
LEMMA CloudSteps == [Next]_vars => UNCHANGED cloud \/ \E p \in Procs : PushApplied(p)
<1> SUFFICES ASSUME [Next]_vars PROVE UNCHANGED cloud \/ \E p \in Procs : PushApplied(p)
    OBVIOUS
<1>1. CASE UNCHANGED vars
  BY <1>1 DEF vars
<1>2. ASSUME NEW d \in Dirs, Edit(d) PROVE UNCHANGED cloud
  BY <1>2 DEF Edit
<1>3. ASSUME NEW p \in Procs, Sync(p), ~PushApplied(p) PROVE UNCHANGED cloud
  BY <1>3 DEF Sync, SyncPush, Drain, DrainReady, GetState, Conflict, Push, PushRepeated,
     PushRejected, Ack, Drained
<1>4. ASSUME NEW p \in Procs, Pull(p) \/ Unreachable(p) \/ Refused(p) \/ Stop(p)
      PROVE  UNCHANGED cloud
  BY <1>4 DEF Pull, PullStart, PullFetch, PullWrite, Unreachable, Refused, JobFails, Stop
<1>5. QED
  BY <1>1, <1>2, <1>3, <1>4 DEF Next

\* A push adds what keeps the log right: its key is new, and unless it is forced it
\* is based on the last revision, so that its changes make its goal.
LEMMA LogNext ==
    ASSUME TypeInv, JobInv, LogInv, [Next]_vars
    PROVE  LogInv'
<1>1. CASE UNCHANGED cloud
  BY <1>1 DEF LogInv
<1>2. ASSUME NEW p \in Procs, PushApplied(p) PROVE LogInv'
  <2>1. PICK job \in Current(p), next \in Config, entry \in Pushed : Adds(p, job, next, entry)
    BY <1>2, Applied
  <2>2. /\ log \in Seq(Pushed) /\ history \in Seq(Config)
        /\ Len(log) \in Nat /\ Len(history) = Len(log) + 1
        /\ DOMAIN log = 1..Len(log)
    BY DEF TypeInv
  <2>3. /\ Len(log') = Len(log) + 1 /\ DOMAIN log' = 1..(Len(log) + 1)
        /\ \A r \in 1..Len(log) : log'[r] = log[r]
        /\ log'[Len(log) + 1] = entry
    BY <2>1, <2>2, AppendProperties DEF Adds
  <2>4. /\ \A r \in 1..Len(history) : history'[r] = history[r]
        /\ history'[Len(history) + 1] = next
    BY <2>1, <2>2, AppendProperties DEF Adds
  <2>5. Sound(job, history)
    BY <2>1, CurrentQueued DEF JobInv, SoundQueue
  <2>6. entry.key = entry.id /\ entry.key = job.key
    BY <2>1, <2>5 DEF Adds, Sound
  <2>7. ~entry.forced => next = entry.goal
    <3>1. SUFFICES ASSUME ~entry.forced PROVE next = entry.goal
      OBVIOUS
    <3>2. job.base = Revision
      BY <2>1, <3>1 DEF Adds, MayPush, BaseRevision
    <3>3. job.changes = Diff(Resources(Revision), job.goal)
      BY <2>5, <3>2 DEF Sound, Resources
    <3>4. Resources(Revision) \in Config /\ job.goal \in Config
      BY <2>1, <2>2 DEF Adds, JobShape, Resources, Revision
    <3>5. QED
      BY <2>1, <3>3, <3>4, DiffApplied DEF Adds
  <2>8. \A r \in 1..Len(log) : log[r].key # entry.key
    BY <2>1, <2>2, <2>6 DEF Adds, Made
  <2>9. ASSUME NEW r \in DOMAIN log'
        PROVE  log'[r].key = log'[r].id /\ (~log'[r].forced => history'[r + 1] = log'[r].goal)
    <3>1. CASE r = Len(log) + 1
      BY <2>2, <2>3, <2>4, <2>6, <2>7, <3>1
    <3>2. CASE r \in 1..Len(log)
      <4>1. r + 1 \in 1..Len(history)
        BY <2>2, <3>2
      <4>2. QED
        BY <2>2, <2>3, <2>4, <3>2, <4>1 DEF LogInv
    <3>3. QED
      BY <2>2, <2>3, <3>1, <3>2
  <2>10. ASSUME NEW r \in DOMAIN log', NEW s \in DOMAIN log', log'[r].key = log'[s].key
         PROVE  r = s
    <3>1. r \in 1..Len(log) \/ r = Len(log) + 1
      BY <2>2, <2>3
    <3>2. s \in 1..Len(log) \/ s = Len(log) + 1
      BY <2>2, <2>3
    <3>3. QED
      BY <2>2, <2>3, <2>8, <2>10, <3>1, <3>2 DEF LogInv
  <2>11. QED
    BY <2>9, <2>10 DEF LogInv
<1>3. QED
  BY <1>1, <1>2, CloudSteps

\* A process that ends forgets its queue; the file is as it was, or is the copy.
LEMMA JobsEnd ==
    ASSUME TypeInv, JobInv, NEW p \in Procs, Ends(p), UNCHANGED cloud,
           file' = file \/ file' = [file EXCEPT ![Dir[p]] = mem[p]]
    PROVE  JobInv'
<1>1. SoundQueue(Default.pending, history)
  <2>1. Range(<<>>) = {}
    BY DEF Range
  <2>2. QED
    BY <2>1 DEF SoundQueue, Default
<1>2. \A d \in Dirs : SoundQueue(file'[d].pending, history)
  BY DEF TypeInv, JobInv
<1>3. \A q \in Procs : SoundQueue(mem'[q].pending, history)
  BY <1>1 DEF TypeInv, JobInv, Ends
<1>4. QED
  BY <1>2, <1>3 DEF JobInv

\* A copy with sound jobs may be written back.
LEMMA JobsSave ==
    ASSUME TypeInv, JobInv, NEW p \in Procs, NEW s, SoundQueue(s.pending, history), Save(p, s),
           UNCHANGED cloud
    PROVE  JobInv'
BY DEF TypeInv, JobInv, Save

\* Every action keeps the jobs sound: what is queued is the difference from the baseline,
\* which is what Cloud held at the revision the job names.
LEMMA JobNext ==
    ASSUME TypeInv, BaselineInv, JobInv, [Next]_vars
    PROVE  JobInv'
<1> USE DirAssumption
<1>1. CASE UNCHANGED vars
  BY <1>1 DEF vars, JobInv
<1>2. ASSUME NEW d \in Dirs, Edit(d) PROVE JobInv'
  BY <1>2 DEF Edit, JobInv
<1>3. ASSUME NEW p \in Procs, SyncPush(p) PROVE JobInv'
  <2> DEFINE d == Dir[p]
  <2>1. d \in Dirs /\ UNCHANGED <<mem, cloud>>
    BY <1>3 DEF SyncPush
  <2> HIDE DEF d
  <2>2. CASE UNCHANGED file
    BY <2>1, <2>2 DEF JobInv
  <2>3. ASSUME NEW job \in JobShape, file' = [file EXCEPT ![d].pending = Append(@, job)],
               job = [id |-> jobs + 1, key |-> jobs + 1, base |-> file[d].rev,
                      changes |-> Diff(file[d].base, local[d]), goal |-> local[d], tries |-> 0]
        PROVE  JobInv'
    <3>1. Right(file[d], history)
      BY <2>1 DEF BaselineInv, FilesRight, RightState
    <3>2. Sound(job, history)
      BY <2>3, <3>1 DEF Sound, Right
    <3>3. file[d].pending \in Seq(JobShape) /\ SoundQueue(file[d].pending, history)
      BY <2>1, QueueShapes DEF JobInv
    <3>4. SoundQueue(Append(file[d].pending, job), history)
      BY <3>2, <3>3, SoundQueues
    <3>5. /\ file'[d].pending = Append(file[d].pending, job)
          /\ \A c \in Dirs : c # d => file'[c] = file[c]
      BY <2>1, <2>3 DEF TypeInv, StateShape
    <3>6. QED
      BY <2>1, <3>4, <3>5 DEF JobInv
  <2>4. QED
    BY <1>3, <2>1, <2>2, <2>3, Enqueued DEF SyncPush, d
<1>4. ASSUME NEW p \in Procs, Drain(p) PROVE JobInv'
  <2>1. PICK ready : DrainReady(p, ready)
    BY <1>4 DEF Drain
  <2>2. CASE Ends(p)
    BY <2>1, <2>2, JobsEnd DEF DrainReady
  <2>3. CASE ~Ends(p)
    <3>1. mem' = [mem EXCEPT ![p] = file[Dir[p]]] /\ UNCHANGED <<file, cloud>>
      BY <2>1, <2>3 DEF DrainReady
    <3>2. \A q \in Procs : mem'[q] = mem[q] \/ mem'[q] = file[Dir[p]]
      BY <3>1 DEF TypeInv
    <3>3. QED
      BY <3>1, <3>2 DEF JobInv
  <2>4. QED
    BY <2>2, <2>3
<1>5. ASSUME NEW p \in Procs, GetState(p) \/ PushRepeated(p) PROVE JobInv'
  BY <1>5 DEF GetState, PushRepeated, Answered, JobInv
<1>6. ASSUME NEW p \in Procs,
             Conflict(p) \/ PushRejected(p) \/ Drained(p) \/ PullWrite(p) \/ Stop(p)
      PROVE  JobInv'
  BY <1>6, JobsEnd DEF Conflict, PushRejected, Drained, PullWrite, Stop
<1>7. ASSUME NEW p \in Procs, PushApplied(p) PROVE JobInv'
  <2>1. PICK next \in Config : history' = Append(history, next) /\ UNCHANGED <<file, mem>>
    BY <1>7, Applied DEF Adds, Answered
  <2>2. ASSUME NEW q, Range(q) \subseteq JobShape, SoundQueue(q, history)
        PROVE  SoundQueue(q, history')
    BY <2>1, <2>2, SoundLonger DEF SoundQueue, TypeInv
  <2>3. QED
    BY <2>1, <2>2, QueueShapes DEF JobInv
<1>8. ASSUME NEW p \in Procs, Ack(p) PROVE JobInv'
  <2>1. PICK job \in Current(p) : Save(p, Acked(mem[p], job, answer[p]))
    BY <1>8 DEF Ack
  <2>2. job \in Range(mem[p].pending)
    BY CurrentQueued
  <2>3. Acked(mem[p], job, answer[p]).pending = Without(mem[p].pending, job)
    BY <2>2, AckedState DEF TypeInv
  <2>4. SoundQueue(Without(mem[p].pending, job), history)
    BY <2>2, QueueShapes, SoundQueues DEF JobInv
  <2>5. QED
    BY <1>8, <2>1, <2>3, <2>4, JobsSave DEF Ack
<1>9. ASSUME NEW p \in Procs, NEW limit, JobFails(p, limit) PROVE JobInv'
  <2>1. PICK job \in Current(p) : Save(p, MarkFailed(mem[p], job, limit))
    BY <1>9 DEF JobFails
  <2> DEFINE q == Without(mem[p].pending, job)
             s == MarkFailed(mem[p], job, limit)
  <2>2. job \in Range(mem[p].pending) /\ job \in JobShape /\ Sound(job, history)
    BY CurrentQueued, QueueShapes DEF JobInv, SoundQueue
  <2>3. q \in Seq(JobShape) /\ SoundQueue(q, history)
    BY <2>2, QueueShapes, WithoutOne, SoundQueues DEF JobInv
  <2>4. Again(job) \in JobShape /\ Sound(Again(job), history)
    BY <2>2, AgainShape DEF Sound
  <2>5. s.pending = q \/ s.pending = Append(q, Again(job))
    BY <2>2, FailedState DEF TypeInv
  <2>6. Save(p, s)
    BY <2>1
  <2> HIDE DEF q, s
  <2>7. SoundQueue(s.pending, history)
    BY <2>3, <2>4, <2>5, SoundQueues
  <2>8. QED
    BY <1>9, <2>6, <2>7, JobsSave DEF JobFails
<1>10. ASSUME NEW p \in Procs, PullStart(p) PROVE JobInv'
  BY <1>10 DEF PullStart, JobInv, TypeInv
<1>11. ASSUME NEW p \in Procs, PullFetch(p) PROVE JobInv'
  <2>1. /\ \A q \in Procs : mem'[q].pending = mem[q].pending
        /\ UNCHANGED <<file, cloud>>
    BY <1>11 DEF PullFetch, TypeInv, StateShape
  <2>2. QED
    BY <2>1 DEF JobInv
<1>12. QED
  BY <1>1, <1>2, <1>3, <1>4, <1>5, <1>6, <1>7, <1>8, <1>9, <1>10, <1>11
     DEF Next, Sync, Push, Pull, Unreachable, Refused

-----------------------------------------------------------------------------
(* What Cloud ends up with.                                                *)

QueueInv == TypeInv /\ BaselineInv /\ JobInv /\ LogInv

LEMMA QueueInit == Init => QueueInv
BY TypeInit, BaselineInit, JobInit DEF QueueInv

LEMMA QueueNext == QueueInv /\ [Next]_vars => QueueInv'
BY TypeNext, BaselineNext, JobNext, LogNext DEF QueueInv

\* However often a job is retried, repeated or queued in another copy of the state,
\* Cloud applies it once (sync-engine.ts:137, 209, queue.ts:31-56): for any
\* directories, processes, resources and limits.
THEOREM JobsAreAppliedOnce == Spec => []AppliedOnce
<1>1. QueueInv => AppliedOnce
  BY DEF QueueInv, LogInv, AppliedOnce
<1>2. QED
  BY <1>1, QueueInit, QueueNext, PTL DEF Spec

\* What was not forced is the configuration its directory had when the job was made,
\* whole, whatever others have pushed in between (sync-engine.ts:130-146, 189-210,
\* diff.ts:14-41): for any directories, processes, resources and limits.
THEOREM ConfigsAreWhole == Spec => []WholeConfigs
<1>1. QueueInv => WholeConfigs
  BY DEF QueueInv, LogInv, WholeConfigs, Resources
<1>2. QED
  BY <1>1, QueueInit, QueueNext, PTL DEF Spec

-----------------------------------------------------------------------------
(* One process in each directory.  Then nobody else writes the state file  *)
(* while a process works on its copy, the queue of the copy is the queue   *)
(* of the file, and an acknowledgement takes off a job that Cloud has.     *)

OneEach == \A p, q \in Procs : Dir[p] = Dir[q] => p = q

SameQueue(s, t) == s.pending = t.pending /\ s.dead = t.dead

LogIds == {log[r].id : r \in DOMAIN log}

InStep(p) ==
    /\ pc[p] \notin {"idle", "queued"} => SameQueue(mem[p], file[Dir[p]])
    /\ pc[p] = "answered" => \A job \in Current(p) : job.id \in LogIds

CopyInv == \A p \in Procs : InStep(p)

\* There is one job at work, the first that is to be done.
LEMMA CurrentOne ==
    ASSUME TypeInv, NEW p \in Procs, NEW j \in Current(p), NEW k \in Current(p)
    PROVE  j = k
<1> DEFINE q == mem[p].pending
           First(i) == q[i].id \in todo[p] /\ \A h \in 1..(i - 1) : q[h].id \notin todo[p]
<1>1. q \in Seq(JobShape)
  BY QueueShapes
<1>2. PICK m \in DOMAIN q : j = q[m] /\ First(m)
  BY DEF Current
<1>3. PICK n \in DOMAIN q : k = q[n] /\ First(n)
  BY DEF Current
<1>4. m \in Nat /\ n \in Nat /\ 1 <= m /\ 1 <= n
  BY <1>1
<1> HIDE DEF q
<1>5. ~(m < n) /\ ~(n < m)
  BY <1>2, <1>3, <1>4
<1>6. QED
  BY <1>2, <1>3, <1>4, <1>5

\* A push that is applied is in the log, with all that was there.
LEMMA JobLogged ==
    ASSUME TypeInv, NEW p \in Procs, NEW job, NEW next \in Config, NEW entry \in Pushed,
           Adds(p, job, next, entry)
    PROVE  LogIds \subseteq LogIds' /\ job.id \in LogIds'
<1>1. /\ log \in Seq(Pushed) /\ Len(log) \in Nat /\ DOMAIN log = 1..Len(log)
      /\ log' = Append(log, entry) /\ entry.id = job.id
  BY DEF TypeInv, Adds
<1>2. /\ DOMAIN log' = 1..(Len(log) + 1)
      /\ \A r \in 1..Len(log) : log'[r] = log[r]
      /\ log'[Len(log) + 1] = entry
  BY <1>1, AppendProperties
<1>3. DOMAIN log \subseteq DOMAIN log' /\ Len(log) + 1 \in DOMAIN log'
  BY <1>1, <1>2
<1>4. QED
  BY <1>1, <1>2, <1>3 DEF LogIds

LEMMA LogGrows ==
    ASSUME TypeInv, [Next]_vars
    PROVE  LogIds \subseteq LogIds'
<1>1. CASE UNCHANGED cloud
  BY <1>1 DEF LogIds
<1>2. ASSUME NEW p \in Procs, PushApplied(p) PROVE LogIds \subseteq LogIds'
  BY <1>2, Applied, JobLogged
<1>3. QED
  BY <1>1, <1>2, CloudSteps

\* A step of a process touches its own directory and leaves the others in step.
LEMMA OthersInStep ==
    ASSUME OneEach, CopyInv, NEW p \in Procs, LogIds \subseteq LogIds', InStep(p)',
           \A d \in Dirs \ {Dir[p]} : file'[d] = file[d],
           \A q \in Procs \ {p} : pc'[q] = pc[q] /\ mem'[q] = mem[q] /\ todo'[q] = todo[q]
    PROVE  CopyInv'
<1>1. ASSUME NEW q \in Procs, q # p PROVE InStep(q)'
  <2>1. Dir[q] \in Dirs \ {Dir[p]}
    BY <1>1, DirAssumption DEF OneEach
  <2>2. /\ pc'[q] = pc[q] /\ mem'[q] = mem[q] /\ todo'[q] = todo[q]
        /\ file'[Dir[q]] = file[Dir[q]]
    BY <1>1, <2>1
  <2>3. Current(q)' = Current(q)
    BY <2>2 DEF Current
  <2>4. QED
    BY <2>2, <2>3 DEF CopyInv, InStep, SameQueue
<1>2. QED
  BY <1>1 DEF CopyInv

LEMMA CopyInit == Init => CopyInv
BY DEF Init, CopyInv, InStep

\* Every action keeps the copies in step with the files.
LEMMA CopyNext ==
    ASSUME OneEach, QueueInv, CopyInv, [Next]_vars
    PROVE  CopyInv'
<1> USE DirAssumption DEF QueueInv
<1>0. LogIds \subseteq LogIds'
  BY LogGrows
<1>1. CASE UNCHANGED <<file, pc, mem, todo>>
  <2>1. \A p \in Procs : Current(p)' = Current(p)
    BY <1>1 DEF Current
  <2>2. QED
    BY <1>0, <1>1, <2>1 DEF CopyInv, InStep, SameQueue
<1>2. ASSUME NEW p \in Procs, Ends(p), file' = file \/ file' = [file EXCEPT ![Dir[p]] = mem[p]]
      PROVE  CopyInv'
  <2>1. InStep(p)'
    BY <1>2 DEF Ends, InStep, TypeInv
  <2>2. QED
    BY <1>0, <1>2, <2>1, OthersInStep DEF Ends, TypeInv
<1>3. ASSUME NEW p \in Procs, SyncPush(p) PROVE CopyInv'
  <2>1. pc' = [pc EXCEPT ![p] = "queued"] /\ UNCHANGED <<mem, todo>>
    BY <1>3 DEF SyncPush, At
  <2>2. \A d \in Dirs \ {Dir[p]} : file'[d] = file[d]
    BY <1>3, Enqueued DEF SyncPush, TypeInv
  <2>3. InStep(p)'
    BY <2>1 DEF InStep, TypeInv
  <2>4. QED
    BY <1>0, <2>1, <2>2, <2>3, OthersInStep DEF TypeInv
<1>4. ASSUME NEW p \in Procs, Drain(p) PROVE CopyInv'
  <2>1. PICK ready : DrainReady(p, ready)
    BY <1>4 DEF Drain
  <2>2. CASE Ends(p)
    BY <1>2, <2>1, <2>2 DEF DrainReady
  <2>3. CASE ~Ends(p)
    <3>1. PICK due : /\ pc' = [pc EXCEPT ![p] = "drain"]
                     /\ mem' = [mem EXCEPT ![p] = file[Dir[p]]]
                     /\ todo' = [todo EXCEPT ![p] = due]
                     /\ UNCHANGED file
      BY <2>1, <2>3 DEF DrainReady
    <3>2. InStep(p)'
      BY <3>1 DEF InStep, SameQueue, TypeInv
    <3>3. QED
      BY <1>0, <3>1, <3>2, OthersInStep DEF TypeInv
  <2>4. QED
    BY <2>2, <2>3
<1>5. ASSUME NEW p \in Procs, PushApplied(p) \/ PushRepeated(p) PROVE CopyInv'
  <2>1. PICK job \in Current(p) : Working(p, job) /\ job.id \in LogIds'
    <3>1. CASE PushApplied(p)
      <4>1. PICK job \in Current(p), next \in Config, entry \in Pushed : Adds(p, job, next, entry)
        BY <3>1, Applied
      <4>2. QED
        BY <4>1, JobLogged DEF Adds, MayPush
    <3>2. CASE PushRepeated(p)
      <4>1. PICK job \in Current(p) : MayPush(p, job) /\ \E r \in DOMAIN log : log[r].key = job.key
        BY <3>2 DEF PushRepeated, Made
      <4>2. job.key = job.id
        BY CurrentQueued DEF JobInv, SoundQueue, Sound
      <4>3. job.id \in LogIds
        BY <4>1, <4>2 DEF LogInv, LogIds
      <4>4. QED
        BY <1>0, <4>1, <4>3 DEF MayPush
    <3>3. QED
      BY <1>5, <3>1, <3>2
  <2>2. pc' = [pc EXCEPT ![p] = "answered"] /\ UNCHANGED <<file, mem, todo>>
    BY <1>5 DEF PushApplied, PushRepeated, Answered
  <2>3. Current(p)' = Current(p) /\ \A j \in Current(p) : j.id \in LogIds'
    BY <2>1, <2>2, CurrentOne DEF Current
  <2>4. SameQueue(mem[p], file[Dir[p]])
    BY <2>1 DEF CopyInv, InStep, Working
  <2>5. InStep(p)'
    BY <2>2, <2>3, <2>4 DEF InStep, SameQueue
  <2>6. QED
    BY <1>0, <2>2, <2>5, OthersInStep DEF TypeInv
<1>6. ASSUME NEW p \in Procs, NEW s, NEW id, Save(p, s), pc' = [pc EXCEPT ![p] = "drain"],
             todo' = [todo EXCEPT ![p] = @ \ {id}]
      PROVE  CopyInv'
  <2>1. mem'[p] = s /\ file'[Dir[p]] = s /\ pc'[p] = "drain"
    BY <1>6 DEF Save, TypeInv
  <2>2. InStep(p)'
    BY <2>1 DEF InStep, SameQueue
  <2>3. QED
    BY <1>0, <1>6, <2>2, OthersInStep DEF Save, TypeInv
<1>7. ASSUME NEW p \in Procs, Ack(p) PROVE CopyInv'
  BY <1>6, <1>7 DEF Ack, At
<1>8. ASSUME NEW p \in Procs, NEW limit, JobFails(p, limit) PROVE CopyInv'
  BY <1>6, <1>8 DEF JobFails
<1>9. ASSUME NEW p \in Procs, PullStart(p) PROVE CopyInv'
  <2>1. InStep(p)'
    BY <1>9 DEF PullStart, At, InStep, SameQueue, TypeInv
  <2>2. QED
    BY <1>0, <1>9, <2>1, OthersInStep DEF PullStart, At, TypeInv
<1>10. ASSUME NEW p \in Procs, PullFetch(p) PROVE CopyInv'
  <2>1. SameQueue(mem[p], file[Dir[p]])
    BY <1>10 DEF PullFetch, At, CopyInv, InStep
  <2>2. mem'[p].pending = mem[p].pending /\ mem'[p].dead = mem[p].dead
    BY <1>10 DEF PullFetch, TypeInv, StateShape
  <2>3. pc'[p] = "pulled" /\ UNCHANGED file
    BY <1>10 DEF PullFetch, At, TypeInv
  <2>4. InStep(p)'
    BY <2>1, <2>2, <2>3 DEF InStep, SameQueue
  <2>5. QED
    BY <1>0, <1>10, <2>4, OthersInStep DEF PullFetch, At, TypeInv
<1>11. QED
  <2>1. ASSUME NEW p \in Procs, Conflict(p) \/ PushRejected(p) \/ Drained(p) \/ PullWrite(p) \/ Stop(p)
        PROVE  CopyInv'
    BY <1>2, <2>1 DEF Conflict, PushRejected, Drained, PullWrite, Stop
  <2>2. ASSUME NEW p \in Procs, GetState(p) PROVE CopyInv'
    BY <1>1, <2>2 DEF GetState
  <2>3. ASSUME NEW d \in Dirs, Edit(d) PROVE CopyInv'
    BY <1>1, <2>3 DEF Edit
  <2>4. CASE UNCHANGED vars
    BY <1>1, <2>4 DEF vars
  <2>5. QED
    BY <1>3, <1>4, <1>5, <1>7, <1>8, <1>9, <1>10, <2>1, <2>2, <2>3, <2>4
       DEF Next, Sync, Push, Pull, Unreachable, Refused

-----------------------------------------------------------------------------
(* Jobs are not lost.                                                      *)

\* The steps that touch a state file, Cloud or the number of jobs.
Touches(p) ==
    \/ SyncPush(p) \/ PushApplied(p) \/ Ack(p) \/ PullWrite(p)
    \/ \E limit : JobFails(p, limit)

LEMMA QuietSteps == [Next]_vars => UNCHANGED <<file, cloud, jobs>> \/ \E p \in Procs : Touches(p)
<1> SUFFICES ASSUME [Next]_vars
             PROVE  UNCHANGED <<file, cloud, jobs>> \/ \E p \in Procs : Touches(p)
    OBVIOUS
<1>1. CASE UNCHANGED vars
  BY <1>1 DEF vars
<1>2. ASSUME NEW d \in Dirs, Edit(d) PROVE UNCHANGED <<file, cloud, jobs>>
  BY <1>2 DEF Edit
<1>3. ASSUME NEW p \in Procs, Sync(p), ~Touches(p) PROVE UNCHANGED <<file, cloud, jobs>>
  BY <1>3 DEF Touches, Sync, Drain, DrainReady, GetState, Conflict, Push, PushRepeated,
     PushRejected, Drained
<1>4. ASSUME NEW p \in Procs, Pull(p) \/ Stop(p), ~Touches(p)
      PROVE  UNCHANGED <<file, cloud, jobs>>
  BY <1>4 DEF Touches, Pull, PullStart, PullFetch, Stop
<1>5. ASSUME NEW p \in Procs, Unreachable(p) \/ Refused(p) PROVE Touches(p)
  BY <1>5 DEF Touches, Unreachable, Refused
<1>6. QED
  BY <1>1, <1>2, <1>3, <1>4, <1>5 DEF Next

HeldIn(d) == Queued(d) \cup file[d].dead

\* What a directory holds stays there or is in the log.
LEMMA KeptByOne ==
    ASSUME JobsKept, NEW d \in Dirs, LogIds \subseteq LogIds', jobs' = jobs,
           \A c \in Dirs \ {d} : file'[c] = file[c],
           HeldIn(d) \subseteq LogIds' \cup HeldIn(d)'
    PROVE  JobsKept'
<1>1. ASSUME NEW c \in Dirs PROVE HeldIn(c) \subseteq LogIds' \cup HeldIn(c)'
  <2>1. CASE c = d
    BY <2>1
  <2>2. CASE c # d
    BY <2>2 DEF HeldIn, Queued
  <2>3. QED
    BY <2>1, <2>2
<1>2. 1..jobs \subseteq LogIds \cup UNION {HeldIn(c) : c \in Dirs}
  BY DEF JobsKept, LogIds, HeldIn
<1>3. 1..jobs' \subseteq LogIds' \cup UNION {HeldIn(c)' : c \in Dirs}
  BY <1>1, <1>2
<1>4. QED
  BY <1>3 DEF JobsKept, LogIds, HeldIn

\* A queue without a job, and a longer one, hold the ids of the others.
LEMMA QueueIds ==
    ASSUME NEW q \in Seq(JobShape), NEW job \in Range(q)
    PROVE  {j.id : j \in Range(q)} \subseteq {j.id : j \in Range(Without(q, job))} \cup {job.id}
BY WithoutOne

LEMMA KeptInit == Init => JobsKept
BY DEF Init, JobsKept

LEMMA KeptNext ==
    ASSUME OneEach, QueueInv, CopyInv, JobsKept, [Next]_vars
    PROVE  JobsKept'
<1> USE DirAssumption DEF QueueInv
<1>0. LogIds \subseteq LogIds'
  BY LogGrows
<1>1. CASE UNCHANGED <<file, cloud, jobs>>
  BY <1>1 DEF JobsKept, Queued
<1>2. ASSUME NEW p \in Procs, SyncPush(p) PROVE JobsKept'
  <2>1. CASE UNCHANGED <<file, jobs>>
    BY <1>1, <1>2, <2>1 DEF SyncPush
  <2>2. ASSUME NEW job \in JobShape, job.id = jobs + 1, jobs' = jobs + 1,
               file' = [file EXCEPT ![Dir[p]].pending = Append(@, job)]
        PROVE  JobsKept'
    <3> DEFINE d == Dir[p]
    <3>1. /\ file'[d].pending = Append(file[d].pending, job) /\ file'[d].dead = file[d].dead
          /\ \A c \in Dirs \ {d} : file'[c] = file[c]
      BY <2>2 DEF TypeInv, StateShape
    <3>2. Range(file'[d].pending) = Range(file[d].pending) \cup {job}
      BY <2>2, <3>1, QueueShapes, AppendOne
    <3>3. \A c \in Dirs : HeldIn(c) \subseteq HeldIn(c)'
      BY <3>1, <3>2 DEF HeldIn, Queued
    <3>4. jobs + 1 \in HeldIn(d)'
      BY <2>2, <3>2 DEF HeldIn, Queued
    <3>5. d \in Dirs
      OBVIOUS
    <3> HIDE DEF d
    <3>6. 1..jobs' = 1..jobs \cup {jobs + 1}
      BY <2>2 DEF TypeInv
    <3>7. 1..jobs \subseteq LogIds \cup UNION {HeldIn(c) : c \in Dirs}
      BY DEF JobsKept, LogIds, HeldIn
    <3>8. 1..jobs' \subseteq LogIds' \cup UNION {HeldIn(c)' : c \in Dirs}
      BY <1>0, <3>3, <3>4, <3>5, <3>6, <3>7
    <3>9. QED
      BY <3>8 DEF JobsKept, LogIds, HeldIn
  <2>3. QED
    BY <1>2, <2>1, <2>2, Enqueued DEF SyncPush
<1>3. ASSUME NEW p \in Procs, PushApplied(p) PROVE JobsKept'
  <2>1. UNCHANGED <<file, jobs>>
    BY <1>3 DEF PushApplied
  <2>2. HeldIn(Dir[p])' = HeldIn(Dir[p])
    BY <2>1 DEF HeldIn, Queued
  <2>3. QED
    BY <1>0, <2>1, <2>2, KeptByOne
<1>4. ASSUME NEW p \in Procs, Ack(p) PROVE JobsKept'
  <2>1. PICK job \in Current(p) : Save(p, Acked(mem[p], job, answer[p])) /\ jobs' = jobs
    BY <1>4 DEF Ack
  <2>2. /\ SameQueue(mem[p], file[Dir[p]])
        /\ job.id \in LogIds
    BY <1>4 DEF Ack, At, CopyInv, InStep
  <2>3. /\ file'[Dir[p]].pending = Without(mem[p].pending, job)
        /\ file'[Dir[p]].dead = mem[p].dead
        /\ \A c \in Dirs \ {Dir[p]} : file'[c] = file[c]
    BY <2>1, CurrentQueued, AckedState DEF Save, TypeInv
  <2>4. HeldIn(Dir[p]) \subseteq HeldIn(Dir[p])' \cup {job.id}
    BY <2>2, <2>3, CurrentQueued, QueueShapes, QueueIds DEF HeldIn, Queued, SameQueue
  <2>5. QED
    BY <1>0, <2>1, <2>2, <2>3, <2>4, KeptByOne
<1>5. ASSUME NEW p \in Procs, NEW limit, JobFails(p, limit) PROVE JobsKept'
  <2>1. PICK job \in Current(p) : Save(p, MarkFailed(mem[p], job, limit)) /\ jobs' = jobs
    BY <1>5 DEF JobFails
  <2> DEFINE q == Without(mem[p].pending, job)
             s == MarkFailed(mem[p], job, limit)
  <2>2. SameQueue(mem[p], file[Dir[p]])
    BY <1>5 DEF JobFails, CopyInv, InStep
  <2>3. job \in Range(mem[p].pending) /\ job \in JobShape /\ mem[p].pending \in Seq(JobShape)
    BY CurrentQueued, QueueShapes
  <2>4. q \in Seq(JobShape) /\ Again(job) \in JobShape /\ Again(job).id = job.id
    BY <2>3, WithoutOne, AgainShape
  <2>5. \/ s.pending = q /\ s.dead = mem[p].dead \cup {job.id}
        \/ s.pending = Append(q, Again(job)) /\ s.dead = mem[p].dead
    BY <2>3, FailedState DEF TypeInv
  <2>6. {j.id : j \in Range(mem[p].pending)} \subseteq {j.id : j \in Range(q)} \cup {job.id}
    BY <2>3, QueueIds
  <2>7. /\ file'[Dir[p]] = s
        /\ \A c \in Dirs \ {Dir[p]} : file'[c] = file[c]
    BY <2>1 DEF Save, TypeInv
  <2> HIDE DEF q, s
  <2>8. \/ Range(s.pending) = Range(q) /\ s.dead = mem[p].dead \cup {job.id}
        \/ Range(s.pending) = Range(q) \cup {Again(job)} /\ s.dead = mem[p].dead
    <3>1. Range(Append(q, Again(job))) = Range(q) \cup {Again(job)}
      BY <2>4, AppendOne
    <3>2. QED
      BY <2>5, <3>1
  <2>9. HeldIn(Dir[p]) \subseteq HeldIn(Dir[p])'
    BY <2>2, <2>4, <2>6, <2>7, <2>8 DEF HeldIn, Queued, SameQueue
  <2>10. QED
    BY <1>0, <2>1, <2>7, <2>9, KeptByOne
<1>6. ASSUME NEW p \in Procs, PullWrite(p) PROVE JobsKept'
  <2>1. SameQueue(mem[p], file[Dir[p]])
    BY <1>6 DEF PullWrite, CopyInv, InStep
  <2>2. /\ file'[Dir[p]] = mem[p] /\ jobs' = jobs
        /\ \A c \in Dirs \ {Dir[p]} : file'[c] = file[c]
    BY <1>6 DEF PullWrite, TypeInv
  <2>3. HeldIn(Dir[p])' = HeldIn(Dir[p])
    BY <2>1, <2>2 DEF HeldIn, Queued, SameQueue
  <2>4. QED
    BY <1>0, <2>2, <2>3, KeptByOne
<1>7. QED
  BY <1>1, <1>2, <1>3, <1>4, <1>5, <1>6, QuietSteps DEF Touches

\* With one process in each directory, a job stays in the queue of its directory until
\* Cloud has applied it or it is put with the dead letters (queue.ts:27-56,
\* sync-engine.ts:212-236): for any directories, resources, limits, failures and kills.
THEOREM JobsAreKept == OneEach => (Spec => []JobsKept)
<1> SUFFICES ASSUME OneEach PROVE Spec => []JobsKept
    OBVIOUS
<1> DEFINE Inv == QueueInv /\ CopyInv /\ JobsKept
<1>1. Init => Inv
  BY QueueInit, CopyInit, KeptInit
<1>2. Inv /\ [Next]_vars => Inv'
  BY QueueNext, CopyNext, KeptNext
<1>3. QED
  BY <1>1, <1>2, PTL DEF Spec

-----------------------------------------------------------------------------
(* The list of versions.  The abstract variables, by name.                 *)

Drafted(q) == {[on |-> job.base, config |-> job.goal] : job \in Range(q)}

Forced == [r \in DOMAIN log |-> log[r].forced]
Seen == [d \in Dirs |-> file[d].rev]
Copy == [d \in Dirs |-> file[d].base]
Drafts == [d \in Dirs |-> Drafted(file[d].pending)]

\* What the steps of the abstract specification are in terms of these names.
LEMMA AbstractSteps ==
    /\ UNCHANGED <<history, Forced, Seen, Copy, Drafts>> <=> UNCHANGED Shared!shared
    /\ \A d \in Dirs :
          /\ (/\ \E c \in Config :
                    Drafts' = [Drafts EXCEPT ![d] = @ \cup {[on |-> Seen[d], config |-> c]}]
              /\ UNCHANGED <<history, Forced, Seen, Copy>>)
             => Shared!Draft(d)
          /\ (/\ \E c \in Config, f \in BOOLEAN :
                    /\ f \/ [on |-> Revision, config |-> c] \in Drafts[d]
                    /\ history' = Append(history, c) /\ Forced' = Append(Forced, f)
              /\ UNCHANGED <<Seen, Copy, Drafts>>)
             => Shared!Publish(d)
          /\ (\E r \in 0..Revision, rest \in SUBSET Drafts[d] :
                 /\ Seen' = [Seen EXCEPT ![d] = r]
                 /\ Copy' = [Copy EXCEPT ![d] = history[r + 1]]
                 /\ Drafts' = [Drafts EXCEPT ![d] = rest]
                 /\ UNCHANGED <<history, Forced>>)
             => Shared!Learn(d)
<1>1. UNCHANGED <<history, Forced, Seen, Copy, Drafts>> <=> UNCHANGED Shared!shared
  BY DEF Shared!shared, Forced, Seen, Copy, Drafts, Drafted
<1>2. ASSUME NEW d \in Dirs, NEW c \in Config,
             Drafts' = [Drafts EXCEPT ![d] = @ \cup {[on |-> Seen[d], config |-> c]}],
             UNCHANGED <<history, Forced, Seen, Copy>>
      PROVE  Shared!Draft(d)
  BY <1>2 DEF Shared!Draft, Forced, Seen, Copy, Drafts, Drafted
<1>3. ASSUME NEW d \in Dirs, NEW c \in Config, NEW f \in BOOLEAN,
             f \/ [on |-> Revision, config |-> c] \in Drafts[d],
             history' = Append(history, c), Forced' = Append(Forced, f),
             UNCHANGED <<Seen, Copy, Drafts>>
      PROVE  Shared!Publish(d)
  BY <1>3 DEF Shared!Publish, Shared!Add, Shared!Last, Revision, Forced, Seen, Copy, Drafts, Drafted
<1>4. ASSUME NEW d \in Dirs, NEW r \in 0..Revision, NEW rest \in SUBSET Drafts[d],
             Seen' = [Seen EXCEPT ![d] = r], Copy' = [Copy EXCEPT ![d] = history[r + 1]],
             Drafts' = [Drafts EXCEPT ![d] = rest], UNCHANGED <<history, Forced>>
      PROVE  Shared!Learn(d)
  BY <1>4 DEF Shared!Learn, Shared!Last, Revision, Forced, Seen, Copy, Drafts, Drafted
<1>5. QED
  BY <1>1, <1>2, <1>3, <1>4

LEMMA FunctionSeq ==
    ASSUME NEW S, NEW n \in Nat, NEW f \in [1..n -> S]
    PROVE  f \in Seq(S) /\ Len(f) = n
OBVIOUS

LEMMA SharedInit == Init => Shared!Init
<1> SUFFICES ASSUME Init PROVE Shared!Init
    OBVIOUS
<1>1. Range(<<>>) = {}
  BY DEF Range
<1>2. history = <<Blank>> /\ [r \in DOMAIN log |-> log[r].forced] = <<>>
  BY DEF Init
<1>3. \A d \in Dirs : file[d].rev = 0 /\ file[d].base = Blank /\ file[d].pending = <<>>
  BY DEF Init, Default
<1>4. QED
  BY <1>1, <1>2, <1>3 DEF Shared!Init

Replaced(d, s) == file'[d] = s /\ \A c \in Dirs \ {d} : file'[c] = file[c]

\* A directory that gets a right state whose queue has no new drafts learns a version.
LEMMA Learns ==
    ASSUME TypeInv, NEW d \in Dirs, NEW s, Replaced(d, s), UNCHANGED cloud,
           Right(s, history), Drafted(s.pending) \subseteq Drafted(file[d].pending)
    PROVE  Shared!Learn(d)
<1>1. s.rev \in 0..Revision /\ s.base = history[s.rev + 1]
  BY DEF Right, Revision, TypeInv
<1>2. /\ Seen' = [Seen EXCEPT ![d] = s.rev]
      /\ Copy' = [Copy EXCEPT ![d] = s.base]
      /\ Drafts' = [Drafts EXCEPT ![d] = Drafted(s.pending)]
  BY DEF Replaced, Seen, Copy, Drafts
<1>3. Drafted(s.pending) \in SUBSET Drafts[d]
  BY DEF Drafts
<1>4. UNCHANGED <<history, Forced>>
  BY DEF Forced
<1>5. QED
  BY <1>1, <1>2, <1>3, <1>4, AbstractSteps

\* Every step is one of the abstract specification, or none.
LEMMA SharedNext ==
    ASSUME OneEach, QueueInv, CopyInv, [Next]_vars
    PROVE  [Shared!Next]_(Shared!shared)
<1> USE DirAssumption DEF QueueInv
<1>1. CASE UNCHANGED <<file, cloud>>
  <2>1. UNCHANGED <<history, Forced, Seen, Copy, Drafts>>
    BY <1>1 DEF Forced, Seen, Copy, Drafts
  <2>2. QED
    BY <2>1, AbstractSteps
<1>2. ASSUME NEW p \in Procs, SyncPush(p), ~UNCHANGED file PROVE Shared!Draft(Dir[p])
  <2> DEFINE d == Dir[p]
  <2>1. PICK job \in JobShape :
            /\ job.base = file[d].rev /\ job.goal = local[d]
            /\ file' = [file EXCEPT ![d].pending = Append(@, job)]
    BY <1>2, Enqueued DEF SyncPush
  <2>2. d \in Dirs /\ UNCHANGED cloud /\ local[d] \in Config
    BY <1>2 DEF SyncPush, TypeInv
  <2> HIDE DEF d
  <2>3. /\ file'[d].pending = Append(file[d].pending, job)
        /\ file'[d].rev = file[d].rev /\ file'[d].base = file[d].base
        /\ \A c \in Dirs \ {d} : file'[c] = file[c]
    BY <2>1, <2>2 DEF TypeInv, StateShape
  <2>4. Range(file'[d].pending) = Range(file[d].pending) \cup {job}
    BY <2>2, <2>3, QueueShapes, AppendOne
  <2>5. Drafted(file'[d].pending)
          = Drafted(file[d].pending) \cup {[on |-> Seen[d], config |-> local[d]]}
    BY <2>1, <2>2, <2>4 DEF Drafted, Seen
  <2>6. Drafts' = [Drafts EXCEPT ![d] = @ \cup {[on |-> Seen[d], config |-> local[d]]}]
    BY <2>2, <2>3, <2>5 DEF Drafts
  <2>7. UNCHANGED <<history, Forced, Seen, Copy>>
    BY <2>2, <2>3 DEF Forced, Seen, Copy
  <2>8. Shared!Draft(d)
    BY <2>2, <2>6, <2>7, AbstractSteps
  <2>9. QED
    BY <2>8 DEF d
<1>3. ASSUME NEW p \in Procs, PushApplied(p) PROVE Shared!Publish(Dir[p])
  <2>1. PICK job \in Current(p), next \in Config, entry \in Pushed : Adds(p, job, next, entry)
    BY <1>3, Applied
  <2>2. /\ history' = Append(history, next) /\ log' = Append(log, entry)
        /\ entry.forced = force[p] /\ force[p] \in BOOLEAN /\ UNCHANGED file
    BY <2>1 DEF Adds, TypeInv
  <2>3. Forced' = Append(Forced, force[p])
    <3>1. /\ log \in Seq(Pushed) /\ Len(log) \in Nat /\ DOMAIN log = 1..Len(log)
          /\ Len(log') = Len(log) + 1 /\ DOMAIN log' = 1..(Len(log) + 1)
          /\ \A r \in 1..Len(log) : log'[r] = log[r]
          /\ log'[Len(log) + 1] = entry
      BY <2>2, AppendProperties DEF TypeInv
    <3>0. \A r \in 1..Len(log) : log[r].forced \in BOOLEAN
      <4>1. \A e \in Pushed : e.forced \in BOOLEAN
        BY DEF Pushed
      <4>2. \A r \in 1..Len(log) : log[r] \in Pushed
        BY <3>1
      <4>3. QED
        BY <4>1, <4>2, Zenon
    <3>2. Forced \in Seq(BOOLEAN) /\ Len(Forced) = Len(log)
      <4>1. Forced \in [1..Len(log) -> BOOLEAN]
        BY <3>1, <3>0 DEF Forced
      <4>2. QED
        BY <3>1, <4>1, FunctionSeq
    <3>3. /\ Append(Forced, force[p]) \in Seq(BOOLEAN)
          /\ Len(Append(Forced, force[p])) = Len(log) + 1
          /\ \A r \in 1..Len(log) : Append(Forced, force[p])[r] = Forced[r]
          /\ Append(Forced, force[p])[Len(log) + 1] = force[p]
      BY <2>2, <3>2, AppendProperties
    <3>4. Forced' \in Seq(BOOLEAN) /\ Len(Forced') = Len(log) + 1
      <4>1. \A r \in 1..(Len(log) + 1) : log'[r].forced \in BOOLEAN
        <5>1. ASSUME NEW r \in 1..(Len(log) + 1) PROVE r \in 1..Len(log) \/ r = Len(log) + 1
          BY <3>1
        <5>2. QED
          BY <2>2, <3>0, <3>1, <5>1
      <4>2. Forced' \in [1..(Len(log) + 1) -> BOOLEAN]
        BY <3>1, <4>1 DEF Forced
      <4>3. QED
        BY <3>1, <4>2, FunctionSeq
    <3>5. \A r \in 1..(Len(log) + 1) : Forced'[r] = Append(Forced, force[p])[r]
      BY <2>2, <3>1, <3>3 DEF Forced
    <3>6. QED
      BY <3>1, <3>3, <3>4, <3>5, SeqEqual
  <2>4. force[p] \/ [on |-> Revision, config |-> next] \in Drafts[Dir[p]]
    <3>1. SUFFICES ASSUME ~force[p] PROVE [on |-> Revision, config |-> next] \in Drafts[Dir[p]]
      OBVIOUS
    <3>2. Sound(job, history) /\ job \in Range(mem[p].pending)
      BY <2>1, CurrentQueued DEF JobInv, SoundQueue
    <3>3. job.base = Revision
      BY <2>1, <3>1 DEF Adds, MayPush, BaseRevision
    <3>4. next = job.goal
      <4>1. job.changes = Diff(Resources(Revision), job.goal)
        BY <3>2, <3>3 DEF Sound, Resources
      <4>2. Resources(Revision) \in Config /\ job.goal \in Config
        BY <2>1 DEF Adds, JobShape, Resources, Revision, TypeInv
      <4>3. QED
        BY <2>1, <4>1, <4>2, DiffApplied DEF Adds
    <3>5. mem[p].pending = file[Dir[p]].pending
      BY <2>1 DEF Adds, MayPush, Working, CopyInv, InStep, SameQueue
    <3>6. QED
      BY <3>2, <3>3, <3>4, <3>5 DEF Drafts, Drafted
  <2>5. UNCHANGED <<Seen, Copy, Drafts>>
    BY <2>2 DEF Seen, Copy, Drafts
  <2>6. QED
    BY <2>2, <2>3, <2>4, <2>5, AbstractSteps
<1>4. ASSUME NEW p \in Procs, Ack(p) PROVE Shared!Learn(Dir[p])
  <2>1. PICK job \in Current(p) : Save(p, Acked(mem[p], job, answer[p])) /\ UNCHANGED cloud
    BY <1>4 DEF Ack
  <2> DEFINE s == Acked(mem[p], job, answer[p])
  <2>2. job \in Range(mem[p].pending) /\ mem[p].pending \in Seq(JobShape)
    BY CurrentQueued, QueueShapes
  <2>3. /\ s.rev = answer[p].rev /\ s.base = answer[p].base
        /\ s.pending = Without(mem[p].pending, job)
    BY <2>2, AckedState DEF TypeInv
  <2>4. Replaced(Dir[p], s)
    BY <2>1 DEF Save, Replaced, TypeInv
  <2>5. Right(answer[p], history) /\ mem[p].pending = file[Dir[p]].pending
    BY <1>4 DEF Ack, At, BaselineInv, AnswersRight, CopyInv, InStep, SameQueue
  <2> HIDE DEF s
  <2>6. Right(s, history)
    BY <2>3, <2>5 DEF Right
  <2>7. Drafted(s.pending) \subseteq Drafted(file[Dir[p]].pending)
    BY <2>2, <2>3, <2>5, WithoutOne DEF Drafted
  <2>8. QED
    BY <2>1, <2>4, <2>6, <2>7, Learns
<1>5. ASSUME NEW p \in Procs, NEW limit, JobFails(p, limit) PROVE Shared!Learn(Dir[p])
  <2>1. PICK job \in Current(p) : Save(p, MarkFailed(mem[p], job, limit)) /\ UNCHANGED cloud
    BY <1>5 DEF JobFails
  <2> DEFINE q == Without(mem[p].pending, job)
             s == MarkFailed(mem[p], job, limit)
  <2>2. job \in Range(mem[p].pending) /\ job \in JobShape /\ mem[p].pending \in Seq(JobShape)
    BY CurrentQueued, QueueShapes
  <2>3. /\ s.rev = mem[p].rev /\ s.base = mem[p].base
        /\ s.pending = q \/ s.pending = Append(q, Again(job))
    BY <2>2, FailedState DEF TypeInv
  <2>4. Replaced(Dir[p], s)
    BY <2>1 DEF Save, Replaced, TypeInv
  <2>5. Right(mem[p], history) /\ mem[p].pending = file[Dir[p]].pending
    BY <1>5 DEF JobFails, BaselineInv, MemRight, RightState, CopyInv, InStep, SameQueue
  <2>6. /\ q \in Seq(JobShape) /\ Range(q) \subseteq Range(mem[p].pending)
        /\ Again(job) \in JobShape /\ Again(job).base = job.base /\ Again(job).goal = job.goal
    BY <2>2, WithoutOne, AgainShape
  <2> HIDE DEF q, s
  <2>7. Right(s, history)
    BY <2>3, <2>5 DEF Right
  <2>8. Range(Append(q, Again(job))) = Range(q) \cup {Again(job)}
    BY <2>6, AppendOne
  <2>9. Drafted(s.pending) \subseteq Drafted(file[Dir[p]].pending)
    BY <2>2, <2>3, <2>5, <2>6, <2>8 DEF Drafted
  <2>10. QED
    BY <2>1, <2>4, <2>7, <2>9, Learns
<1>6. ASSUME NEW p \in Procs, PullWrite(p) PROVE Shared!Learn(Dir[p])
  <2>1. Right(mem[p], history) /\ mem[p].pending = file[Dir[p]].pending
    BY <1>6 DEF PullWrite, BaselineInv, MemRight, RightState, CopyInv, InStep, SameQueue
  <2>2. Replaced(Dir[p], mem[p]) /\ UNCHANGED cloud
    BY <1>6 DEF PullWrite, Replaced, TypeInv
  <2>3. QED
    BY <2>1, <2>2, Learns
<1>7. ASSUME NEW p \in Procs, SyncPush(p) \/ PushApplied(p) \/ Ack(p) \/ PullWrite(p)
                              \/ \E limit : JobFails(p, limit)
      PROVE  [Shared!Next]_(Shared!shared)
  <2>1. CASE SyncPush(p) /\ UNCHANGED file
    BY <1>1, <2>1 DEF SyncPush
  <2>2. CASE ~(SyncPush(p) /\ UNCHANGED file)
    <3>1. Dir[p] \in Dirs
      OBVIOUS
    <3>2. Shared!Draft(Dir[p]) \/ Shared!Publish(Dir[p]) \/ Shared!Learn(Dir[p])
      BY <1>2, <1>3, <1>4, <1>5, <1>6, <1>7, <2>2
    <3>3. QED
      BY <3>1, <3>2 DEF Shared!Next
  <2>3. QED
    BY <2>1, <2>2
<1>8. QED
  BY <1>1, <1>7, QuietSteps DEF Touches

\* With one process in each directory, configuration sync is a list of versions, whatever
\* is lost, repeated, refused or killed: a directory adds to it what it drafted on the
\* last version, whole, or what it forces, and holds a true copy of one version
\* (sync-engine.ts:123-258, 268-291): for any directories, resources and limits.
THEOREM SyncIsAListOfVersions == OneEach => (Spec => SharedSpec)
<1> SUFFICES ASSUME OneEach PROVE Spec => SharedSpec
    OBVIOUS
<1> DEFINE Inv == QueueInv /\ CopyInv
<1>1. Init => Inv /\ Shared!Init
  BY QueueInit, CopyInit, SharedInit
<1>2. Inv /\ [Next]_vars => Inv' /\ [Shared!Next]_(Shared!shared)
  BY QueueNext, CopyNext, SharedNext
<1>3. QED
  BY <1>1, <1>2, PTL DEF Spec, SharedSpec, Shared!Spec

-----------------------------------------------------------------------------
(* The bounds of the types: identifiers are those of the jobs there have   *)
(* been, and as Cloud applies each of them once it has no more revisions.  *)

CountsInv == jobs \in 0..MaxJobs /\ edits \in 0..MaxEdits /\ failures \in 0..MaxFailures

Bounded(s, n) ==
    /\ \A job \in Range(s.pending) : job.id \in 1..n /\ job.tries <= MaxAttempts
    /\ s.dead \subseteq 1..n

IdsInv ==
    /\ \A d \in Dirs : Bounded(file[d], jobs)
    /\ \A p \in Procs : Bounded(mem[p], jobs) /\ todo[p] \subseteq 1..jobs
    /\ \A r \in DOMAIN log : log[r].id \in 1..jobs

RevisionsInv ==
    /\ known \in [Procs -> Nat \cup {None}]
    /\ \A p \in Procs : known[p] < Len(history) /\ answer[p].rev < Len(history)

\* The counters are guarded, and there are never fewer jobs.
LEMMA CountsNext ==
    ASSUME TypeInv, CountsInv, [Next]_vars
    PROVE  CountsInv' /\ jobs <= jobs'
<1> USE LimitsAssumption DEF CountsInv
<1>1. CASE UNCHANGED counters
  BY <1>1
<1>2. ASSUME NEW d \in Dirs, Edit(d) PROVE CountsInv' /\ jobs <= jobs'
  BY <1>2 DEF Edit
<1>3. ASSUME NEW p \in Procs, SyncPush(p) PROVE CountsInv' /\ jobs <= jobs'
  BY <1>3 DEF SyncPush, Enqueue
<1>4. ASSUME NEW p \in Procs, (\E limit : JobFails(p, limit)) \/ Stop(p)
      PROVE  CountsInv' /\ jobs <= jobs'
  BY <1>4 DEF JobFails, Stop
<1>5. ASSUME NEW p \in Procs, Sync(p) \/ Pull(p), ~SyncPush(p) PROVE UNCHANGED counters
  BY <1>5 DEF Sync, Drain, DrainReady, GetState, Conflict, Push, PushApplied, PushRepeated,
     PushRejected, Ack, Drained, Pull, PullStart, PullFetch, PullWrite
<1>6. QED
  BY <1>1, <1>2, <1>3, <1>4, <1>5 DEF Next, vars, Unreachable, Refused

\* Identifiers stay identifiers when there are more jobs.
LEMMA BoundedMore ==
    ASSUME NEW n \in Nat, NEW m \in Nat, n <= m
    PROVE  1..n \subseteq 1..m /\ \A s : Bounded(s, n) => Bounded(s, m)
<1>1. 1..n \subseteq 1..m
  OBVIOUS
<1>2. QED
  BY <1>1 DEF Bounded

\* What a step makes of the states, when it makes no job.
LEMMA IdsKept ==
    ASSUME TypeInv, IdsInv, NEW p \in Procs, UNCHANGED jobs,
           \A d \in Dirs \ {Dir[p]} : file'[d] = file[d],
           \A q \in Procs \ {p} : mem'[q] = mem[q] /\ todo'[q] = todo[q],
           Bounded(file'[Dir[p]], jobs), Bounded(mem'[p], jobs), todo'[p] \subseteq 1..jobs,
           \A r \in DOMAIN log' : log'[r].id \in 1..jobs
    PROVE  IdsInv'
BY DEF IdsInv

LEMMA BoundedDefault == \A n : Bounded(Default, n)
<1>1. Range(<<>>) = {}
  BY DEF Range
<1>2. QED
  BY <1>1 DEF Bounded, Default

LEMMA IdsNext ==
    ASSUME TypeInv, CountsInv, IdsInv, [Next]_vars
    PROVE  IdsInv'
<1> USE DirAssumption
<1>1. CASE UNCHANGED <<file, mem, todo, log, jobs>>
  BY <1>1 DEF IdsInv
<1>2. ASSUME NEW p \in Procs, Ends(p), UNCHANGED <<log, jobs>>,
             file' = file \/ file' = [file EXCEPT ![Dir[p]] = mem[p]]
      PROVE  IdsInv'
  <2>1. mem'[p] = Default /\ todo'[p] = {} /\ Bounded(file'[Dir[p]], jobs)
    BY <1>2 DEF Ends, TypeInv, IdsInv
  <2>2. /\ \A d \in Dirs \ {Dir[p]} : file'[d] = file[d]
        /\ \A q \in Procs \ {p} : mem'[q] = mem[q] /\ todo'[q] = todo[q]
    BY <1>2 DEF Ends, TypeInv
  <2>3. QED
    BY <1>2, <2>1, <2>2, IdsKept, BoundedDefault DEF IdsInv
<1>3. ASSUME NEW p \in Procs, SyncPush(p) PROVE IdsInv'
  <2>1. UNCHANGED <<mem, todo, log>>
    BY <1>3 DEF SyncPush
  <2>2. CASE UNCHANGED <<file, jobs>>
    BY <1>1, <2>1, <2>2
  <2>3. ASSUME NEW job \in JobShape, job.id = jobs + 1, job.tries = 0, jobs' = jobs + 1,
               file' = [file EXCEPT ![Dir[p]].pending = Append(@, job)]
        PROVE  IdsInv'
    <3>1. jobs \in Nat /\ jobs' \in Nat
      BY <2>3 DEF TypeInv
    <3>2. 1..jobs \subseteq 1..jobs' /\ \A s : Bounded(s, jobs) => Bounded(s, jobs')
      BY <2>3, <3>1, BoundedMore
    <3>3. /\ file'[Dir[p]].pending = Append(file[Dir[p]].pending, job)
          /\ file'[Dir[p]].dead = file[Dir[p]].dead
          /\ \A d \in Dirs \ {Dir[p]} : file'[d] = file[d]
      BY <2>3 DEF TypeInv, StateShape
    <3>4. Range(file'[Dir[p]].pending) = Range(file[Dir[p]].pending) \cup {job}
      BY <2>3, <3>3, QueueShapes, AppendOne
    <3>5. job.id \in 1..jobs' /\ job.tries <= MaxAttempts
      BY <2>3, <3>1, LimitsAssumption
    <3>6. Bounded(file[Dir[p]], jobs')
      BY <3>2 DEF IdsInv
    <3>7. Bounded(file'[Dir[p]], jobs')
      BY <3>3, <3>4, <3>5, <3>6 DEF Bounded
    <3>8. /\ \A d \in Dirs : Bounded(file[d], jobs')
          /\ \A q \in Procs : Bounded(mem[q], jobs') /\ todo[q] \subseteq 1..jobs'
          /\ \A r \in DOMAIN log : log[r].id \in 1..jobs'
      BY <3>2 DEF IdsInv
    <3>9. QED
      BY <2>1, <3>3, <3>7, <3>8 DEF IdsInv
  <2>4. QED
    BY <1>3, <2>2, <2>3, Enqueued DEF SyncPush
<1>4. ASSUME NEW p \in Procs, Drain(p) PROVE IdsInv'
  <2>1. PICK ready : DrainReady(p, ready)
    BY <1>4 DEF Drain
  <2>2. CASE Ends(p)
    BY <1>2, <2>1, <2>2 DEF DrainReady
  <2>3. CASE ~Ends(p)
    <3>1. /\ mem' = [mem EXCEPT ![p] = file[Dir[p]]]
          /\ todo' = [todo EXCEPT ![p] = Due(file[Dir[p]].pending, ready)]
          /\ UNCHANGED <<file, log, jobs>>
      BY <2>1, <2>3 DEF DrainReady
    <3>2. Due(file[Dir[p]].pending, ready) \subseteq 1..jobs
      BY DEF Due, IdsInv, Bounded
    <3>3. mem'[p] = file[Dir[p]] /\ todo'[p] \subseteq 1..jobs
      BY <3>1, <3>2 DEF TypeInv
    <3>4. \A q \in Procs \ {p} : mem'[q] = mem[q] /\ todo'[q] = todo[q]
      BY <3>1 DEF TypeInv
    <3>5. QED
      BY <3>1, <3>3, <3>4, IdsKept DEF IdsInv
  <2>4. QED
    BY <2>2, <2>3
<1>5. ASSUME NEW p \in Procs, PushApplied(p) PROVE IdsInv'
  <2>1. PICK job \in Current(p), next \in Config, entry \in Pushed : Adds(p, job, next, entry)
    BY <1>5, Applied
  <2>2. entry.id \in 1..jobs
    BY <2>1, CurrentQueued DEF Adds, IdsInv, Bounded
  <2>3. /\ log \in Seq(Pushed) /\ Len(log) \in Nat /\ DOMAIN log = 1..Len(log)
        /\ log' = Append(log, entry) /\ UNCHANGED <<file, mem, todo, jobs>>
    BY <2>1 DEF Adds, Answered, TypeInv
  <2>4. /\ DOMAIN log' = 1..(Len(log) + 1)
        /\ \A r \in 1..Len(log) : log'[r] = log[r]
        /\ log'[Len(log) + 1] = entry
    BY <2>3, AppendProperties
  <2>5. \A r \in DOMAIN log' : r \in DOMAIN log \/ r = Len(log) + 1
    BY <2>3, <2>4
  <2>6. \A r \in DOMAIN log' : log'[r].id \in 1..jobs
    BY <2>2, <2>3, <2>4, <2>5 DEF IdsInv
  <2>7. QED
    BY <2>3, <2>6 DEF IdsInv
<1>6. ASSUME NEW p \in Procs, NEW s, NEW id, Bounded(s, jobs), Save(p, s),
             todo' = [todo EXCEPT ![p] = @ \ {id}], UNCHANGED <<log, jobs>>
      PROVE  IdsInv'
  <2>1. file'[Dir[p]] = s /\ mem'[p] = s /\ todo'[p] \subseteq 1..jobs
    BY <1>6 DEF Save, TypeInv, IdsInv
  <2>2. /\ \A d \in Dirs \ {Dir[p]} : file'[d] = file[d]
        /\ \A q \in Procs \ {p} : mem'[q] = mem[q] /\ todo'[q] = todo[q]
    BY <1>6 DEF Save, TypeInv
  <2>3. QED
    BY <1>6, <2>1, <2>2, IdsKept DEF IdsInv
<1>7. ASSUME NEW p \in Procs, Ack(p) PROVE IdsInv'
  <2>1. PICK job \in Current(p) : /\ Save(p, Acked(mem[p], job, answer[p]))
                                  /\ todo' = [todo EXCEPT ![p] = @ \ {job.id}]
                                  /\ UNCHANGED <<log, jobs>>
    BY <1>7 DEF Ack
  <2> DEFINE s == Acked(mem[p], job, answer[p])
  <2>2. s.dead = mem[p].dead /\ Range(s.pending) \subseteq Range(mem[p].pending)
    <3>1. job \in Range(mem[p].pending) /\ mem[p].pending \in Seq(JobShape)
      BY CurrentQueued, QueueShapes
    <3>2. s.dead = mem[p].dead /\ s.pending = Without(mem[p].pending, job)
      BY <3>1, AckedState DEF TypeInv
    <3>3. QED
      BY <3>1, <3>2, WithoutOne
  <2> HIDE DEF s
  <2>3. Bounded(s, jobs)
    BY <2>2 DEF IdsInv, Bounded
  <2>4. QED
    BY <1>6, <2>1, <2>3 DEF s
<1>8. ASSUME NEW p \in Procs, NEW limit \in 1..MaxAttempts, JobFails(p, limit) PROVE IdsInv'
  <2>1. PICK job \in Current(p) : /\ Save(p, MarkFailed(mem[p], job, limit))
                                  /\ todo' = [todo EXCEPT ![p] = @ \ {job.id}]
                                  /\ UNCHANGED <<log, jobs>>
    BY <1>8 DEF JobFails
  <2> DEFINE q == Without(mem[p].pending, job)
             s == MarkFailed(mem[p], job, limit)
  <2>2. /\ job \in Range(mem[p].pending) /\ job \in JobShape /\ mem[p].pending \in Seq(JobShape)
        /\ job.id \in 1..jobs
    BY CurrentQueued, QueueShapes DEF IdsInv, Bounded
  <2>3. /\ q \in Seq(JobShape) /\ Range(q) \subseteq Range(mem[p].pending)
        /\ Again(job) \in JobShape /\ Again(job).id = job.id /\ Again(job).tries = job.tries + 1
    BY <2>2, WithoutOne, AgainShape DEF Again, JobShape
  <2>4. Range(Append(q, Again(job))) = Range(q) \cup {Again(job)}
    BY <2>3, AppendOne
  <2>5. CASE job.tries + 1 >= limit
    <3>1. s.pending = q /\ s.dead = mem[p].dead \cup {job.id}
      BY <2>5 DEF MarkFailed, TypeInv, StateShape
    <3> HIDE DEF q, s
    <3>2. Bounded(s, jobs)
      BY <2>2, <2>3, <3>1 DEF IdsInv, Bounded
    <3>3. QED
      BY <1>6, <2>1, <3>2 DEF s
  <2>6. CASE ~(job.tries + 1 >= limit)
    <3>1. s.pending = Append(q, Again(job)) /\ s.dead = mem[p].dead
      BY <2>6 DEF MarkFailed, TypeInv, StateShape, Again
    <3>2. Again(job).tries <= MaxAttempts
      BY <2>2, <2>3, <2>6, LimitsAssumption DEF JobShape
    <3> HIDE DEF q, s
    <3>3. Bounded(s, jobs)
      BY <2>2, <2>3, <2>4, <3>1, <3>2 DEF IdsInv, Bounded
    <3>4. QED
      BY <1>6, <2>1, <3>3 DEF s
  <2>7. QED
    BY <2>5, <2>6
<1>9. ASSUME NEW p \in Procs, PullStart(p) PROVE IdsInv'
  BY <1>9, IdsKept DEF PullStart, IdsInv, TypeInv
<1>10. ASSUME NEW p \in Procs, PullFetch(p) PROVE IdsInv'
  <2>1. mem'[p].pending = mem[p].pending /\ mem'[p].dead = mem[p].dead
    BY <1>10 DEF PullFetch, TypeInv, StateShape
  <2>2. Bounded(mem'[p], jobs)
    BY <2>1 DEF IdsInv, Bounded
  <2>3. QED
    BY <1>10, <2>2, IdsKept DEF PullFetch, IdsInv, TypeInv
<1>11. QED
  <2>1. ASSUME NEW p \in Procs, Conflict(p) \/ PushRejected(p) \/ Drained(p) \/ PullWrite(p) \/ Stop(p)
        PROVE  IdsInv'
    BY <1>2, <2>1 DEF Conflict, PushRejected, Drained, PullWrite, Stop
  <2>2. ASSUME NEW p \in Procs, GetState(p) \/ PushRepeated(p) PROVE IdsInv'
    BY <1>1, <2>2 DEF GetState, PushRepeated, Answered
  <2>3. ASSUME NEW d \in Dirs, Edit(d) PROVE IdsInv'
    BY <1>1, <2>3 DEF Edit
  <2>4. CASE UNCHANGED vars
    BY <1>1, <2>4 DEF vars
  <2>5. 1 \in 1..MaxAttempts /\ MaxAttempts \in 1..MaxAttempts
    BY LimitsAssumption
  <2>6. QED
    BY <1>3, <1>4, <1>5, <1>7, <1>8, <1>9, <1>10, <2>1, <2>2, <2>3, <2>4, <2>5
       DEF Next, Sync, Push, Pull, Unreachable, Refused

\* The revision a process knows of, and the one of its answer, are Cloud's.
LEMMA RevisionsNext ==
    ASSUME TypeInv, BaselineInv, RevisionsInv, [Next]_vars
    PROVE  RevisionsInv'
<1>0. /\ Revision \in Nat /\ Revision < Len(history) /\ Revision # None
      /\ \A n \in Nat : n # None
      /\ Len(history) \in Nat /\ 0 < Len(history) /\ None < Len(history) /\ 0 \in Nat
  BY DEF TypeInv, Revision, None
<1>1. CASE UNCHANGED <<known, answer, history>>
  BY <1>1 DEF RevisionsInv
<1>2. ASSUME NEW p \in Procs, Ends(p), UNCHANGED cloud PROVE RevisionsInv'
  BY <1>0, <1>2 DEF Ends, RevisionsInv, TypeInv, NoAnswer
<1>3. ASSUME NEW p \in Procs, NEW k \in Nat \cup {None}, k < Len(history),
             known' = [known EXCEPT ![p] = k], UNCHANGED <<answer, history>>
      PROVE  RevisionsInv'
  BY <1>3 DEF RevisionsInv
<1>4. ASSUME NEW p \in Procs, Drain(p) PROVE RevisionsInv'
  BY <1>1, <1>2, <1>4 DEF Drain, DrainReady
<1>5. ASSUME NEW p \in Procs, GetState(p) PROVE RevisionsInv'
  BY <1>0, <1>3, <1>5 DEF GetState
<1>6. ASSUME NEW p \in Procs, PushApplied(p) PROVE RevisionsInv'
  <2>1. PICK next \in Config : /\ history' = Append(history, next)
                               /\ answer' = [answer EXCEPT ![p] = [rev |-> Revision + 1, base |-> next]]
                               /\ UNCHANGED known
    BY <1>6, Applied DEF Adds, Answered
  <2>2. Len(history') = Len(history) + 1 /\ Revision + 1 < Len(history')
    BY <1>0, <2>1, AppendProperties DEF TypeInv, Revision
  <2>3. \A q \in Procs : answer'[q].rev = answer[q].rev \/ answer'[q].rev = Revision + 1
    BY <2>1 DEF TypeInv
  <2>4. \A q \in Procs : known[q] \in Int /\ answer[q].rev \in Int
    BY DEF RevisionsInv, TypeInv, None
  <2>5. QED
    BY <1>0, <2>1, <2>2, <2>3, <2>4 DEF RevisionsInv
<1>7. ASSUME NEW p \in Procs, PushRepeated(p) PROVE RevisionsInv'
  <2>1. PICK r \in DOMAIN log :
            /\ answer' = [answer EXCEPT ![p] = [rev |-> r, base |-> Resources(r)]]
            /\ UNCHANGED <<known, history>>
    BY <1>7 DEF PushRepeated, Made, Answered
  <2>2. r < Len(history)
    BY DEF TypeInv
  <2>3. \A q \in Procs : answer'[q].rev = answer[q].rev \/ answer'[q].rev = r
    BY <2>1 DEF TypeInv
  <2>4. QED
    BY <2>1, <2>2, <2>3 DEF RevisionsInv
<1>8. ASSUME NEW p \in Procs, Ack(p) PROVE RevisionsInv'
  <2>1. answer[p].rev \in Nat /\ answer[p].rev < Len(history)
    BY DEF TypeInv, RevisionsInv
  <2>2. QED
    BY <1>3, <1>8, <2>1 DEF Ack
<1>9. ASSUME NEW p \in Procs, NEW limit, JobFails(p, limit) PROVE RevisionsInv'
  BY <1>0, <1>3, <1>9 DEF JobFails
<1>10. QED
  <2>1. ASSUME NEW p \in Procs, Conflict(p) \/ PushRejected(p) \/ Drained(p) \/ PullWrite(p) \/ Stop(p)
        PROVE  RevisionsInv'
    BY <1>2, <2>1 DEF Conflict, PushRejected, Drained, PullWrite, Stop
  <2>2. ASSUME NEW p \in Procs, SyncPush(p) \/ PullStart(p) \/ PullFetch(p) PROVE RevisionsInv'
    BY <1>1, <2>2 DEF SyncPush, PullStart, PullFetch
  <2>3. ASSUME NEW d \in Dirs, Edit(d) PROVE RevisionsInv'
    BY <1>1, <2>3 DEF Edit
  <2>4. CASE UNCHANGED vars
    BY <1>1, <2>4 DEF vars
  <2>5. QED
    BY <1>4, <1>5, <1>6, <1>7, <1>8, <1>9, <2>1, <2>2, <2>3, <2>4
       DEF Next, Sync, Push, Pull, Unreachable, Refused

\* Cloud has applied each job once: it has no more revisions than there are jobs.
LEMMA LogShort ==
    ASSUME TypeInv, LogInv, IdsInv
    PROVE  Len(log) <= jobs
<1> DEFINE id == [r \in 1..Len(log) |-> log[r].id]
<1>1. Len(log) \in Nat /\ jobs \in Nat /\ DOMAIN log = 1..Len(log)
  BY DEF TypeInv
<1>2. id \in [1..Len(log) -> 1..jobs]
  BY <1>1 DEF IdsInv
<1>3. \A r, s \in 1..Len(log) : id[r] = id[s] => r = s
  BY <1>1 DEF LogInv
<1> HIDE DEF id
<1>4. id \in Injection(1..Len(log), 1..jobs)
  BY <1>2, <1>3 DEF Injection, IsInjective
<1>5. ASSUME NEW n \in Nat PROVE IsFiniteSet(1..n) /\ Cardinality(1..n) = n
  BY FS_Interval
<1>6. Cardinality(1..Len(log)) <= Cardinality(1..jobs)
  BY <1>1, <1>4, <1>5, FS_Injection
<1>7. QED
  BY <1>1, <1>5, <1>6

\* A state with sound, bounded jobs and a revision of Cloud's is one of the model's.
LEMMA StateTyped ==
    ASSUME TypeInv, CountsInv, NEW s \in StateShape, Len(history) <= MaxJobs + 1,
           SoundQueue(s.pending, history), Bounded(s, jobs), s.rev < Len(history)
    PROVE  s \in State
<1>1. /\ s.pending \in Seq(JobShape) /\ s.dead \subseteq 1..jobs /\ s.rev \in Nat
      /\ s.base \in Config /\ Len(history) \in Nat /\ jobs \in 0..MaxJobs
  BY DEF StateShape, Bounded, CountsInv, TypeInv
<1>2. 1..jobs \subseteq Ids /\ s.rev \in Revisions
  BY <1>1, LimitsAssumption DEF Ids, Revisions
<1>3. ASSUME NEW job \in JobShape, job \in Range(s.pending) PROVE job \in Job
  <2>1. /\ job.key = job.id /\ job.base < Len(history) /\ job.id \in 1..jobs
        /\ job.tries <= MaxAttempts
    BY <1>3 DEF SoundQueue, Sound, Bounded
  <2>2. job.id \in Ids /\ job.key \in Ids
    BY <1>2, <2>1
  <2>3. job.base \in Revisions /\ job.tries \in 0..MaxAttempts
    BY <1>1, <2>1, LimitsAssumption DEF JobShape, Revisions
  <2>4. QED
    BY <2>2, <2>3 DEF JobShape, Job
<1>4. \A i \in 1..Len(s.pending) : s.pending[i] \in Job
  <2>1. ASSUME NEW i \in 1..Len(s.pending) PROVE s.pending[i] \in Job
    <3>1. s.pending[i] \in JobShape /\ s.pending[i] \in Range(s.pending)
      BY <1>1 DEF Range
    <3>2. QED
      BY <1>3, <3>1
  <2>2. QED
    BY <2>1
<1>5. s.pending \in Seq(Job)
  <2>1. Len(s.pending) \in Nat /\ s.pending = [i \in 1..Len(s.pending) |-> s.pending[i]]
    BY <1>1
  <2>2. s.pending \in [1..Len(s.pending) -> Job]
    BY <1>4, <2>1
  <2>3. QED
    BY <2>1, <2>2, FunctionSeq
<1>6. QED
  BY <1>1, <1>2, <1>5 DEF StateShape, State

\* Every variable stays in its range, which for revisions and identifiers means that
\* Cloud never makes two revisions of one job.
THEOREM TypesCorrect == Spec => []TypeOK
<1> DEFINE Inv == QueueInv /\ CountsInv /\ IdsInv /\ RevisionsInv
<1>1. Init => Inv
  <2> SUFFICES ASSUME Init PROVE Inv
      OBVIOUS
  <2>1. CountsInv
    BY LimitsAssumption DEF Init, CountsInv
  <2>2. IdsInv
    BY BoundedDefault DEF Init, IdsInv
  <2>3. Len(history) = 1
    BY DEF Init
  <2>4. RevisionsInv
    BY <2>3 DEF Init, RevisionsInv, NoAnswer, None
  <2>5. QED
    BY <2>1, <2>2, <2>4, QueueInit
<1>2. Inv /\ [Next]_vars => Inv'
  BY QueueNext, CountsNext, IdsNext, RevisionsNext DEF QueueInv
<1>3. Inv => TypeOK
  <2> SUFFICES ASSUME Inv PROVE TypeOK
      OBVIOUS
  <2> USE DEF QueueInv
  <2>1. Len(log) <= jobs
    BY LogShort
  <2>2. /\ Len(history) \in Nat /\ Len(log) \in Nat /\ Len(history) = Len(log) + 1
        /\ jobs \in 0..MaxJobs /\ MaxJobs \in Nat
    BY LimitsAssumption DEF TypeInv, CountsInv
  <2>3. Len(history) <= MaxJobs + 1
    BY <2>1, <2>2
  <2>4. 1..jobs \subseteq Ids /\ \A r \in Nat : r < Len(history) => r \in Revisions
    BY <2>2, <2>3 DEF Ids, Revisions
  <2>5. file \in [Dirs -> State]
    <3>1. ASSUME NEW d \in Dirs PROVE file[d] \in State
      BY <2>3, StateTyped
         DEF TypeInv, JobInv, IdsInv, BaselineInv, FilesRight, RightState, Right
    <3>2. QED
      BY <3>1 DEF TypeInv
  <2>6. mem \in [Procs -> State]
    <3>1. ASSUME NEW p \in Procs PROVE mem[p] \in State
      BY <2>3, StateTyped
         DEF TypeInv, JobInv, IdsInv, BaselineInv, MemRight, RightState, Right
    <3>2. QED
      BY <3>1 DEF TypeInv
  <2>7. todo \in [Procs -> SUBSET Ids]
    BY <2>4 DEF TypeInv, IdsInv
  <2>8. known \in [Procs -> Revisions \cup {None}]
    BY <2>4 DEF RevisionsInv
  <2>9. answer \in [Procs -> [rev : Revisions, base : Config]]
    <3>1. ASSUME NEW p \in Procs PROVE answer[p] \in [rev : Revisions, base : Config]
      BY <2>4 DEF RevisionsInv, TypeInv
    <3>2. QED
      BY <3>1 DEF TypeInv
  <2>10. log \in Seq([id : Ids, key : Ids, forced : BOOLEAN, goal : Config])
    <3> DEFINE E == [id : Ids, key : Ids, forced : BOOLEAN, goal : Config]
    <3>1. ASSUME NEW r \in 1..Len(log) PROVE log[r] \in E
      <4>1. log[r] \in Pushed /\ r \in DOMAIN log
        BY DEF TypeInv
      <4>2. log[r].id \in Ids /\ log[r].key = log[r].id
        BY <2>4, <4>1 DEF IdsInv, LogInv
      <4>3. QED
        BY <4>1, <4>2 DEF Pushed
    <3>2. log = [r \in 1..Len(log) |-> log[r]]
      BY DEF TypeInv
    <3> HIDE DEF E
    <3>3. log \in [1..Len(log) -> E]
      BY <3>1, <3>2
    <3>4. log \in Seq(E)
      BY <2>2, <3>3, FunctionSeq
    <3>5. QED
      BY <3>4 DEF E
  <2>11. QED
    BY <2>5, <2>6, <2>7, <2>8, <2>9, <2>10 DEF TypeInv, CountsInv, TypeOK
<1> HIDE DEF Inv
<1>4. QED
  BY <1>1, <1>2, <1>3, PTL DEF Spec
=============================================================================
