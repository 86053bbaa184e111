----------------------------- MODULE CloudSync -----------------------------
(***************************************************************************)
(* Configuration sync: `dbdock sync`, `dbdock sync --force` and `dbdock    *)
(* sync pull`.  src/cloud/{sync-engine,queue,diff,local-state}.ts.         *)
(*                                                                         *)
(* A directory mirrors the resources of its dbdock.config.json to a Cloud  *)
(* project.  Its state file holds the revision and resource hashes it last *)
(* saw (the baseline) and a queue of change sets that are to be pushed.    *)
(* Every process works on a copy of that file and writes it back whole.    *)
(* Cloud is external: it compares the revision a push is based on with its *)
(* own, and answers a repeated idempotency key as it did the first time.   *)
(***************************************************************************)
EXTENDS Integers, Sequences, FiniteSets, SequencesExt

CONSTANTS
    Dirs,         \* directories, on one machine or several, of one project
    Procs,        \* dbdock processes
    Dir,          \* the directory each of them works in
    Keys,         \* resources: connection, storage, backup, ...
    Hashes,       \* what a resource may be
    Absent,       \* the resource is not configured
    ForceFlags,   \* the values of --force that are used
    MaxAttempts,  \* queue.ts: DEFAULT_MAX_ATTEMPTS
    MaxJobs,      \* bound: change sets ever queued
    MaxEdits,     \* bound: edits of configurations
    MaxFailures   \* bound: failed requests and killed processes

ASSUME DirAssumption == Dir \in [Procs -> Dirs]
ASSUME HashesAssumption == Absent \in Hashes
ASSUME ForceAssumption == ForceFlags \subseteq BOOLEAN
ASSUME LimitsAssumption == /\ MaxAttempts \in Nat \ {0} /\ MaxJobs \in Nat
                           /\ MaxEdits \in Nat /\ MaxFailures \in Nat

VARIABLES
    local,     \* what dbdock.config.json of each directory says
    file,      \* the state file of each directory
    pc,        \* where each process is
    force,     \* whether it was started with --force
    mem,       \* the state each process works on
    todo,      \* the jobs that were due when it read its state and are not done, by id
    known,     \* the Cloud revision it knows of, None when it has to ask
    answer,    \* Cloud's answer to its last push
    history,   \* Cloud: the resources at revision 0, 1, ...
    log,       \* Cloud: the pushes that made revision 1, 2, ...
    jobs,      \* change sets queued so far
    edits, failures

process == <<pc, force, mem, todo, known, answer>>
cloud == <<history, log>>
counters == <<jobs, edits, failures>>
vars == <<local, file, process, cloud, counters>>

Config == [Keys -> Hashes]
Blank == [k \in Keys |-> Absent]
None == -1
Revision == Len(history) - 1
Resources(r) == history[r + 1]

Ids == 1..MaxJobs
Revisions == 0..MaxJobs
Changes == UNION {[K -> Hashes] : K \in SUBSET Keys}

\* `key` is the idempotency key; `goal`, a history field, is the configuration
\* the job was made for.
Job == [id : Ids, key : Ids, base : Revisions, changes : Changes, goal : Config,
        tries : 0..MaxAttempts]
State == [rev : Revisions, base : Config, pending : Seq(Job), dead : SUBSET Ids]
Default == [rev |-> 0, base |-> Blank, pending |-> <<>>, dead |-> {}]
NoAnswer == [rev |-> 0, base |-> Blank]

TypeOK ==
    /\ local \in [Dirs -> Config]
    /\ file \in [Dirs -> State]
    /\ pc \in [Procs -> {"idle", "queued", "drain", "answered", "pulling", "pulled"}]
    /\ force \in [Procs -> BOOLEAN]
    /\ mem \in [Procs -> State]
    /\ todo \in [Procs -> SUBSET Ids]
    /\ known \in [Procs -> Revisions \cup {None}]
    /\ answer \in [Procs -> [rev : Revisions, base : Config]]
    /\ history \in Seq(Config)
    /\ Len(history) = Len(log) + 1
    /\ log \in Seq([id : Ids, key : Ids, forced : BOOLEAN, goal : Config])
    /\ jobs \in 0..MaxJobs
    /\ edits \in 0..MaxEdits
    /\ failures \in 0..MaxFailures

Init ==
    /\ local \in [Dirs -> {Blank}]
    /\ file = [d \in Dirs |-> Default]
    /\ pc = [p \in Procs |-> "idle"]
    /\ force = [p \in Procs |-> FALSE]
    /\ mem = [p \in Procs |-> Default]
    /\ todo = [p \in Procs |-> {}]
    /\ known = [p \in Procs |-> None]
    /\ answer = [p \in Procs |-> NoAnswer]
    /\ history = <<Blank>>
    /\ log = <<>>
    /\ jobs = 0
    /\ edits = 0
    /\ failures = 0

At(p, from, to) == pc[p] = from /\ pc' = [pc EXCEPT ![p] = to]

\* The process forgets its state when it ends.
Ends(p) ==
    /\ pc' = [pc EXCEPT ![p] = "idle"]
    /\ force' = [force EXCEPT ![p] = FALSE]
    /\ mem' = [mem EXCEPT ![p] = Default]
    /\ todo' = [todo EXCEPT ![p] = {}]
    /\ known' = [known EXCEPT ![p] = None]
    /\ answer' = [answer EXCEPT ![p] = NoAnswer]

Edit(d) ==
    /\ edits < MaxEdits
    /\ edits' = edits + 1
    /\ \E k \in Keys, h \in Hashes : local' = [local EXCEPT ![d][k] = h]
    /\ UNCHANGED <<file, process, cloud, jobs, failures>>

-----------------------------------------------------------------------------
(* The queue.                                                              *)

\* A key whose hash is not the baseline's is put, or deleted when it is gone.
Diff(base, config) == [k \in {x \in Keys : base[x] # config[x]} |-> config[k]]

Apply(changes, config) ==
    [k \in Keys |-> IF k \in DOMAIN changes THEN changes[k] ELSE config[k]]

Without(pending, job) == RemoveAt(pending, CHOOSE i \in DOMAIN pending : pending[i] = job)

\* A job that failed waits before it is due again; a new one is due at once.
Due(pending, ready) == {job.id : job \in {j \in Range(pending) : j.tries = 0 \/ j.id \in ready}}

\* Slip: each attempt gets a key of its own.
MarkFailedFreshKey(s, job, limit) ==
    IF job.tries + 1 >= limit
    THEN [s EXCEPT !.pending = Without(@, job), !.dead = @ \cup {job.id}]
    ELSE [s EXCEPT !.pending = Append(Without(@, job),
             [job EXCEPT !.tries = @ + 1, !.key = IF @ = MaxJobs THEN 1 ELSE @ + 1])]

\* Slip: a job that used its attempts up is dropped.
MarkFailedDropped(s, job, limit) ==
    IF job.tries + 1 >= limit
    THEN [s EXCEPT !.pending = Without(@, job)]
    ELSE [s EXCEPT !.pending = Append(Without(@, job), [job EXCEPT !.tries = @ + 1])]

\* The job goes to the end of the queue, or to the dead letters.
MarkFailed(s, job, limit) ==
    IF job.tries + 1 >= limit
    THEN [s EXCEPT !.pending = Without(@, job), !.dead = @ \cup {job.id}]
    ELSE [s EXCEPT !.pending = Append(Without(@, job), [job EXCEPT !.tries = @ + 1])]

\* Slip: the revision is taken from the answer, the hashes are not.
AckedRevisionOnly(s, job, ans) ==
    [s EXCEPT !.rev = ans.rev, !.pending = Without(@, job)]

\* applyAck and markAcked.
Acked(s, job, ans) ==
    [s EXCEPT !.rev = ans.rev, !.base = ans.base, !.pending = Without(@, job)]

-----------------------------------------------------------------------------
(* syncPush: queue what changed, without leaving the processor.            *)

Enqueue(d) ==
    LET s == file[d]
        changes == Diff(s.base, local[d])
    IN  IF changes = << >>
        THEN UNCHANGED <<file, jobs>>
        ELSE /\ jobs < MaxJobs
             /\ jobs' = jobs + 1
             /\ file' = [file EXCEPT ![d].pending = Append(@,
                   [id |-> jobs + 1, key |-> jobs + 1, base |-> s.rev,
                    changes |-> changes, goal |-> local[d], tries |-> 0])]

SyncPush(p) ==
    /\ At(p, "idle", "queued")
    /\ \E f \in ForceFlags : force' = [force EXCEPT ![p] = f]
    /\ Enqueue(Dir[p])
    /\ UNCHANGED <<local, mem, todo, known, answer, cloud, edits, failures>>

(* drain: the session is loaded first, the state file read again after it. *)

Queued(d) == {job.id : job \in Range(file[d].pending)}

DrainReady(p, ready) ==
    LET due == Due(file[Dir[p]].pending, ready)
    IN  /\ pc[p] = "queued"
        /\ IF due = {}
           THEN Ends(p)
           ELSE /\ pc' = [pc EXCEPT ![p] = "drain"]
                /\ mem' = [mem EXCEPT ![p] = file[Dir[p]]]
                /\ todo' = [todo EXCEPT ![p] = due]
                /\ UNCHANGED <<force, known, answer>>
        /\ UNCHANGED <<local, file, cloud, counters>>

Drain(p) == \E ready \in SUBSET Queued(Dir[p]) : DrainReady(p, ready)

\* The job at work is the first in the queue that is still to be done.
Current(p) ==
    LET pending == mem[p].pending
    IN  {pending[i] : i \in {k \in DOMAIN pending :
            /\ pending[k].id \in todo[p]
            /\ \A h \in 1..(k - 1) : pending[h].id \notin todo[p]}}

Working(p, job) == pc[p] = "drain" /\ job \in Current(p)

GetState(p) ==
    /\ \E job \in Current(p) : Working(p, job)
    /\ known[p] = None
    /\ known' = [known EXCEPT ![p] = Revision]
    /\ UNCHANGED <<local, file, pc, force, mem, todo, answer, cloud,
                   counters>>

Conflict(p) ==
    /\ \E job \in Current(p) : Working(p, job) /\ known[p] # job.base
    /\ known[p] # None /\ ~force[p]
    /\ Ends(p)
    /\ UNCHANGED <<local, file, cloud, counters>>

\* The revision the push says it is based on.
BaseRevision(p, job) == IF force[p] THEN known[p] ELSE job.base

MayPush(p, job) ==
    /\ Working(p, job)
    /\ known[p] # None
    /\ known[p] = job.base \/ force[p]

-----------------------------------------------------------------------------
(* Cloud, and the ways a push ends.                                        *)

\* The revisions a key has made: one, when it was pushed before.
Made(key) == {r \in DOMAIN log : log[r].key = key}

Answered(p, r, config) ==
    /\ pc' = [pc EXCEPT ![p] = "answered"]
    /\ answer' = [answer EXCEPT ![p] = [rev |-> r, base |-> config]]
    /\ UNCHANGED <<force, mem, todo, known>>

PushApplied(p) ==
    \E job \in Current(p) :
        LET next == Apply(job.changes, Resources(Revision))
        IN  /\ MayPush(p, job)
            /\ Made(job.key) = {}
            /\ BaseRevision(p, job) = Revision
            /\ history' = Append(history, next)
            /\ log' = Append(log, [id |-> job.id, key |-> job.key, forced |-> force[p],
                                   goal |-> job.goal])
            /\ Answered(p, Revision + 1, next)
            /\ UNCHANGED <<local, file, counters>>

PushRepeated(p) ==
    /\ \E job \in Current(p) :
          /\ MayPush(p, job)
          /\ \E r \in Made(job.key) : Answered(p, r, Resources(r))
    /\ UNCHANGED <<local, file, cloud, counters>>

\* HTTP 409: somebody else has pushed since getState.
PushRejected(p) ==
    /\ \E job \in Current(p) :
          /\ MayPush(p, job)
          /\ Made(job.key) = {}
          /\ BaseRevision(p, job) # Revision
    /\ Ends(p)
    /\ UNCHANGED <<local, file, cloud, counters>>

\* The state file becomes the process's copy, whatever it holds by now.
Save(p, state) ==
    /\ mem' = [mem EXCEPT ![p] = state]
    /\ file' = [file EXCEPT ![Dir[p]] = state]

Ack(p) ==
    /\ At(p, "answered", "drain")
    /\ \E job \in Current(p) :
          /\ Save(p, Acked(mem[p], job, answer[p]))
          /\ todo' = [todo EXCEPT ![p] = @ \ {job.id}]
    /\ known' = [known EXCEPT ![p] = answer[p].rev]
    /\ UNCHANGED <<local, force, answer, cloud, counters>>

\* The revision has to be asked for again, and the loop goes on.
JobFails(p, limit) ==
    /\ pc[p] \in {"drain", "answered"}
    /\ failures < MaxFailures
    /\ failures' = failures + 1
    /\ pc' = [pc EXCEPT ![p] = "drain"]
    /\ \E job \in Current(p) :
          /\ Save(p, MarkFailed(mem[p], job, limit))
          /\ todo' = [todo EXCEPT ![p] = @ \ {job.id}]
    /\ known' = [known EXCEPT ![p] = None]
    /\ UNCHANGED <<local, force, answer, cloud, jobs, edits>>

\* NetworkError: getState, the push or its answer was lost.
Unreachable(p) == JobFails(p, MaxAttempts)

\* Any other error, say HTTP 403 or 500: the job is dead at once.
Refused(p) == JobFails(p, 1)

Drained(p) ==
    /\ pc[p] = "drain" /\ todo[p] = {}
    /\ Ends(p)
    /\ UNCHANGED <<local, file, cloud, counters>>

-----------------------------------------------------------------------------
(* syncPull.                                                               *)

PullStart(p) ==
    /\ At(p, "idle", "pulling")
    /\ mem' = [mem EXCEPT ![p] = file[Dir[p]]]
    /\ UNCHANGED <<local, file, force, todo, known, answer, cloud, counters>>

\* Slip: the queued jobs are rebased, their changes are not computed again.
PullFetchRebased(p) ==
    /\ At(p, "pulling", "pulled")
    /\ mem' = [mem EXCEPT ![p].rev = Revision, ![p].base = Resources(Revision),
                          ![p].pending = [i \in DOMAIN @ |-> [@[i] EXCEPT !.base = Revision]]]
    /\ UNCHANGED <<local, file, force, todo, known, answer, cloud, counters>>

PullFetch(p) ==
    /\ At(p, "pulling", "pulled")
    /\ mem' = [mem EXCEPT ![p].rev = Revision, ![p].base = Resources(Revision)]
    /\ UNCHANGED <<local, file, force, todo, known, answer, cloud, counters>>

PullWrite(p) ==
    /\ pc[p] = "pulled"
    /\ file' = [file EXCEPT ![Dir[p]] = mem[p]]
    /\ Ends(p)
    /\ UNCHANGED <<local, cloud, counters>>

\* The process is killed, or has no session, or the pull cannot reach Cloud.
Stop(p) ==
    /\ pc[p] # "idle"
    /\ failures < MaxFailures
    /\ failures' = failures + 1
    /\ Ends(p)
    /\ UNCHANGED <<local, file, cloud, jobs, edits>>

-----------------------------------------------------------------------------
Push(p) == PushApplied(p) \/ PushRepeated(p) \/ PushRejected(p)

Sync(p) ==
    \/ SyncPush(p) \/ Drain(p) \/ GetState(p) \/ Conflict(p)
    \/ Push(p) \/ Ack(p) \/ Drained(p)

Pull(p) == PullStart(p) \/ PullFetch(p) \/ PullWrite(p)

Next ==
    \/ \E d \in Dirs : Edit(d)
    \/ \E p \in Procs : Sync(p) \/ Pull(p) \/ Unreachable(p) \/ Refused(p) \/ Stop(p)

Spec == Init /\ [][Next]_vars

-----------------------------------------------------------------------------
(* Safety.                                                                 *)

\* The baseline of a directory is what Cloud held at the revision it names,
\* also when answers are repeated, states written back late and processes
\* killed: every later diff and conflict check builds on it
\* (sync-engine.ts:212-214, 243-258, 271-288).
Honest(s) == s.rev < Len(history) /\ s.base = Resources(s.rev)

BaselineHonest ==
    /\ \A d \in Dirs : Honest(file[d])
    /\ \A p \in Procs : pc[p] # "idle" => Honest(mem[p])

\* A push that was not forced leaves Cloud with exactly the configuration its
\* directory had when it queued the job: nothing of another machine's is lost
\* without a conflict, and no mixture of two configurations arises
\* (sync-engine.ts:130-146, 189-210, diff.ts:14-41).
WholeConfigs ==
    \A r \in DOMAIN log : ~log[r].forced => Resources(r) = log[r].goal

\* However often a job is retried, Cloud applies it once: the key it was
\* queued with is kept (sync-engine.ts:137, 209, queue.ts:31-56).
AppliedOnce == \A r, s \in DOMAIN log : log[r].id = log[s].id => r = s

\* A queued job stays in the queue of its directory until it is applied or put
\* with the dead letters; one process per directory at a time
\* (queue.ts:27-56, sync-engine.ts:212-236).
JobsKept ==
    1..jobs \subseteq {log[r].id : r \in DOMAIN log}
                      \cup UNION {Queued(d) \cup file[d].dead : d \in Dirs}

-----------------------------------------------------------------------------
(* What it implements.                                                     *)

Shared == INSTANCE SharedConfig WITH
    Configs <- Config,
    versions <- history,
    forced <- [r \in DOMAIN log |-> log[r].forced],
    seen <- [d \in Dirs |-> file[d].rev],
    copy <- [d \in Dirs |-> file[d].base],
    drafts <- [d \in Dirs |-> {[on |-> job.base, config |-> job.goal] :
                                 job \in Range(file[d].pending)}]

\* With one process per directory, sync is a list of versions to which a directory adds,
\* unless by force, only what it drafted on the last of them, whole, and a true copy of
\* one version in each directory: every request, repetition, lost answer, failure and
\* kill is one step of that or none (sync-engine.ts:123-258, 268-291).
SharedSpec == Shared!Spec
=============================================================================
