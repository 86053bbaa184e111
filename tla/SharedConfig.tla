---------------------------- MODULE SharedConfig ----------------------------
(***************************************************************************)
(* What configuration sync promises, without requests, queues and retries: *)
(* a project is a list of versions to which directories add, and each      *)
(* directory keeps a true copy of one of them, on which it drafts what it  *)
(* wants the next to be.  A draft is published, whole, if the version it   *)
(* was made on is still the last; only by force is anything else.  The     *)
(* baseline and the conflict check of src/cloud/sync-engine.ts are there   *)
(* to keep this.                                                           *)
(***************************************************************************)
EXTENDS Integers, Sequences

CONSTANTS
    Dirs,     \* directories of one project
    Configs,  \* what a configuration may be
    Blank     \* that of a new project

VARIABLES
    versions, \* the configurations the project has had, the last one is its own
    forced,   \* whether each version but the first was added by force
    seen,     \* the version each directory holds a copy of, counted from 0
    copy,     \* that copy
    drafts    \* what each directory has drafted, and on which version

shared == <<versions, forced, seen, copy, drafts>>

Last == Len(versions) - 1

Init ==
    /\ versions = <<Blank>>
    /\ forced = <<>>
    /\ seen = [d \in Dirs |-> 0]
    /\ copy = [d \in Dirs |-> Blank]
    /\ drafts = [d \in Dirs |-> {}]

Draft(d) ==
    /\ \E c \in Configs :
          drafts' = [drafts EXCEPT ![d] = @ \cup {[on |-> seen[d], config |-> c]}]
    /\ UNCHANGED <<versions, forced, seen, copy>>

Add(c, f) == versions' = Append(versions, c) /\ forced' = Append(forced, f)

Publish(d) ==
    /\ \/ \E draft \in drafts[d] : draft.on = Last /\ Add(draft.config, FALSE)
       \/ \E c \in Configs : Add(c, TRUE)
    /\ UNCHANGED <<seen, copy, drafts>>

\* A directory comes to hold one of the versions, by an acknowledgement or a
\* pull; the acknowledgement of a push that is repeated by force may be old.
\* It forgets what it has published, or has given up.
Learn(d) ==
    \E r \in 0..Last, rest \in SUBSET drafts[d] :
        /\ seen' = [seen EXCEPT ![d] = r]
        /\ copy' = [copy EXCEPT ![d] = versions[r + 1]]
        /\ drafts' = [drafts EXCEPT ![d] = rest]
        /\ UNCHANGED <<versions, forced>>

Next == \E d \in Dirs : Draft(d) \/ Publish(d) \/ Learn(d)

Spec == Init /\ [][Next]_shared
=============================================================================
