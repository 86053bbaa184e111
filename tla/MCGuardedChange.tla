-------------------------- MODULE MCGuardedChange --------------------------
(***************************************************************************)
(* Instances of GuardedChange for TLC.  Processes and data are             *)
(* interchangeable in safety runs.                                         *)
(***************************************************************************)
EXTENDS GuardedChange, TLC

CONSTANTS p1, p2, d1

OneProc == {p1}
TwoProcs == {p1, p2}
NoData == {}
OneDatum == {d1}

Symmetry == Permutations(Procs) \cup Permutations(Data)
=============================================================================
