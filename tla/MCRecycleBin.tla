---------------------------- MODULE MCRecycleBin ----------------------------
(***************************************************************************)
(* Instances of RecycleBin for TLC.                                        *)
(***************************************************************************)
EXTENDS RecycleBin, TLC

CONSTANTS p1, p2

OneProc == {p1}
TwoProcs == {p1, p2}
Symmetry == Permutations(Procs)
=============================================================================
