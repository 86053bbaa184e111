---------------------------- MODULE MCCloudSync ----------------------------
(***************************************************************************)
(* Instances of CloudSync for TLC: two directories, one process in each.   *)
(***************************************************************************)
EXTENDS CloudSync, TLC

CONSTANTS a, b, p1, p2, k1, k2, h1, none

TwoDirs == {a, b}
TwoProcs == {p1, p2}
Apart == p1 :> a @@ p2 :> b
TwoKeys == {k1, k2}
OneHash == {none, h1}
Both == BOOLEAN

Resource == Permutations(Keys)
=============================================================================
