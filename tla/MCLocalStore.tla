---------------------------- MODULE MCLocalStore ----------------------------
(***************************************************************************)
(* Values for checking LocalStore.                                         *)
(***************************************************************************)
EXTENDS LocalStore, TLC

CONSTANTS p1, p2, k1, k2, v1, v2

AllStarts == {"none", "legacy", "current"}
Disjoint == {"none", "readers"}
Symmetric == Permutations(Procs) \union Permutations(Keys)
=============================================================================
