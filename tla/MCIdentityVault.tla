-------------------------- MODULE MCIdentityVault --------------------------
(***************************************************************************)
(* Values for checking IdentityVault.                                      *)
(***************************************************************************)
EXTENDS IdentityVault, TLC

CONSTANTS p1, p2, n1, n2, k1, k2

Symmetric == Permutations(Procs) \union Permutations(Keys) \union Permutations(Names)
=============================================================================
