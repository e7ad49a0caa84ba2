--------------------------- MODULE MCRateLimiter ---------------------------
(***************************************************************************)
(* Values for checking RateLimiter: three keys of two limits, so that one  *)
(* fills before the others, and more keys than the cleanup threshold.      *)
(***************************************************************************)
EXTENDS RateLimiter, TLC

CONSTANTS k1, k2, k3

MCKeys == {k1, k2, k3}
MCLimit == (k1 :> 1) @@ (k2 :> 2) @@ (k3 :> 2)
=============================================================================
