---------------------------- MODULE MCMcpProtect ----------------------------
(***************************************************************************)
(* Values for checking McpProtect.                                         *)
(***************************************************************************)
EXTENDS McpProtect, TLC

CONSTANTS h, h2, p, q, k1, k2, v1, v2, c1, c2, r1, r2

HomeFirst == (h :> 1) @@ (p :> 2) @@ (q :> 3)
JustHome == h :> 1
TwoHomes == (h :> 1) @@ (h2 :> 2) @@ (p :> 3) @@ (q :> 4)

\* What a place may hold at first: nothing, or an entry of the user's.
OneKey == {NoFile, Entry([k \in EnvKeys |-> IF k = k1 THEN v1 ELSE None], c1)}
=============================================================================
