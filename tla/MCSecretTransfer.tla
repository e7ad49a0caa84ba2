-------------------------- MODULE MCSecretTransfer -------------------------
(***************************************************************************)
(* Values for checking SecretTransfer.                                     *)
(***************************************************************************)
EXTENDS SecretTransfer, TLC

CONSTANTS p1, p2, a, b, m

\* The names of b and of the server's key m are one.
OneName == [k \in Keys |-> IF k = m THEN b ELSE k]
ByOrder == [ks \in SUBSET Keys |-> SelectSeq(<<a, b, m>>, LAMBDA k : k \in ks)]

Holding(va, vb, vm) == [k \in Keys |-> CASE k = a -> va [] k = b -> vb [] k = m -> vm]
HereAtFirst == {Holding(1, 1, 1), Holding(1, None, None)}
SharedAtFirst == {Holding(2, 2, None), Holding(1, None, 2)}

\* One process moves values, the other changes what is there.
ByRole == [p \in Runs |-> IF p = p1 THEN {"sync", "push", "migrate"} ELSE {"set", "remove", "purge", "use"}]
=============================================================================
