--------------------------- MODULE MCBrokerGrant ---------------------------
(***************************************************************************)
(* Values for checking BrokerGrant.                                        *)
(***************************************************************************)
EXTENDS BrokerGrant, TLC

CONSTANTS full, unsigned, low, g1, g2, g3, bad, op1, out, odd, r1, r2

MCContext ==
    (full     :> [signed |-> TRUE, capabilities |-> {"orders"}, trust |-> 2, oasb |-> 1]) @@
    (unsigned :> [signed |-> FALSE, capabilities |-> {"orders"}, trust |-> 2, oasb |-> 1]) @@
    (low      :> [signed |-> TRUE, capabilities |-> {"orders"}, trust |-> 1, oasb |-> None])

Bind(minTrust, oasb, provider) ==
    [trustClass |-> "orders", minTrust |-> minTrust, oasb |-> oasb,
     provider |-> provider, ttl |-> 2]

\* g1 has a minimum and a floor; the provider of g2 is not registered.
MCBinding == (g1 :> Bind(2, 1, "okta")) @@ (g2 :> Bind(None, None, "gone"))

\* No number, one below the range and one above it.
MCLives == {None, -1, 3}

\* An agent that asks for what it may have, under the name of another; and each way to
\* ask for something else.
Plain == [agentId |-> low, holder |-> full, genuine |-> TRUE, grant |-> g1, op |-> op1]
MCJobs ==
    {Plain} \union {[Plain EXCEPT !.holder = a] : a \in Agents}
            \union {[Plain EXCEPT !.grant = g] : g \in {g2, g3, bad}}
            \union {[Plain EXCEPT !.op = o] : o \in {out, odd}}
            \union {[Plain EXCEPT !.genuine = FALSE]}
=============================================================================
