-------------------------- MODULE MCBrokerResolve --------------------------
(***************************************************************************)
(* Values for checking BrokerResolve.                                      *)
(***************************************************************************)
EXTENDS BrokerResolve, TLC

CONSTANTS a1, a2, c1, c2, q1, q2, q3

High == [trust |-> 9, capabilities |-> {"deploy"}]
Low  == [trust |-> 1, capabilities |-> {}]
MCIdentities == {High, Low}

AllHours == 0..MaxTime

Allow(agents, hours, minTrust, capability, max) ==
    [effect |-> "allow", agents |-> agents, creds |-> Creds, hours |-> hours,
     minTrust |-> minTrust, capability |-> capability, maxPerMinute |-> max]

\* a1 is rated and needs trust; a2 has a denied rule behind an allow rule.
TrustRules ==
    << Allow({a1}, AllHours, 5, "deploy", 1),
       Allow({a2}, AllHours, None, None, None),
       [Allow({a2}, AllHours, None, None, None) EXCEPT !.effect = "deny"] >>

\* Both agents are rated, from the second reading of the clock on.
RatedRules == << Allow({a1, a2}, 1..MaxTime, None, None, 1) >>

\* As RatedRules, with a second limit, and with a credential that a last rule denies.
QuotaRules ==
    << Allow({a1}, 1..MaxTime, None, None, 1),
       Allow({a2}, AllHours, None, None, 2),
       [Allow({a1, a2}, AllHours, None, None, None) EXCEPT
           !.effect = "deny", !.creds = {c2}] >>

\* A closed rule in front of an open one.
ShadowRules ==
    << Allow({a1}, {}, None, None, None),
       Allow({a1, a2}, AllHours, None, None, None) >>

PairKeys == [p \in Agents \X Creds |-> p]

\* a1 is agent "x", a2 agent "x:y", c1 credential "y:z" and c2 credential "z".
CollidingKeys ==
    (<<a1, c1>> :> "x:y:z") @@ (<<a1, c2>> :> "x:z") @@
    (<<a2, c1>> :> "x:y:y:z") @@ (<<a2, c2>> :> "x:y:z")

Symmetric == Permutations(Requests)
=============================================================================
