---------------------------- MODULE BrokerGrant ----------------------------
(***************************************************************************)
(* POST /grant of the credential broker: the checks of server.ts, the      *)
(* grant policy, and the steps of grant-resolver.ts from the presented ATX *)
(* to the one audit record of the answer.                                  *)
(*                                                                         *)
(* A request gives up the event loop at three awaits: the AIM lookup, the  *)
(* exchange of its CGT for a scoped credential, and the operation run with *)
(* that credential.  From one await to the next is one action.             *)
(*                                                                         *)
(* The token service and the resource are outside.  Each does its part     *)
(* (Issue, CarryOut) at a moment of its own, before the broker learns of   *)
(* it, so a failure the broker sees may come before or after the effect.   *)
(***************************************************************************)
EXTENDS Integers, Sequences, FiniteSets, FiniteSetsExt

CONSTANTS
    Requests,          \* the requests of a run
    Agents,            \* the holders of an ATX
    Context,           \* what the ATX of each agent says of it
    Malformed,         \* the grant references that parseGrantRef refuses
    Binding,           \* the bindings of the grant file, by grant reference
    Providers,         \* the provider ids that are registered
    Jobs,              \* what requests present: [agentId, holder, genuine, grant, op]
    Escaping,          \* the operations whose path leaves the audience's origin
    Ragged,            \* the operations that have no canonical JSON form
    Lives,             \* the lives a token service states
    AimConfigured,     \* is there an AIM client?
    DeliversSalt,      \* does the downstream caller deliver salts?
    MaxAuditFailures,  \* how often the audit log may refuse a write in a run
    None               \* an absent member or answer

VARIABLES
    revoked,   \* the agents whose ATX the revocation list names
    pc,        \* where the handler of each request stands
    job,       \* what each request presented
    stale,     \* history: the requests whose ATX was already revoked when they came
    verdict,   \* history: what AIM said of its agent
    known,     \* what resolve has to put in a record: recordedAgent, cgtJti, committed
    issued,    \* the CGTs the token service honoured, by the request they are of
    handed,    \* what the worker's caller was handed: operation, salted, life
    carried,   \* the requests whose operation the resource carried out
    log,       \* the audit records of each request
    reply,     \* the HTTP status each request was answered with
    failures,  \* how often the audit log has refused a write
    served     \* was the broker built with a grant resolver?

outside == <<revoked, issued, carried, served>>
vars == <<revoked, pc, job, stale, verdict, known, issued, handed, carried,
          log, reply, failures, served>>

ASSUME GrantAssumption ==
    /\ Malformed \intersect DOMAIN Binding = {}
    /\ MaxAuditFailures \in Nat
    /\ \A g \in DOMAIN Binding : Binding[g].ttl \in Nat \ {0}

\* Levels are numbers, a request is of an agent, and an absent member is no value.
ASSUME ValuesAssumption ==
    /\ \A a \in Agents : /\ Context[a].trust \in Int \union {None}
                         /\ Context[a].oasb \in Int \union {None}
    /\ \A g \in DOMAIN Binding : /\ Binding[g].minTrust \in Int \union {None}
                                 /\ Binding[g].oasb \in Int \union {None}
    /\ \A j \in Jobs : j.holder \in Agents
    /\ Lives \subseteq Int \union {None} /\ DeliversSalt \in BOOLEAN
    /\ None \notin Int /\ None \notin Jobs
    /\ None \notin {"unverified", "atx-signature-invalid", "atx-revoked",
                    "policy-no-binding", "policy-capabilities-unsigned",
                    "policy-no-capability-list", "policy-trust-class-missing",
                    "policy-trust-level-not-number", "policy-trust-level-below-minimum",
                    "policy-oasb-level-absent", "policy-oasb-level-below-floor"}
    /\ \A j \in Jobs, g \in DOMAIN Binding : \A salted \in BOOLEAN, life \in 0..Binding[g].ttl :
           None # [op |-> j.op, salted |-> salted, life |-> life]

-----------------------------------------------------------------------------
(* The grant policy and the ceiling on a credential's life.                *)

\* Mutant of PolicyDenial: a holder of the trust class is asked for nothing else.
PolicyDenialMutClassOnly(g, ctx) ==
    IF g \notin DOMAIN Binding THEN "policy-no-binding"
    ELSE IF ctx.capabilities = None \/ Binding[g].trustClass \notin ctx.capabilities
         THEN "policy-trust-class-missing"
    ELSE None

\* GrantPolicy.evaluate: the code it denies with, or None.
PolicyDenial(g, ctx) ==
    IF g \notin DOMAIN Binding THEN "policy-no-binding" ELSE
    LET m == Binding[g] IN
    IF ~ctx.signed THEN "policy-capabilities-unsigned"
    ELSE IF ctx.capabilities = None THEN "policy-no-capability-list"
    ELSE IF m.trustClass \notin ctx.capabilities THEN "policy-trust-class-missing"
    ELSE IF m.minTrust # None /\ ctx.trust = None THEN "policy-trust-level-not-number"
    ELSE IF m.minTrust # None /\ ctx.trust < m.minTrust
         THEN "policy-trust-level-below-minimum"
    ELSE IF m.oasb # None /\ ctx.oasb = None THEN "policy-oasb-level-absent"
    ELSE IF m.oasb # None /\ ctx.oasb < m.oasb THEN "policy-oasb-level-below-floor"
    ELSE None

\* capCredentialLife
CapLife(stated, ttl) ==
    IF stated = None THEN ttl ELSE Max({0, Min({stated, ttl})})

-----------------------------------------------------------------------------
Init ==
    /\ revoked = {}
    /\ pc = [r \in Requests |-> "idle"]
    /\ job = [r \in Requests |-> None]
    /\ stale = {}
    /\ verdict = [r \in Requests |-> None]
    /\ known = [r \in Requests |-> None]
    /\ issued = {}
    /\ handed = [r \in Requests |-> None]
    /\ carried = {}
    /\ log = [r \in Requests |-> << >>]
    /\ reply = [r \in Requests |-> None]
    /\ failures = 0
    /\ served \in BOOLEAN

Goto(r, place) == pc' = [pc EXCEPT ![r] = place]

\* sendJson, with the records written on the way to it and the writes the log refused.
Answer(r, k, records, status, refused) ==
    /\ Goto(r, "answered")
    /\ known' = [known EXCEPT ![r] = k]
    /\ log' = [log EXCEPT ![r] = records]
    /\ reply' = [reply EXCEPT ![r] = status]
    /\ failures' = failures + refused
    /\ failures' <= MaxAuditFailures

\* Mutant of Entry: an operation is committed to only in the record of a success.
EntryMutOnlyAllowed(r, k, result, reason) ==
    [result |-> result, reason |-> reason, agent |-> k.agent,
     grant |-> IF job'[r].grant \in DOMAIN Binding THEN job'[r].grant ELSE None,
     jti |-> k.jti, committed |-> IF result = "allowed" THEN k.committed ELSE None]

\* The record audit() builds from what resolve knows at the time.
Entry(r, k, result, reason) ==
    [result |-> result, reason |-> reason, agent |-> k.agent,
     grant |-> IF job'[r].grant \in DOMAIN Binding THEN job'[r].grant ELSE None,
     jti |-> k.jti, committed |-> k.committed]

\* Mutant of Fail: an exception leaves resolve, and nothing answers.
FailMutUncaught(r, k, step) == UNCHANGED <<pc, known, log, reply, failures>>

\* A step threw: the catch of resolve records the step.  When that record is refused,
\* the exception reaches handleGrant, which answers 400.
Fail(r, k, step) ==
    \/ Answer(r, k, <<Entry(r, k, "denied", step)>>, 403, 0)
    \/ Answer(r, k, << >>, 400, 1)

\* Mutant of Close: a record the log refuses does not change the answer.
CloseMutSwallows(r, k, result, reason, step, status) ==
    \/ Answer(r, k, <<Entry(r, k, result, reason)>>, status, 0)
    \/ Answer(r, k, << >>, status, 1)

\* A record and its answer.  A write the log refuses throws, inside the same try.
Close(r, k, result, reason, step, status) ==
    \/ Answer(r, k, <<Entry(r, k, result, reason)>>, status, 0)
    \/ Answer(r, k, <<Entry(r, k, "denied", step)>>, 403, 1)
    \/ Answer(r, k, << >>, 400, 2)

Deny(r, k, reason, step) == Close(r, k, "denied", reason, step, 403)

-----------------------------------------------------------------------------
(* server.ts: what is answered before the resolver is asked.               *)

\* A broker that loaded no grant file: 404 before the body is read, and no record.
NotServed(r) ==
    /\ pc[r] = "idle" /\ ~served
    /\ Answer(r, [agent |-> None, jti |-> None, committed |-> None], << >>, 404, 0)
    /\ UNCHANGED <<outside, job, stale, verdict, handed>>

\* The duplicate-member scanner cannot be loaded: recorded, then 503.
ScannerMissing(r) ==
    LET k == [agent |-> None, jti |-> None, committed |-> None]
        entry == [result |-> "denied", reason |-> "scanner-unavailable-grant",
                  agent |-> None, grant |-> None, jti |-> None, committed |-> None]
    IN  /\ pc[r] = "idle" /\ served
        /\ \/ Answer(r, k, <<entry>>, 503, 0)
           \/ Answer(r, k, << >>, 400, 1)
        /\ UNCHANGED <<outside, job, stale, verdict, handed>>

\* A repeated member, or a body that is not a grant request.
BadBody(r) ==
    /\ pc[r] = "idle" /\ served
    /\ Answer(r, [agent |-> None, jti |-> None, committed |-> None], << >>, 400, 0)
    /\ UNCHANGED <<outside, job, stale, verdict, handed>>

-----------------------------------------------------------------------------
(* grant-resolver.ts                                                       *)

\* From the AIM answer to the call of the provider; step is what would be recorded
\* as failed before the policy is asked.
Authorise(r, k, step) ==
    LET g == job'[r].grant
        denial == PolicyDenial(g, Context[job'[r].holder])
    IN  \/ g \in Malformed /\ Deny(r, k, "grant-reference-invalid", step)
        \/ /\ g \notin Malformed /\ denial # None
           /\ Deny(r, k, denial, "policy-error")
        \/ /\ g \notin Malformed /\ denial = None
           /\ Binding[g].provider \notin Providers
           /\ Deny(r, k, "provider-not-registered", "provider-error")
        \/ /\ g \notin Malformed /\ denial = None
           /\ Binding[g].provider \in Providers
           /\ Goto(r, "exchanging")
           /\ known' = [known EXCEPT ![r] = k]
           /\ UNCHANGED <<log, reply, failures>>

\* What verify refuses an ATX for, or None.
AtxRejected(j) ==
    IF ~j.genuine THEN "atx-signature-invalid"
    ELSE IF j.holder \in revoked THEN "atx-revoked" ELSE None

\* A request arrives: agentId is what the body claims, holder is who the ATX is of.
Receive(r, j) ==
    LET claimed  == [agent |-> j.agentId, jti |-> None, committed |-> None]
        verified == [claimed EXCEPT !.agent = j.holder]
    IN  /\ pc[r] = "idle" /\ served
        /\ job' = [job EXCEPT ![r] = j]
        /\ stale' = IF j.holder \in revoked THEN stale \union {r} ELSE stale
        /\ IF AtxRejected(j) # None THEN Deny(r, claimed, AtxRejected(j), "atx-verifier-error")
           ELSE IF AimConfigured
           THEN /\ Goto(r, "aim")
                /\ known' = [known EXCEPT ![r] = verified]
                /\ UNCHANGED <<log, reply, failures>>
           ELSE Authorise(r, verified, "atx-verifier-error")
        /\ UNCHANGED <<outside, verdict, handed>>

\* getAgentIdentity returns, from its cache or AIM's answer: AIM has never seen the agent (or could not be asked), or
\* holds it as verified or not.
LookedUp(r, v) ==
    /\ pc[r] = "aim"
    /\ verdict' = [verdict EXCEPT ![r] = v]
    /\ UNCHANGED job
    /\ IF v = "unverified" THEN Deny(r, known[r], "aim-agent-unverified", "aim-lookup-error")
       ELSE Authorise(r, known[r], "aim-lookup-error")
    /\ UNCHANGED <<outside, stale, handed>>

\* The token service honours the CGT of r.
Issue(r) ==
    /\ pc[r] = "exchanging"
    /\ r \notin issued
    /\ issued' = issued \union {r}
    /\ UNCHANGED <<revoked, pc, job, stale, verdict, known, handed, carried, log,
                   reply, failures, served>>

\* The credential arrives, with the life its issuer states; the operation is checked,
\* committed to when its salt will be delivered, and handed to the caller.
CredentialArrives(r, stated) ==
    LET op == job[r].op
        k  == [known[r] EXCEPT !.jti = r]
    IN  /\ pc[r] = "exchanging"
        /\ r \in issued
        /\ UNCHANGED <<outside, job, stale, verdict>>
        /\ \/ op \in Escaping /\ Fail(r, k, "operation-path-refused") /\ UNCHANGED handed
           \/ /\ op \in Ragged \ Escaping
              /\ DeliversSalt
              /\ Fail(r, k, "operation-not-canonical") /\ UNCHANGED handed
           \/ /\ op \notin Escaping
              /\ DeliversSalt => op \notin Ragged
              /\ Goto(r, "running")
              /\ known' = [known EXCEPT
                     ![r] = [k EXCEPT !.committed = IF DeliversSalt THEN op ELSE None]]
              /\ handed' = [handed EXCEPT
                     ![r] = [op |-> op, salted |-> DeliversSalt,
                             life |-> CapLife(stated, Binding[job[r].grant].ttl)]]
              /\ UNCHANGED <<log, reply, failures>>

\* The exchange fails, times out, or its answer cannot be read.
ExchangeFails(r) ==
    /\ pc[r] = "exchanging"
    /\ UNCHANGED <<outside, job, stale, verdict, handed>>
    /\ Fail(r, known[r], "provider-error")

\* The resource carries out the operation of r.
CarryOut(r) ==
    /\ pc[r] = "running"
    /\ r \notin carried
    /\ carried' = carried \union {r}
    /\ UNCHANGED <<revoked, pc, job, stale, verdict, known, issued, handed, log,
                   reply, failures, served>>

\* The result arrives.
ResultArrives(r) ==
    /\ pc[r] = "running"
    /\ r \in carried
    /\ UNCHANGED <<outside, job, stale, verdict, handed>>
    /\ Close(r, known[r], "allowed", "resolved-exchange", "downstream-error", 200)

\* The call fails or times out, before the resource acts or after.
CallFails(r) ==
    /\ pc[r] = "running"
    /\ UNCHANGED <<outside, job, stale, verdict, handed>>
    /\ Fail(r, known[r], "downstream-error")

\* A response is cut after its headers, AIM's, the token service's or the resource's:
\* "end" is never emitted, and neither is "error" on the request.
ResponseCut(r) ==
    /\ \/ pc[r] = "aim"
       \/ pc[r] = "exchanging" /\ r \in issued
       \/ pc[r] = "running" /\ r \in carried
    /\ Goto(r, "cut")
    /\ UNCHANGED <<outside, job, stale, verdict, known, handed, log, reply, failures>>

\* The issuer revokes an ATX.
Revoke(a) ==
    /\ revoked' = revoked \union {a}
    /\ revoked' # revoked
    /\ UNCHANGED <<pc, job, stale, verdict, known, issued, handed, carried, log,
                   reply, failures, served>>

Next ==
    \/ \E r \in Requests :
          \/ NotServed(r) \/ ScannerMissing(r) \/ BadBody(r)
          \/ \E j \in Jobs : Receive(r, j)
          \/ \E v \in {"unseen", "verified", "unverified"} : LookedUp(r, v)
          \/ Issue(r) \/ CarryOut(r)
          \/ \E stated \in Lives : CredentialArrives(r, stated)
          \/ ExchangeFails(r) \/ ResultArrives(r) \/ CallFails(r) \/ ResponseCut(r)
    \/ \E a \in Agents : Revoke(a)

\* Each await ends: the lookup, the exchange and the call have socket timeouts, which
\* end a silence, and bounds on what they read.  One whose response is cut ends as "cut".
Fairness ==
    \A r \in Requests :
        /\ WF_vars(\E v \in {"unseen", "verified", "unverified"} : LookedUp(r, v))
        /\ WF_vars(ExchangeFails(r) \/ \E stated \in Lives : CredentialArrives(r, stated))
        /\ WF_vars(ResultArrives(r) \/ CallFails(r))

Spec == Init /\ [][Next]_vars /\ Fairness
-----------------------------------------------------------------------------
(* Properties.                                                             *)

TypeOK ==
    /\ pc \in [Requests -> {"idle", "aim", "exchanging", "running", "cut", "answered"}]
    /\ \A r \in Requests :
          /\ reply[r] # None <=> pc[r] = "answered"
          /\ pc[r] \in {"aim", "exchanging", "running", "cut"} => known[r].agent = job[r].holder
          /\ pc[r] \in {"exchanging", "running"} => job[r].grant \in DOMAIN Binding
          /\ pc[r] = "running" => handed[r] # None /\ known[r].jti = r
          /\ Len(log[r]) <= 1
    /\ carried \union issued \subseteq {r \in Requests : job[r] # None}

\* What a binding asks of an ATX, in no order.
Entitles(b, ctx) ==
    /\ ctx.signed
    /\ ctx.capabilities # None /\ b.trustClass \in ctx.capabilities
    /\ b.minTrust # None => ctx.trust # None /\ ctx.trust >= b.minTrust
    /\ b.oasb # None => ctx.oasb # None /\ ctx.oasb >= b.oasb

\* A resource acts only for an agent that was entitled when it asked: its ATX verified
\* and not yet revoked, not known to AIM as unverified, matched by the binding in every
\* predicate; and the credential it is handed lives no longer than the binding allows.
\* grant-resolver.ts: steps 1 to 5 of resolve.
CarriedForTheEntitled ==
    \A r \in carried :
        LET j == job[r] IN
        /\ j.genuine /\ r \notin stale
        /\ verdict[r] # "unverified"
        /\ Entitles(Binding[j.grant], Context[j.holder])
        /\ handed[r].op \notin Escaping
        /\ handed[r].life \in 0..Binding[j.grant].ttl

\* A request is told of a success exactly when its record says so, and a record of a
\* success names the holder of the ATX and an operation the resource carried out; a 403
\* has one record of a denial.  Only an audit log that refused a write leaves an answer
\* of the resolver without a record, and that answer is 400.
\* grant-resolver.ts: audit and the two exits of resolve.
RecordTellsAnswer ==
    \A r \in Requests : pc[r] = "answered" =>
        /\ reply[r] = 200 <=> \E i \in DOMAIN log[r] : log[r][i].result = "allowed"
        /\ reply[r] = 200 => r \in carried /\ log[r][1].agent = job[r].holder
        /\ reply[r] = 403 => Len(log[r]) = 1 /\ log[r][1].result = "denied"
        /\ job[r] # None /\ log[r] = << >> => failures > 0

\* An operation the resource carried out with a salt is one the broker has committed to
\* in a record, once it answered and its log took the record, and a record commits to
\* nothing but what was handed over: no commitment without a holder of its salt.
\* grant-resolver.ts: step 5 of resolve.
CarriedIsCommitted ==
    \A r \in Requests :
        /\ pc[r] = "answered" /\ r \in carried /\ handed[r].salted /\ log[r] # << >> =>
               log[r][1].committed = handed[r].op
        /\ \A i \in DOMAIN log[r] : log[r][i].committed # None =>
               handed[r] # None /\ handed[r].salted /\ log[r][i].committed = handed[r].op

\* Every grant request that was received is answered, whatever fails on the way, unless a
\* response it waits for is cut, of AIM, of the token service or of the resource: then its
\* promise settles never, and neither a record nor an answer is written, for an operation
\* the resource may have carried out.  server.ts: handleGrant; aim-client.ts, worker.ts,
\* http-transport.ts: the listeners of a response.
EveryGrantSettles ==
    \A r \in Requests : job[r] # None ~> reply[r] # None \/ pc[r] = "cut"

\* The record of a request carries the jti of the CGT the token service honoured for it
\* (a hypothesis: see the README).
\* grant-resolver.ts: cgtJti.
HonouredIsLinked ==
    \A r \in issued : log[r] # << >> => log[r][1].jti = r
=============================================================================
