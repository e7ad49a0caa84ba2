--------------------------- MODULE BrokerResolve ---------------------------
(***************************************************************************)
(* POST /resolve of the credential broker: the authentication and body     *)
(* checks of server.ts, the identity cache of aim-client.ts in front of    *)
(* the AIM server, the decision of policy.ts, the rate limiter, and the    *)
(* audit record written with each answer.                                  *)
(*                                                                         *)
(* Requests interleave at the awaits of handleResolve: the AIM fetch and   *)
(* the resolution of the credential.  From one await to the next the Node  *)
(* process runs alone, so such a stretch is one action; the continuations  *)
(* of a fetch that is served from the cache run before the clock is read   *)
(* again, and are part of the same action.                                 *)
(*                                                                         *)
(* The AIM server, the credential backends and the disk under the audit    *)
(* log are outside: the AIM server changes its mind about an agent at any  *)
(* time, and answers a fetch with what it holds when it is asked.  The     *)
(* socket timeout of a fetch bounds a silence, not the fetch: an answer    *)
(* that trickles in may arrive any time after it was composed.             *)
(***************************************************************************)
EXTENDS Integers, Sequences, FiniteSets, FiniteSetsExt

CONSTANTS
    Agents,            \* agent ids requests name
    Creds,             \* credential names requests name
    Requests,          \* the requests of a run
    Rules,             \* the rules of the policy file, in their order
    KeyOf,             \* KeyOf[<<a, c>>]: the string `${agentId}:${credentialName}`
    Identities,        \* what AIM may hold for an agent
    AimConfigured,     \* is there an AIM client?
    AimMayAbort,       \* may AIM drop a connection in the middle of a body?
    AuditMayFail,      \* may logEvent throw (disk full, unwritable file)?
    Ttl,               \* cacheTtlMs
    WindowMs, CleanupThreshold, MaxTime,
    None               \* an absent constraint, identity or answer

VARIABLES
    now, windows, admitted,  \* the limiter and its history: see RateLimiter
    aim,        \* AIM's record of each agent, None when it has none
    since,      \* history: when that record last changed
    told,       \* history: when an answer AIM no longer gives last reached the broker
    cache,      \* the identity cache: agent -> [identity, expiresAt]
    pc,         \* where the handler of each request stands
    job,        \* the agent and the credential each request named
    answer,     \* the AIM answer on its way to a fetch: [identity]
    decision,   \* history: what evaluate returned, and when
    log,        \* the audit records written for each request
    reply,      \* the HTTP status each request was answered with
    alive,      \* does the broker process run?
    resolver    \* was it built with a resolver, and with a policy?

limiterVars == <<now, windows, admitted>>
aimVars == <<aim, since>>
requestVars == <<pc, job, answer, decision, log, reply>>
processVars == <<alive, resolver>>
vars == <<limiterVars, aimVars, told, cache, requestVars, processVars>>

-----------------------------------------------------------------------------
(* The policy engine.                                                      *)

\* matchGlob of both selectors of a rule: a selector is the set it matches.
Matches(rule, a, c) == a \in rule.agents /\ c \in rule.creds

\* The rules of an effect that match, by their place in the file.
Matching(effect, a, c) ==
    {i \in DOMAIN Rules : Rules[i].effect = effect /\ Matches(Rules[i], a, c)}

\* The trust score and the capability a rule asks of an identity.
Vouches(rule, identity) ==
    /\ rule.minTrust # None => identity # None /\ identity.trust >= rule.minTrust
    /\ rule.capability # None =>
           identity # None /\ rule.capability \in identity.capabilities

\* checkConstraints up to the rate limit.
Passes(rule, identity, t) == t \in rule.hours /\ Vouches(rule, identity)

\* evaluate up to the rate limit: deny rules first, then the first allow rule.
Verdict(a, c, identity) ==
    LET deny  == Matching("deny", a, c)
        allow == Matching("allow", a, c)
    IN  IF deny # {} THEN [rule |-> Min(deny), code |-> "rule-deny"]
        ELSE IF allow = {} THEN [rule |-> 0, code |-> "rule-default-deny"]
        ELSE [rule |-> Min(allow),
              code |-> IF Passes(Rules[Min(allow)], identity, now)
                       THEN "rule-allow" ELSE "rule-constraint"]

\* The pairs whose deciding rule has a rate limit, and the keys they count under.
Rated ==
    {p \in Agents \X Creds :
        /\ Matching("deny", p[1], p[2]) = {}
        /\ Matching("allow", p[1], p[2]) # {}
        /\ Rules[Min(Matching("allow", p[1], p[2]))].maxPerMinute # None}

MaxPerMinute(p) == Rules[Min(Matching("allow", p[1], p[2]))].maxPerMinute

RatedKeys == {KeyOf[p] : p \in Rated}
RatedLimit == [k \in RatedKeys |-> MaxPerMinute(CHOOSE p \in Rated : KeyOf[p] = k)]

RL == INSTANCE RateLimiter WITH Keys <- RatedKeys, Limit <- RatedLimit

\* What validateRule admits, and two pairs that share a key share a limit.
ASSUME RulesAssumption ==
    /\ Len(Rules) \in Nat /\ DOMAIN Rules = 1..Len(Rules)
    /\ \A i \in DOMAIN Rules :
          Rules[i].maxPerMinute # None => Rules[i].maxPerMinute \in Nat \ {0}
    /\ \A p, q \in Rated : KeyOf[p] = KeyOf[q] => MaxPerMinute(p) = MaxPerMinute(q)

ASSUME ResolveAssumption ==
    /\ Ttl \in Nat \ {0}
    /\ WindowMs \in Nat \ {0}
    /\ CleanupThreshold \in Nat
    /\ MaxTime \in Nat
    /\ IsFiniteSet(Requests)
    /\ None \notin Identities \union Nat \union [identity : Identities \union {None}]
    /\ None \notin [rule : Nat, code : {"rule-allow"}, at : Nat]

-----------------------------------------------------------------------------
Init ==
    /\ RL!Init
    /\ aim \in [Agents -> IF AimConfigured THEN Identities \union {None} ELSE {None}]
    /\ since = [a \in Agents |-> 0]
    /\ told = [a \in Agents |-> 0]
    /\ cache = [a \in {} |-> None]
    /\ pc = [r \in Requests |-> "idle"]
    /\ job = [r \in Requests |-> None]
    /\ answer = [r \in Requests |-> None]
    /\ decision = [r \in Requests |-> None]
    /\ log = [r \in Requests |-> << >>]
    /\ reply = [r \in Requests |-> None]
    /\ alive = TRUE
    /\ resolver \in BOOLEAN

\* sendJson
Answer(r, status) ==
    /\ pc' = [pc EXCEPT ![r] = "answered"]
    /\ reply' = [reply EXCEPT ![r] = status]

\* Mutant of RecordAndAnswer: the answer goes out whether or not the record was written.
RecordAndAnswerMutSwallows(r, result, status) ==
    /\ Answer(r, status)
    /\ \/ log' = [log EXCEPT ![r] = Append(@, result)]
       \/ AuditMayFail /\ UNCHANGED log

\* logEvent, then sendJson; when logEvent throws, the handler's catch answers 400.
RecordAndAnswer(r, result, status) ==
    \/ /\ log' = [log EXCEPT ![r] = Append(@, result)]
       /\ Answer(r, status)
    \/ /\ AuditMayFail
       /\ UNCHANGED log
       /\ Answer(r, 400)

\* What evaluate returned for r.
Decided(r, v) ==
    decision' = [decision EXCEPT ![r] = [rule |-> v.rule, code |-> v.code, at |-> now]]

Granted(r) == decision[r] # None /\ decision[r].code = "rule-allow"

\* Mutant of Decide: the rate limit is checked before the other constraints.
DecideMutRateFirst(r, a, c, identity) ==
    LET v == Verdict(a, c, identity)
        k == KeyOf[<<a, c>>]
    IN  /\ job' = [job EXCEPT ![r] = [agent |-> a, cred |-> c]]
        /\ \/ /\ <<a, c>> \in Rated
              /\ RL!CheckRefused(k)
              /\ Decided(r, [v EXCEPT !.code = "rule-rate-limit-exceeded"])
              /\ RecordAndAnswer(r, "denied", 403)
           \/ /\ IF <<a, c>> \in Rated THEN RL!CheckAdmitted(k)
                                       ELSE UNCHANGED limiterVars
              /\ Decided(r, v)
              /\ IF v.code = "rule-allow"
                 THEN pc' = [pc EXCEPT ![r] = "resolving"] /\ UNCHANGED <<log, reply>>
                 ELSE RecordAndAnswer(r, "denied", 403)

\* policy.evaluate, and what handleResolve does with a refusal.
Decide(r, a, c, identity) ==
    LET v == Verdict(a, c, identity)
        k == KeyOf[<<a, c>>]
    IN  /\ job' = [job EXCEPT ![r] = [agent |-> a, cred |-> c]]
        /\ \/ /\ v.code # "rule-allow"
              /\ Decided(r, v)
              /\ RecordAndAnswer(r, "denied", 403)
              /\ UNCHANGED limiterVars
           \/ /\ v.code = "rule-allow"
              /\ <<a, c>> \in Rated
              /\ RL!CheckRefused(k)
              /\ Decided(r, [v EXCEPT !.code = "rule-rate-limit-exceeded"])
              /\ RecordAndAnswer(r, "denied", 403)
           \/ /\ v.code = "rule-allow"
              /\ IF <<a, c>> \in Rated THEN RL!CheckAdmitted(k)
                                       ELSE UNCHANGED limiterVars
              /\ Decided(r, v)
              /\ pc' = [pc EXCEPT ![r] = "resolving"]
              /\ UNCHANGED <<log, reply>>

-----------------------------------------------------------------------------
\* A wrong bearer token.  The record is written in the request listener itself,
\* which nothing guards: when it cannot be written the process ends.
Unauthorized(r) ==
    /\ alive /\ pc[r] = "idle"
    /\ \/ /\ log' = [log EXCEPT ![r] = Append(@, "denied")]
          /\ Answer(r, 401)
          /\ UNCHANGED alive
       \/ /\ AuditMayFail
          /\ alive' = FALSE
          /\ UNCHANGED <<pc, reply, log>>
    /\ UNCHANGED <<limiterVars, aimVars, told, cache, job, answer, decision, resolver>>

\* A broker built with resolver: null answers before it reads the body, with no record.
NoResolver(r) ==
    /\ alive /\ pc[r] = "idle" /\ ~resolver
    /\ Answer(r, 404)
    /\ UNCHANGED <<limiterVars, aimVars, told, cache, job, answer, decision, log, processVars>>

\* A body that does not arrive, is not JSON, repeats a member or lacks a name.
Malformed(r) ==
    /\ alive /\ pc[r] = "idle" /\ resolver
    /\ Answer(r, 400)
    /\ UNCHANGED <<limiterVars, aimVars, told, cache, job, answer, decision, log, processVars>>

\* The duplicate-member scanner does not load.
ScannerUnavailable(r) ==
    /\ alive /\ pc[r] = "idle" /\ resolver
    /\ RecordAndAnswer(r, "denied", 503)
    /\ UNCHANGED <<limiterVars, aimVars, told, cache, job, answer, decision, processVars>>

\* Mutant of Fresh: an entry is served for one reading of the clock too long.
FreshMutBoundary(a) == a \in DOMAIN cache /\ cache[a].expiresAt + 1 > now

\* getAgentIdentity finds an entry it may serve.
Fresh(a) == a \in DOMAIN cache /\ cache[a].expiresAt > now

\* A request decided at once: there is no AIM client, or the cache serves the agent.
ResolveWithoutFetch(r, a, c) ==
    /\ alive /\ pc[r] = "idle" /\ resolver
    /\ AimConfigured => Fresh(a)
    /\ Decide(r, a, c, IF AimConfigured THEN cache[a].identity ELSE None)
    /\ UNCHANGED <<aimVars, told, cache, answer, processVars>>

\* getAgentIdentity evicts the expired entry and asks AIM.
StartFetch(r, a, c) ==
    /\ alive /\ pc[r] = "idle" /\ resolver
    /\ AimConfigured /\ ~Fresh(a)
    /\ cache' = [b \in DOMAIN cache \ {a} |-> cache[b]]
    /\ job' = [job EXCEPT ![r] = [agent |-> a, cred |-> c]]
    /\ pc' = [pc EXCEPT ![r] = "fetching"]
    /\ UNCHANGED <<limiterVars, aimVars, told, answer, decision, log, reply, processVars>>

\* AIM answers with what it holds.
AimAnswers(r) ==
    /\ pc[r] = "fetching" /\ answer[r] = None
    /\ answer' = [answer EXCEPT ![r] = [identity |-> aim[job[r].agent]]]
    /\ UNCHANGED <<limiterVars, aimVars, told, cache, pc, job, decision, log, reply, processVars>>

\* The answer arrives: a record is cached, a 404 is not, and the request is decided.
\* What onAuthError records for a 404 is about AIM and its failure is swallowed.
AimReplies(r) ==
    /\ alive /\ pc[r] = "fetching" /\ answer[r] # None
    /\ LET a == job[r].agent
           identity == answer[r].identity
       IN  /\ cache' = IF identity = None THEN cache
                       ELSE [b \in DOMAIN cache \union {a} |->
                               IF b = a THEN [identity |-> identity,
                                              expiresAt |-> now + Ttl]
                                        ELSE cache[b]]
           /\ told' = IF identity = aim[a] THEN told ELSE [told EXCEPT ![a] = now]
           /\ Decide(r, a, job[r].cred, identity)
    /\ answer' = [answer EXCEPT ![r] = None]
    /\ UNCHANGED <<aimVars, processVars>>

\* Mutant of AimFails: the timeout destroys the request and resolves nothing.
AimFailsMutNeverSettles(r) ==
    /\ alive /\ pc[r] = "fetching" /\ answer[r] # None
    /\ Decide(r, job[r].agent, job[r].cred, None)
    /\ answer' = [answer EXCEPT ![r] = None]
    /\ UNCHANGED <<aimVars, told, cache, processVars>>

\* The fetch ends without an identity: unreachable, timed out, refused or unreadable.
AimFails(r) ==
    /\ alive /\ pc[r] = "fetching"
    /\ Decide(r, job[r].agent, job[r].cred, None)
    /\ answer' = [answer EXCEPT ![r] = None]
    /\ UNCHANGED <<aimVars, told, cache, processVars>>

\* AIM drops the connection after the status line: the response emits neither end
\* nor timeout, the request emits no error, and nothing settles the promise.
AimAborts(r) ==
    /\ AimMayAbort
    /\ alive /\ pc[r] = "fetching" /\ answer[r] # None
    /\ pc' = [pc EXCEPT ![r] = "hung"]
    /\ answer' = [answer EXCEPT ![r] = None]
    /\ UNCHANGED <<limiterVars, aimVars, told, cache, job, decision, log, reply, processVars>>

\* resolver.resolve throws: recorded as denied, answered 500.
BackendFails(r) ==
    /\ alive /\ pc[r] = "resolving"
    /\ RecordAndAnswer(r, "denied", 500)
    /\ UNCHANGED <<limiterVars, aimVars, told, cache, job, answer, decision, processVars>>

\* Mutant of Resolved: the slot of a credential that is missing is given back.
ResolvedMutRefunds(r, result, status) ==
    LET k == KeyOf[<<job[r].agent, job[r].cred>>]
    IN  /\ alive /\ pc[r] = "resolving"
        /\ log' = [log EXCEPT ![r] = Append(@, result)]
        /\ Answer(r, status)
        /\ windows' = IF status = 404 /\ k \in DOMAIN windows
                      THEN [windows EXCEPT ![k] = SubSeq(@, 1, Len(@) - 1)] ELSE windows
        /\ UNCHANGED <<now, admitted, aimVars, told, cache, job, answer, decision, processVars>>

\* resolver.resolve returns.  A record that cannot be written throws inside the
\* try, and its catch records and answers as for a backend that failed.
Resolved(r, result, status) ==
    /\ alive /\ pc[r] = "resolving"
    /\ \/ /\ log' = [log EXCEPT ![r] = Append(@, result)]
          /\ Answer(r, status)
       \/ /\ AuditMayFail
          /\ RecordAndAnswer(r, "denied", 500)
    /\ UNCHANGED <<limiterVars, aimVars, told, cache, job, answer, decision, processVars>>

CredentialFound(r) == Resolved(r, "allowed", 200)
CredentialMissing(r) == Resolved(r, "denied", 404)

\* AIM changes an agent's trust score or capabilities, or forgets the agent.
AimChanges(a) ==
    /\ AimConfigured
    /\ \E identity \in (Identities \union {None}) \ {aim[a]} :
           aim' = [aim EXCEPT ![a] = identity]
    /\ since' = [since EXCEPT ![a] = now]
    /\ UNCHANGED <<limiterVars, told, cache, requestVars, processVars>>

\* Time passes, for however long AIM draws an answer out.
Tick == RL!Tick /\ UNCHANGED <<aimVars, told, cache, requestVars, processVars>>

HandlerStep(r) ==
    \/ AimReplies(r) \/ AimFails(r) \/ AimAborts(r)
    \/ CredentialFound(r) \/ CredentialMissing(r) \/ BackendFails(r)

Next ==
    \/ \E r \in Requests :
          \/ Unauthorized(r) \/ NoResolver(r) \/ Malformed(r) \/ ScannerUnavailable(r)
          \/ \E a \in Agents, c \in Creds :
                ResolveWithoutFetch(r, a, c) \/ StartFetch(r, a, c)
          \/ AimAnswers(r)
          \/ HandlerStep(r)
    \/ \E a \in Agents : AimChanges(a)
    \/ Tick

\* A fetch ends by its answer, which MAX_RESPONSE_SIZE bounds, or by a silence of
\* REQUEST_TIMEOUT_MS; one that is cut ends as "hung".  A backend returns or throws.
Fairness == \A r \in Requests : WF_vars(HandlerStep(r))

Spec == Init /\ [][Next]_vars /\ Fairness
-----------------------------------------------------------------------------
\* Every variable has its shape, and the stage of a request agrees with what is
\* recorded of it: decided requests have a decision, answered ones a status.
TypeOK ==
    /\ RL!TypeOK
    /\ aim \in [Agents -> Identities \union {None}]
    /\ since \in [Agents -> 0..MaxTime]
    /\ told \in [Agents -> 0..MaxTime]
    /\ DOMAIN cache \subseteq Agents
    /\ \A a \in DOMAIN cache :
          cache[a] \in [identity : Identities, expiresAt : 0..(MaxTime + Ttl)]
    /\ pc \in [Requests -> {"idle", "fetching", "resolving", "hung", "answered"}]
    /\ job \in [Requests -> [agent : Agents, cred : Creds] \union {None}]
    /\ answer \in [Requests -> [identity : Identities \union {None}] \union {None}]
    /\ decision \in [Requests ->
          [rule : 0..Len(Rules), at : 0..MaxTime,
           code : {"rule-allow", "rule-deny", "rule-default-deny",
                   "rule-constraint", "rule-rate-limit-exceeded"}] \union {None}]
    /\ log \in [Requests -> Seq({"allowed", "denied"})]
    /\ reply \in [Requests -> {None, 200, 400, 401, 403, 404, 500, 503}]
    /\ alive \in BOOLEAN /\ resolver \in BOOLEAN
    /\ \A r \in Requests :
          /\ pc[r] = "answered" <=> reply[r] # None
          /\ pc[r] = "resolving" => Granted(r)
          /\ answer[r] # None => pc[r] = "fetching"

\* The answers that leave no record: to a body that names nothing, or whose record
\* could not be written, and of a broker that resolves nothing.
Unrecorded == {None, 400} \union (IF resolver THEN {} ELSE {404})

(***************************************************************************)
(* The audit trail tells what was answered: the value of a credential      *)
(* leaves the broker exactly for the requests with one "allowed" record,   *)
(* every refusal by a status of its own has one "denied" record, and a 400 *)
(* has none, whichever write failed on the way.  The one refusal without a *)
(* record is the 404 of a broker built with no resolver.                   *)
(***************************************************************************)
LogAgreesWithReply ==
    \A r \in Requests :
        /\ reply[r] = 200 <=> log[r] = <<"allowed">>
        /\ reply[r] \in {401, 403, 404, 500, 503} \ Unrecorded <=> log[r] = <<"denied">>
        /\ reply[r] \in Unrecorded <=> log[r] = << >>

\* The requests let through under a rated key.
Counted(k) ==
    {r \in Requests :
        LET pair == <<job[r].agent, job[r].cred>>
        IN  Granted(r) /\ pair \in Rated /\ KeyOf[pair] = k}

(***************************************************************************)
(* "denied requests from other constraints do not consume rate limit       *)
(* slots": the slots used up under a key are the requests let through to   *)
(* the resolver under it, one each.                                        *)
(***************************************************************************)
SlotsMatchDecisions == \A k \in RatedKeys : Len(admitted[k]) = Cardinality(Counted(k))

(***************************************************************************)
(* The limiter inside the broker is the limiter: whatever requests do to   *)
(* each other at the awaits, the broker changes the windows as RateLimiter *)
(* says, and no other way.                                                 *)
(***************************************************************************)
LimiterContract == RL!Spec

\* The requests of a pair let through after a moment.
GrantedSince(p, t) ==
    {r \in Requests : /\ Granted(r) /\ decision[r].at > t
                      /\ <<job[r].agent, job[r].cred>> = p}

(***************************************************************************)
(* "rateLimit.maxPerMinute: per agent + credential pair": no window lets   *)
(* more requests of a pair through than its rule says.                     *)
(***************************************************************************)
QuotaPerPair ==
    \A p \in Rated : \A t \in 0..MaxTime :
        Cardinality({r \in GrantedSince(p, t - WindowMs) : decision[r].at <= t})
            <= MaxPerMinute(p)

(***************************************************************************)
(* The same promise from the other side: a pair is refused for its rate    *)
(* only when requests of that very pair have used its limit up.            *)
(***************************************************************************)
RefusedForOwnUse ==
    [][\A r \in Requests :
         /\ decision[r] = None
         /\ decision'[r] # None
         /\ decision'[r].code = "rule-rate-limit-exceeded"
         => LET p == <<job'[r].agent, job'[r].cred>>
            IN  Cardinality(GrantedSince(p, now - WindowMs)) >= MaxPerMinute(p)]_vars

(***************************************************************************)
(* A trust score that AIM has lowered, or an agent it has forgotten, stops *)
(* passing minTrustScore cacheTtlMs after the change, or after the last    *)
(* answer composed before the change has reached the broker, although      *)
(* fetches of one agent overlap and the one that started first may be the  *)
(* one that fills the cache last.  How late such an answer may reach it    *)
(* the code does not bound.                                                *)
(***************************************************************************)
RevocationTakesEffect ==
    [][\A r \in Requests :
         /\ decision[r] = None /\ decision'[r] # None
         /\ decision'[r].code = "rule-allow"
         /\ AimConfigured
         /\ ~Vouches(Rules[decision'[r].rule], aim[job'[r].agent])
         => LET a == job'[r].agent
            IN  now < since[a] + Ttl \/ now < told'[a] + Ttl]_vars

(***************************************************************************)
(* "Fails gracefully if AIM is unavailable": a request the broker has      *)
(* begun to serve is answered, unless the process ends.                    *)
(***************************************************************************)
EveryRequestAnswered ==
    \A r \in Requests :
        (pc[r] \in {"fetching", "resolving"}) ~> (pc[r] = "answered" \/ ~alive)

(***************************************************************************)
(* What holds of it: whatever fails on the way, at AIM, in a backend or in *)
(* the audit log, a request the broker has begun to serve is answered,     *)
(* unless the process ends or AIM drops the connection in its answer.      *)
(***************************************************************************)
EveryRequestSettles ==
    \A r \in Requests :
        (pc[r] \in {"fetching", "resolving"}) ~> (pc[r] \in {"answered", "hung"} \/ ~alive)

(***************************************************************************)
(* "Allow rules checked next (first match with passing constraints =       *)
(* allowed)": a request some matching allow rule passes, and no deny rule  *)
(* matches, is not refused for the constraints of another rule.            *)
(***************************************************************************)
FirstPassingRuleAllows ==
    [][\A r \in Requests :
         /\ decision[r] = None /\ decision'[r] # None
         /\ decision'[r].code = "rule-constraint"
         => \A i \in Matching("allow", job'[r].agent, job'[r].cred) :
                ~(/\ now \in Rules[i].hours
                  /\ Rules[i].minTrust = None
                  /\ Rules[i].capability = None
                  /\ Rules[i].maxPerMinute = None)]_vars
=============================================================================
