------------------------- MODULE BrokerDaemonProofs ------------------------
(***************************************************************************)
(* The broker daemon: its POST /grant, for every policy, every set of      *)
(* agents and requests, every number of audit writes that fail and every   *)
(* interleaving of the requests with the token service and the resource;   *)
(* and its lifecycle, for every number of processes and stop commands.     *)
(*                                                                         *)
(* The argument for the grant: requests share nothing but the count of     *)
(* refused audit writes, so what is known of a request at each await       *)
(* (RequestInv) is kept by the steps of the others, and each of its own    *)
(* steps takes it from one await's knowledge to the next's.                *)
(*                                                                         *)
(* The argument for the lifecycle (at the end): while each command waits   *)
(* for the one before it, two processes are alive only while one serves    *)
(* and the other is about to see its PID file (Alone), so what a process   *)
(* has put on disk (Holds) is taken away by no other.                      *)
(***************************************************************************)
EXTENDS BrokerGrant, BrokerLifecycle, FiniteSetTheorems, TLAPS

-----------------------------------------------------------------------------
(* What resolve knows of a request at each of its awaits.                  *)

\* Every check up to the exchange was made, and passed.
Cleared(r) ==
    /\ job[r] \in Jobs
    /\ job[r].genuine
    /\ r \notin stale
    /\ verdict[r] # "unverified"
    /\ job[r].grant \in DOMAIN Binding
    /\ Entitles(Binding[job[r].grant], Context[job[r].holder])

\* The commitment a record of the request has to hold.
Sent(r) ==
    IF handed[r] = None THEN None
    ELSE IF handed[r].salted THEN handed[r].op ELSE None

\* The worker's caller has the operation, with a capped credential.
IsHanded(r) ==
    /\ job[r].op \notin Escaping
    /\ \E life \in 0..Binding[job[r].grant].ttl :
          handed[r] = [op |-> job[r].op, salted |-> DeliversSalt, life |-> life]

Knows(r, jti, committed) ==
    known[r] = [agent |-> job[r].holder, jti |-> jti, committed |-> committed]

Open(r) == log[r] = << >> /\ reply[r] = None

\* The one record, the answer, and what they may be together.
Settled(r) ==
    \/ /\ reply[r] = 200 /\ r \in carried /\ job[r] \in Jobs
       /\ log[r] = <<log[r][1]>> /\ log[r][1].result = "allowed"
       /\ log[r][1].agent = job[r].holder /\ log[r][1].committed = Sent(r)
    \/ /\ reply[r] \in {403, 503}
       /\ log[r] = <<log[r][1]>> /\ log[r][1].result = "denied"
       /\ log[r][1].committed = Sent(r)
    \/ reply[r] = 400 /\ log[r] = << >> /\ (job[r] # None => failures > 0)
    \/ reply[r] = 404 /\ log[r] = << >> /\ job[r] = None

RequestInv(r) ==
    /\ pc[r] \in {"idle", "aim", "exchanging", "running", "cut", "answered"}
    /\ job[r] \in Jobs \union {None}
    /\ r \in issued \union carried => job[r] \in Jobs
    /\ pc[r] = "idle" =>
          /\ Open(r) /\ job[r] = None /\ handed[r] = None
          /\ verdict[r] = None /\ r \notin stale
    /\ pc[r] = "aim" =>
          /\ Open(r) /\ job[r] \in Jobs /\ job[r].genuine /\ r \notin stale
          /\ handed[r] = None /\ r \notin carried /\ Knows(r, None, None)
    /\ pc[r] = "exchanging" =>
          /\ Open(r) /\ Cleared(r)
          /\ handed[r] = None /\ r \notin carried /\ Knows(r, None, None)
    /\ pc[r] = "running" =>
          Open(r) /\ Cleared(r) /\ IsHanded(r) /\ Knows(r, r, Sent(r))
    /\ pc[r] = "cut" =>
          /\ Open(r) /\ \E jti \in {r, None} : Knows(r, jti, Sent(r))
          /\ r \in carried => Cleared(r) /\ IsHanded(r)
    /\ pc[r] = "answered" =>
          /\ Settled(r)
          /\ r \in carried => Cleared(r) /\ IsHanded(r)

Stages == {"idle", "aim", "exchanging", "running", "cut", "answered"}

\* The shapes the steps need, and nothing of a request.
Shapes ==
    /\ pc \in [Requests -> Stages] /\ DOMAIN job = Requests /\ DOMAIN verdict = Requests
    /\ DOMAIN known = Requests /\ DOMAIN handed = Requests
    /\ DOMAIN log = Requests /\ DOMAIN reply = Requests
    /\ issued \subseteq Requests /\ carried \subseteq Requests /\ stale \subseteq Requests
    /\ failures \in Nat

GrantInv == Shapes /\ \A r \in Requests : RequestInv(r)

\* A step leaves a request where it is.
Untouched(q) ==
    /\ pc'[q] = pc[q] /\ job'[q] = job[q] /\ verdict'[q] = verdict[q]
    /\ known'[q] = known[q] /\ handed'[q] = handed[q]
    /\ log'[q] = log[q] /\ reply'[q] = reply[q]
    /\ q \in stale' <=> q \in stale
    /\ q \in issued' <=> q \in issued
    /\ q \in carried' <=> q \in carried

\* What a step of r is shown to do.
Frame(r) ==
    /\ Shapes'
    /\ failures' >= failures
    /\ \A q \in Requests \ {r} : Untouched(q)

-----------------------------------------------------------------------------
\* A credential's life is within its binding's ceiling.
LEMMA LifeCapped ==
    ASSUME NEW stated \in Int \union {None}, NEW ttl \in Nat
    PROVE  CapLife(stated, ttl) \in 0..ttl
<1>1. \A x, y \in Int : Min({x, y}) = IF x <= y THEN x ELSE y
  BY DEF Min
<1>2. \A x, y \in Int : Max({x, y}) = IF x >= y THEN x ELSE y
  BY DEF Max
<1>3. CASE stated = None
  BY <1>3 DEF CapLife
<1>4. CASE stated # None
  <2> DEFINE least == Min({stated, ttl})
  <2>1. stated \in Int
    BY <1>4
  <2>2. least \in Int /\ least <= ttl
    BY <1>1, <2>1
  <2>3. Max({0, least}) = IF 0 >= least THEN 0 ELSE least
    BY <1>2, <2>2
  <2>4. CapLife(stated, ttl) = Max({0, least})
    BY <1>4 DEF CapLife
  <2> QED
    BY <2>2, <2>3, <2>4
<1> QED
  BY <1>3, <1>4

\* The policy denies nothing only to an agent that is entitled.
LEMMA NoDenialEntitles ==
    ASSUME NEW a \in Agents, NEW g, PolicyDenial(g, Context[a]) = None
    PROVE  g \in DOMAIN Binding /\ Entitles(Binding[g], Context[a])
<1> DEFINE ctx == Context[a]
           m == Binding[g]
<1>1. /\ "policy-no-binding" # None /\ "policy-capabilities-unsigned" # None
      /\ "policy-no-capability-list" # None /\ "policy-trust-class-missing" # None
      /\ "policy-trust-level-not-number" # None
      /\ "policy-trust-level-below-minimum" # None
      /\ "policy-oasb-level-absent" # None /\ "policy-oasb-level-below-floor" # None
  BY ValuesAssumption, Zenon DEF ValuesAssumption
<1>2. g \in DOMAIN Binding
  BY <1>1 DEF PolicyDenial
<1>3. /\ ctx.signed
      /\ ctx.capabilities # None /\ m.trustClass \in ctx.capabilities
      /\ m.minTrust # None => ctx.trust # None /\ ~(ctx.trust < m.minTrust)
      /\ m.oasb # None => ctx.oasb # None /\ ~(ctx.oasb < m.oasb)
  <2>1. ctx.signed
    BY <1>1, <1>2, Zenon DEF PolicyDenial
  <2>2. ctx.capabilities # None
    BY <1>1, <1>2, <2>1, Zenon DEF PolicyDenial
  <2>3. m.trustClass \in ctx.capabilities
    BY <1>1, <1>2, <2>1, <2>2, Zenon DEF PolicyDenial
  <2>4. m.minTrust # None => ctx.trust # None
    BY <1>1, <1>2, <2>1, <2>2, <2>3, Zenon DEF PolicyDenial
  <2>5. m.minTrust # None => ~(ctx.trust < m.minTrust)
    BY <1>1, <1>2, <2>1, <2>2, <2>3, <2>4, Zenon DEF PolicyDenial
  <2>6. m.oasb # None => ctx.oasb # None
    BY <1>1, <1>2, <2>1, <2>2, <2>3, <2>4, <2>5, Zenon DEF PolicyDenial
  <2>7. m.oasb # None => ~(ctx.oasb < m.oasb)
    BY <1>1, <1>2, <2>1, <2>2, <2>3, <2>4, <2>5, <2>6, Zenon DEF PolicyDenial
  <2> QED
    BY <2>1, <2>2, <2>3, <2>4, <2>5, <2>6, <2>7
<1>4. /\ ctx.trust \in Int \union {None} /\ ctx.oasb \in Int \union {None}
      /\ m.minTrust \in Int \union {None} /\ m.oasb \in Int \union {None}
  BY <1>2, ValuesAssumption DEF ValuesAssumption
<1>5. \A x, y \in Int : ~(x < y) => x >= y
  OBVIOUS
<1>6. m.minTrust # None => ctx.trust # None /\ ctx.trust >= m.minTrust
  BY <1>3, <1>4, <1>5
<1>7. m.oasb # None => ctx.oasb # None /\ ctx.oasb >= m.oasb
  BY <1>3, <1>4, <1>5
<1> QED
  BY <1>2, <1>3, <1>6, <1>7, Zenon DEF Entitles

LEMMA OneRecord ==
    \A s, e : s = <<e>> => DOMAIN s = {1} /\ Len(s) = 1 /\ s # << >>
OBVIOUS

\* What is handed over is something.
LEMMA HandedIsSomething ==
    ASSUME NEW r, Cleared(r), IsHanded(r)
    PROVE  handed[r] # None
<1>1. PICK life \in 0..Binding[job[r].grant].ttl :
          handed[r] = [op |-> job[r].op, salted |-> DeliversSalt, life |-> life]
  BY DEF IsHanded
<1>2. \A j \in Jobs, g \in DOMAIN Binding : \A salted \in BOOLEAN, l \in 0..Binding[g].ttl :
          None # [op |-> j.op, salted |-> salted, life |-> l]
  BY ValuesAssumption DEF ValuesAssumption
<1>3. DeliversSalt \in BOOLEAN
  BY ValuesAssumption DEF ValuesAssumption
<1> QED
  BY <1>1, <1>2, <1>3 DEF Cleared

-----------------------------------------------------------------------------
(* Steps of one request.                                                   *)

\* What is known of a request survives the steps of the others.
LEMMA OthersKeep ==
    ASSUME NEW q \in Requests, RequestInv(q), Untouched(q),
           failures \in Nat, failures' \in Nat, failures' >= failures
    PROVE  RequestInv(q)'
<1> USE DEF Untouched
<1>1. Sent(q)' = Sent(q)
  BY Zenon DEF Sent
<1>2. Cleared(q) => Cleared(q)'
  BY Zenon DEF Cleared
<1>3. IsHanded(q) => IsHanded(q)'
  BY Zenon DEF IsHanded
<1>4. \A jti, c : Knows(q, jti, c) => Knows(q, jti, c)'
  BY Zenon DEF Knows
<1>5. Open(q) => Open(q)'
  BY DEF Open
<1>6. failures > 0 => failures' > 0
  OBVIOUS
<1>7. Settled(q) => Settled(q)'
  <2> SUFFICES ASSUME Settled(q) PROVE Settled(q)'
    OBVIOUS
  <2>1. CASE reply[q] = 200
    BY <1>1, <2>1 DEF Settled
  <2>2. CASE reply[q] \in {403, 503}
    BY <1>1, <2>2 DEF Settled
  <2>3. CASE reply[q] \in {400, 404}
    BY <1>6, <2>3 DEF Settled
  <2> QED
    BY <2>1, <2>2, <2>3 DEF Settled
<1> QED
  BY <1>1, <1>2, <1>3, <1>4, <1>5, <1>7, Zenon DEF RequestInv

LEMMA StepKeeps ==
    ASSUME GrantInv, NEW r \in Requests, Frame(r), RequestInv(r)'
    PROVE  GrantInv'
<1>1. ASSUME NEW q \in Requests \ {r} PROVE RequestInv(q)'
  BY OthersKeep DEF GrantInv, Frame, Shapes
<1> QED
  BY <1>1 DEF GrantInv, Frame

\* An answer is to one request, and is its last step.
LEMMA Answers ==
    ASSUME Shapes, NEW r \in Requests, NEW k, NEW records, NEW status, NEW refused \in Nat,
           Answer(r, k, records, status, refused)
    PROVE  /\ pc'[r] = "answered" /\ known'[r] = k /\ log'[r] = records /\ reply'[r] = status
           /\ pc' \in [Requests -> Stages] /\ DOMAIN known' = Requests
           /\ DOMAIN log' = Requests /\ DOMAIN reply' = Requests
           /\ failures' \in Nat /\ failures' = failures + refused
           /\ \A q \in Requests \ {r} :
                 /\ pc'[q] = pc[q] /\ known'[q] = known[q]
                 /\ log'[q] = log[q] /\ reply'[q] = reply[q]
BY DEF Shapes, Answer, Goto, Stages

\* A record and its answer, whichever writes of them the log refuses.
LEMMA CloseSettles ==
    ASSUME Shapes, NEW r \in Requests, NEW k, NEW result, NEW reason, NEW step, NEW status,
           Close(r, k, result, reason, step, status),
           k.committed = Sent(r)',
           \/ result = "denied" /\ status = 403
           \/ /\ result = "allowed" /\ status = 200 /\ r \in carried'
              /\ job'[r] \in Jobs /\ k.agent = job'[r].holder
    PROVE  Settled(r)'
<1>1. CASE Answer(r, k, <<Entry(r, k, result, reason)>>, status, 0)
  <2>1. log'[r] = <<Entry(r, k, result, reason)>> /\ reply'[r] = status
    BY <1>1, Answers
  <2>2. /\ log'[r][1].result = result /\ log'[r][1].agent = k.agent
        /\ log'[r][1].committed = k.committed /\ log'[r] = <<log'[r][1]>>
    BY <2>1 DEF Entry
  <2> QED
    BY <2>1, <2>2 DEF Settled
<1>2. CASE Answer(r, k, <<Entry(r, k, "denied", step)>>, 403, 1)
  <2>1. log'[r] = <<Entry(r, k, "denied", step)>> /\ reply'[r] = 403
    BY <1>2, Answers
  <2>2. /\ log'[r][1].result = "denied"
        /\ log'[r][1].committed = k.committed /\ log'[r] = <<log'[r][1]>>
    BY <2>1 DEF Entry
  <2> QED
    BY <2>1, <2>2 DEF Settled
<1>3. CASE Answer(r, k, << >>, 400, 2)
  <2>1. log'[r] = << >> /\ reply'[r] = 400 /\ failures' = failures + 2
    BY <1>3, Answers
  <2> QED
    BY <2>1 DEF Settled, Shapes
<1> QED
  BY <1>1, <1>2, <1>3 DEF Close

\* A step that threw, likewise.
LEMMA FailSettles ==
    ASSUME Shapes, NEW r \in Requests, NEW k, NEW step, Fail(r, k, step),
           k.committed = Sent(r)'
    PROVE  Settled(r)'
<1>1. CASE Answer(r, k, <<Entry(r, k, "denied", step)>>, 403, 0)
  <2>1. log'[r] = <<Entry(r, k, "denied", step)>> /\ reply'[r] = 403
    BY <1>1, Answers
  <2>2. /\ log'[r][1].result = "denied"
        /\ log'[r][1].committed = k.committed /\ log'[r] = <<log'[r][1]>>
    BY <2>1 DEF Entry
  <2> QED
    BY <2>1, <2>2 DEF Settled
<1>2. CASE Answer(r, k, << >>, 400, 1)
  <2>1. log'[r] = << >> /\ reply'[r] = 400 /\ failures' = failures + 1
    BY <1>2, Answers
  <2> QED
    BY <2>1 DEF Settled, Shapes
<1> QED
  BY <1>1, <1>2 DEF Fail

\* Close and Fail are answers.
LEMMA CloseFrames ==
    ASSUME Shapes, NEW r \in Requests, NEW k, NEW result, NEW reason, NEW step, NEW status,
           Close(r, k, result, reason, step, status)
    PROVE  /\ pc'[r] = "answered"
           /\ pc' \in [Requests -> Stages] /\ DOMAIN known' = Requests
           /\ DOMAIN log' = Requests /\ DOMAIN reply' = Requests
           /\ failures' \in Nat /\ failures' >= failures
           /\ \A q \in Requests \ {r} :
                 /\ pc'[q] = pc[q] /\ known'[q] = known[q]
                 /\ log'[q] = log[q] /\ reply'[q] = reply[q]
<1> USE DEF Shapes
<1>1. CASE Answer(r, k, <<Entry(r, k, result, reason)>>, status, 0)
  BY <1>1, Answers
<1>2. CASE Answer(r, k, <<Entry(r, k, "denied", step)>>, 403, 1)
  BY <1>2, Answers
<1>3. CASE Answer(r, k, << >>, 400, 2)
  BY <1>3, Answers
<1> QED
  BY <1>1, <1>2, <1>3 DEF Close

LEMMA FailFrames ==
    ASSUME Shapes, NEW r \in Requests, NEW k, NEW step, Fail(r, k, step)
    PROVE  /\ pc'[r] = "answered"
           /\ pc' \in [Requests -> Stages] /\ DOMAIN known' = Requests
           /\ DOMAIN log' = Requests /\ DOMAIN reply' = Requests
           /\ failures' \in Nat /\ failures' >= failures
           /\ \A q \in Requests \ {r} :
                 /\ pc'[q] = pc[q] /\ known'[q] = known[q]
                 /\ log'[q] = log[q] /\ reply'[q] = reply[q]
<1> USE DEF Shapes
<1>1. CASE Answer(r, k, <<Entry(r, k, "denied", step)>>, 403, 0)
  BY <1>1, Answers
<1>2. CASE Answer(r, k, << >>, 400, 1)
  BY <1>2, Answers
<1> QED
  BY <1>1, <1>2 DEF Fail

-----------------------------------------------------------------------------
(* One lemma for each action.                                              *)

LEMMA ScannerMissingStep ==
    ASSUME GrantInv, NEW r \in Requests, ScannerMissing(r)
    PROVE  Frame(r) /\ RequestInv(r)'
<1> DEFINE k == [agent |-> None, jti |-> None, committed |-> None]
           entry == [result |-> "denied", reason |-> "scanner-unavailable-grant",
                     agent |-> None, grant |-> None, jti |-> None, committed |-> None]
<1>1. Shapes /\ RequestInv(r) /\ pc[r] = "idle"
  BY DEF GrantInv, ScannerMissing
<1>2. UNCHANGED <<outside, job, stale, verdict, handed>>
  BY DEF ScannerMissing
<1>3. Sent(r)' = None /\ r \notin carried /\ r \notin issued /\ job'[r] \in Jobs \union {None}
  BY <1>1, <1>2, ValuesAssumption DEF RequestInv, Sent, ValuesAssumption, outside
<1>4. CASE Answer(r, k, <<entry>>, 503, 0)
  <2>1. log'[r] = <<entry>> /\ reply'[r] = 503 /\ pc'[r] = "answered"
    BY <1>1, <1>4, Answers
  <2>2. /\ log'[r][1].result = "denied" /\ log'[r][1].committed = None
        /\ log'[r] = <<log'[r][1]>>
    BY <2>1
  <2>3. Settled(r)'
    BY <1>3, <2>1, <2>2 DEF Settled
  <2>4. RequestInv(r)'
    BY <1>2, <1>3, <2>1, <2>3 DEF RequestInv, outside
  <2>5. Frame(r)
    BY <1>1, <1>2, <1>4, Answers DEF Frame, Shapes, Untouched, outside
  <2> QED
    BY <2>4, <2>5
<1>5. CASE Answer(r, k, << >>, 400, 1)
  <2>1. log'[r] = << >> /\ reply'[r] = 400 /\ pc'[r] = "answered" /\ failures' = failures + 1
    BY <1>1, <1>5, Answers
  <2>2. Settled(r)'
    BY <1>1, <2>1 DEF Settled, Shapes
  <2>3. RequestInv(r)'
    BY <1>2, <1>3, <2>1, <2>2 DEF RequestInv, outside
  <2>4. Frame(r)
    BY <1>1, <1>2, <1>5, Answers DEF Frame, Shapes, Untouched, outside
  <2> QED
    BY <2>3, <2>4
<1> QED
  BY <1>4, <1>5 DEF ScannerMissing

LEMMA NotServedStep ==
    ASSUME GrantInv, NEW r \in Requests, NotServed(r)
    PROVE  Frame(r) /\ RequestInv(r)'
<1> DEFINE k == [agent |-> None, jti |-> None, committed |-> None]
<1>1. Shapes /\ RequestInv(r) /\ pc[r] = "idle"
  BY DEF GrantInv, NotServed
<1>2. Answer(r, k, << >>, 404, 0) /\ UNCHANGED <<outside, job, stale, verdict, handed>>
  BY DEF NotServed
<1>3. r \notin carried /\ r \notin issued /\ job[r] = None
  BY <1>1, ValuesAssumption DEF RequestInv, ValuesAssumption
<1>4. log'[r] = << >> /\ reply'[r] = 404 /\ pc'[r] = "answered"
  BY <1>1, <1>2, Answers
<1>5. Settled(r)'
  BY <1>2, <1>3, <1>4 DEF Settled
<1>6. RequestInv(r)'
  BY <1>2, <1>3, <1>4, <1>5 DEF RequestInv, outside
<1>7. Frame(r)
  BY <1>1, <1>2, Answers DEF Frame, Shapes, Untouched, outside
<1> QED
  BY <1>6, <1>7

LEMMA BadBodyStep ==
    ASSUME GrantInv, NEW r \in Requests, BadBody(r)
    PROVE  Frame(r) /\ RequestInv(r)'
<1> DEFINE k == [agent |-> None, jti |-> None, committed |-> None]
<1>1. Shapes /\ RequestInv(r) /\ pc[r] = "idle"
  BY DEF GrantInv, BadBody
<1>2. Answer(r, k, << >>, 400, 0) /\ UNCHANGED <<outside, job, stale, verdict, handed>>
  BY DEF BadBody
<1>3. r \notin carried /\ r \notin issued /\ job[r] = None
  BY <1>1, ValuesAssumption DEF RequestInv, ValuesAssumption
<1>4. log'[r] = << >> /\ reply'[r] = 400 /\ pc'[r] = "answered"
  BY <1>1, <1>2, Answers
<1>5. Settled(r)'
  BY <1>2, <1>3, <1>4 DEF Settled
<1>6. RequestInv(r)'
  BY <1>2, <1>3, <1>4, <1>5 DEF RequestInv, outside
<1>7. Frame(r)
  BY <1>1, <1>2, Answers DEF Frame, Shapes, Untouched, outside
<1> QED
  BY <1>6, <1>7

\* What the policy and the registry of providers let through is cleared.
LEMMA AuthoriseStep ==
    ASSUME Shapes, NEW r \in Requests, NEW k, NEW step, Authorise(r, k, step),
           pc[r] \in {"idle", "aim"}, Open(r),
           job'[r] \in Jobs, job'[r].genuine, r \notin stale', verdict'[r] # "unverified",
           handed'[r] = None, r \notin carried',
           k = [agent |-> job'[r].holder, jti |-> None, committed |-> None]
    PROVE  /\ RequestInv(r)'
           /\ pc' \in [Requests -> Stages] /\ DOMAIN known' = Requests
           /\ DOMAIN log' = Requests /\ DOMAIN reply' = Requests
           /\ failures' \in Nat /\ failures' >= failures
           /\ \A q \in Requests \ {r} :
                 /\ pc'[q] = pc[q] /\ known'[q] = known[q]
                 /\ log'[q] = log[q] /\ reply'[q] = reply[q]
<1> DEFINE g == job'[r].grant
           denial == PolicyDenial(g, Context[job'[r].holder])
<1>1. Sent(r)' = None /\ k.committed = None
  BY DEF Sent
<1>2. ASSUME NEW reason, NEW s, Deny(r, k, reason, s)
      PROVE  /\ RequestInv(r)'
             /\ pc' \in [Requests -> Stages] /\ DOMAIN known' = Requests
             /\ DOMAIN log' = Requests /\ DOMAIN reply' = Requests
             /\ failures' \in Nat /\ failures' >= failures
             /\ \A q \in Requests \ {r} :
                   /\ pc'[q] = pc[q] /\ known'[q] = known[q]
                   /\ log'[q] = log[q] /\ reply'[q] = reply[q]
  <2>1. Close(r, k, "denied", reason, s, 403)
    BY <1>2 DEF Deny
  <2>2. Settled(r)'
    BY <1>1, <2>1, CloseSettles
  <2>3. pc'[r] = "answered"
    BY <2>1, CloseFrames
  <2>4. RequestInv(r)'
    BY <2>2, <2>3 DEF RequestInv
  <2> QED
    BY <2>1, <2>4, CloseFrames
<1>3. CASE /\ denial = None /\ Goto(r, "exchanging")
           /\ known' = [known EXCEPT ![r] = k]
           /\ UNCHANGED <<log, reply, failures>>
  <2>1. job'[r].holder \in Agents
    BY ValuesAssumption DEF ValuesAssumption
  <2>2. g \in DOMAIN Binding /\ Entitles(Binding[g], Context[job'[r].holder])
    BY <1>3, <2>1, NoDenialEntitles
  <2>3. Cleared(r)'
    BY <2>2 DEF Cleared
  <2>4. pc'[r] = "exchanging" /\ known'[r] = k /\ Open(r)'
    BY <1>3 DEF Stages, Goto, Shapes, Open
  <2>5. RequestInv(r)'
    BY <2>3, <2>4 DEF RequestInv, Knows
  <2> QED
    BY <1>3, <2>5 DEF Stages, Goto, Shapes
<1> QED
  BY <1>2, <1>3 DEF Authorise

LEMMA ReceiveStep ==
    ASSUME GrantInv, NEW r \in Requests, NEW j \in Jobs, Receive(r, j)
    PROVE  Frame(r) /\ RequestInv(r)'
<1> DEFINE claimed  == [agent |-> j.agentId, jti |-> None, committed |-> None]
           verified == [claimed EXCEPT !.agent = j.holder]
<1>1. Shapes /\ RequestInv(r) /\ pc[r] = "idle"
  BY DEF GrantInv, Receive
<1>2. UNCHANGED <<outside, verdict, handed>> /\ job' = [job EXCEPT ![r] = j]
  BY DEF Receive
<1>3. job'[r] = j /\ DOMAIN job' = Requests /\ \A q \in Requests \ {r} : job'[q] = job[q]
  BY <1>1, <1>2 DEF Shapes
<1>4. /\ Open(r) /\ r \notin stale /\ handed[r] = None /\ verdict[r] = None
      /\ r \notin carried /\ r \notin issued
  BY <1>1, ValuesAssumption DEF RequestInv, ValuesAssumption
<1>5. /\ stale' \subseteq Requests /\ (j.holder \notin revoked => r \notin stale')
      /\ \A q \in Requests \ {r} : q \in stale' <=> q \in stale
  BY <1>1, <1>4 DEF Receive, Shapes
<1>6. Sent(r)' = None /\ handed'[r] = None /\ r \notin carried' /\ r \notin issued'
      /\ verdict'[r] = None
  BY <1>2, <1>4 DEF Sent, outside
<1>7. verified = [agent |-> j.holder, jti |-> None, committed |-> None]
  OBVIOUS
<1>8. verdict'[r] # "unverified"
  BY <1>6, ValuesAssumption DEF ValuesAssumption
<1>9. CASE AtxRejected(j) # None
  <2>1. Close(r, claimed, "denied", AtxRejected(j), "atx-verifier-error", 403)
    BY <1>9 DEF Receive, Deny
  <2>2. Settled(r)'
    BY <1>1, <1>6, <2>1, CloseSettles
  <2>3. RequestInv(r)'
    BY <1>1, <1>3, <1>6, <2>1, <2>2, CloseFrames DEF RequestInv
  <2>4. Frame(r)
    BY <1>1, <1>2, <1>3, <1>5, <2>1, CloseFrames DEF Frame, Shapes, Untouched, outside
  <2> QED
    BY <2>3, <2>4
<1>10. CASE AtxRejected(j) = None
  <2>1. j.genuine /\ j.holder \notin revoked
    BY <1>10, ValuesAssumption, Zenon DEF AtxRejected, ValuesAssumption
  <2>2. CASE AimConfigured
    <3>1. /\ Goto(r, "aim") /\ known' = [known EXCEPT ![r] = verified]
          /\ UNCHANGED <<log, reply, failures>>
      BY <1>10, <2>2 DEF Receive
    <3>2. pc'[r] = "aim" /\ known'[r] = verified /\ Open(r)'
      BY <1>1, <1>4, <3>1 DEF Stages, Goto, Shapes, Open
    <3>3. RequestInv(r)'
      BY <1>3, <1>5, <1>6, <1>7, <2>1, <3>2 DEF RequestInv, Knows
    <3>4. Frame(r)
      BY <1>1, <1>2, <1>3, <1>5, <3>1 DEF Frame, Shapes, Untouched, outside, Goto, Stages
    <3> QED
      BY <3>3, <3>4
  <2>3. CASE ~AimConfigured
    <3>1. Authorise(r, verified, "atx-verifier-error")
      BY <1>10, <2>3 DEF Receive
    <3>2. job'[r].genuine /\ r \notin stale'
      BY <1>3, <1>5, <2>1
    <3>3. /\ RequestInv(r)'
          /\ pc' \in [Requests -> Stages] /\ DOMAIN known' = Requests
          /\ DOMAIN log' = Requests /\ DOMAIN reply' = Requests
          /\ failures' \in Nat /\ failures' >= failures
          /\ \A q \in Requests \ {r} :
                /\ pc'[q] = pc[q] /\ known'[q] = known[q]
                /\ log'[q] = log[q] /\ reply'[q] = reply[q]
      BY <1>1, <1>3, <1>4, <1>6, <1>7, <1>8, <3>1, <3>2, AuthoriseStep
    <3>4. Frame(r)
      BY <1>1, <1>2, <1>3, <1>5, <3>3 DEF Frame, Shapes, Untouched, outside
    <3> QED
      BY <3>3, <3>4
  <2> QED
    BY <2>2, <2>3
<1> QED
  BY <1>9, <1>10

LEMMA LookedUpStep ==
    ASSUME GrantInv, NEW r \in Requests, NEW v, LookedUp(r, v)
    PROVE  Frame(r) /\ RequestInv(r)'
<1>1. Shapes /\ RequestInv(r) /\ pc[r] = "aim"
  BY DEF GrantInv, LookedUp
<1>2. UNCHANGED <<outside, stale, handed, job>> /\ verdict' = [verdict EXCEPT ![r] = v]
  BY DEF LookedUp
<1>3. /\ verdict'[r] = v /\ DOMAIN verdict' = Requests
      /\ \A q \in Requests \ {r} : verdict'[q] = verdict[q]
  BY <1>1, <1>2 DEF Shapes
<1>4. /\ Open(r) /\ r \notin stale /\ handed[r] = None /\ r \notin carried
      /\ job[r] \in Jobs /\ job[r].genuine
      /\ known[r] = [agent |-> job[r].holder, jti |-> None, committed |-> None]
  BY <1>1 DEF RequestInv, Knows
<1>5. /\ Sent(r)' = None /\ handed'[r] = None /\ r \notin carried' /\ r \notin stale'
      /\ job'[r] \in Jobs /\ job'[r] = job[r]
  BY <1>2, <1>4 DEF Sent, outside
<1>6. CASE v = "unverified"
  <2>1. Close(r, known[r], "denied", "aim-agent-unverified", "aim-lookup-error", 403)
    BY <1>6 DEF LookedUp, Deny
  <2>2. known[r].committed = None
    BY <1>4
  <2>3. Settled(r)'
    BY <1>1, <1>5, <2>1, <2>2, CloseSettles
  <2>4. RequestInv(r)'
    BY <1>1, <1>5, <2>1, <2>3, CloseFrames DEF RequestInv
  <2>5. Frame(r)
    BY <1>1, <1>2, <1>3, <2>1, CloseFrames DEF Frame, Shapes, Untouched, outside
  <2> QED
    BY <2>4, <2>5
<1>7. CASE v # "unverified"
  <2>1. Authorise(r, known[r], "aim-lookup-error")
    BY <1>7 DEF LookedUp
  <2>2. verdict'[r] # "unverified" /\ job'[r].genuine
    BY <1>3, <1>4, <1>5, <1>7
  <2>3. /\ RequestInv(r)'
        /\ pc' \in [Requests -> Stages] /\ DOMAIN known' = Requests
        /\ DOMAIN log' = Requests /\ DOMAIN reply' = Requests
        /\ failures' \in Nat /\ failures' >= failures
        /\ \A q \in Requests \ {r} :
              /\ pc'[q] = pc[q] /\ known'[q] = known[q]
              /\ log'[q] = log[q] /\ reply'[q] = reply[q]
    BY <1>1, <1>4, <1>5, <2>1, <2>2, AuthoriseStep
  <2>4. Frame(r)
    BY <1>1, <1>2, <1>3, <2>3 DEF Frame, Shapes, Untouched, outside
  <2> QED
    BY <2>3, <2>4
<1> QED
  BY <1>6, <1>7

LEMMA IssueStep ==
    ASSUME GrantInv, NEW r \in Requests, Issue(r)
    PROVE  Frame(r) /\ RequestInv(r)'
<1>1. Shapes /\ RequestInv(r) /\ pc[r] = "exchanging"
  BY DEF GrantInv, Issue
<1>2. job[r] \in Jobs
  BY <1>1 DEF RequestInv, Cleared
<1>3. RequestInv(r)'
  BY <1>1, <1>2 DEF Issue, RequestInv, Open, Cleared, Knows
<1>4. Frame(r)
  BY <1>1 DEF Issue, Frame, Shapes, Untouched
<1> QED
  BY <1>3, <1>4

LEMMA CarryOutStep ==
    ASSUME GrantInv, NEW r \in Requests, CarryOut(r)
    PROVE  Frame(r) /\ RequestInv(r)'
<1>1. Shapes /\ RequestInv(r) /\ pc[r] = "running"
  BY DEF GrantInv, CarryOut
<1>2. job[r] \in Jobs
  BY <1>1 DEF RequestInv, Cleared
<1>3. RequestInv(r)'
  BY <1>1, <1>2 DEF CarryOut, RequestInv, Open, Cleared, Knows, IsHanded, Sent
<1>4. Frame(r)
  BY <1>1 DEF CarryOut, Frame, Shapes, Untouched
<1> QED
  BY <1>3, <1>4

\* A step that threw after the policy: nothing was handed over yet, or what was handed
\* over is what the record commits to.
LEMMA FailStep ==
    ASSUME GrantInv, NEW r \in Requests, NEW k, NEW step, Fail(r, k, step),
           pc[r] \in {"exchanging", "running"},
           UNCHANGED <<outside, job, stale, verdict, handed>>,
           k.committed = Sent(r)
    PROVE  Frame(r) /\ RequestInv(r)'
<1>1. Shapes /\ RequestInv(r)
  BY DEF GrantInv
<1>2. Sent(r)' = Sent(r)
  BY DEF Sent
<1>3. Settled(r)'
  BY <1>1, <1>2, FailSettles
<1>4. r \in carried => Cleared(r) /\ IsHanded(r)
  BY <1>1 DEF RequestInv
<1>5. r \in carried' => Cleared(r)' /\ IsHanded(r)'
  BY <1>4 DEF Cleared, IsHanded, outside
<1>6. RequestInv(r)'
  BY <1>1, <1>3, <1>5, FailFrames DEF RequestInv, outside
<1>7. Frame(r)
  BY <1>1, FailFrames DEF Frame, Shapes, Untouched, outside
<1> QED
  BY <1>6, <1>7

LEMMA CredentialArrivesStep ==
    ASSUME GrantInv, NEW r \in Requests, NEW stated \in Lives, CredentialArrives(r, stated)
    PROVE  Frame(r) /\ RequestInv(r)'
<1> DEFINE op == job[r].op
           k  == [known[r] EXCEPT !.jti = r]
           life == CapLife(stated, Binding[job[r].grant].ttl)
           given == [op |-> op, salted |-> DeliversSalt, life |-> life]
<1>1. Shapes /\ RequestInv(r) /\ pc[r] = "exchanging"
  BY DEF GrantInv, CredentialArrives
<1>2. UNCHANGED <<outside, job, stale, verdict>>
  BY DEF CredentialArrives
<1>3. /\ Open(r) /\ Cleared(r) /\ handed[r] = None /\ r \notin carried
      /\ known[r] = [agent |-> job[r].holder, jti |-> None, committed |-> None]
  BY <1>1 DEF RequestInv, Knows
<1>4. k = [agent |-> job[r].holder, jti |-> r, committed |-> None]
  BY <1>3
<1>5. k.committed = Sent(r)
  BY <1>3, <1>4 DEF Sent
<1>6. ASSUME NEW step, Fail(r, k, step), UNCHANGED handed
      PROVE  Frame(r) /\ RequestInv(r)'
  BY <1>1, <1>2, <1>5, <1>6, FailStep
<1>7. CASE /\ op \notin Escaping /\ Goto(r, "running")
           /\ known' = [known EXCEPT ![r] = [k EXCEPT !.committed = IF DeliversSalt THEN op ELSE None]]
           /\ handed' = [handed EXCEPT ![r] = given]
           /\ UNCHANGED <<log, reply, failures>>
  <2>1. /\ job[r] \in Jobs /\ job[r].grant \in DOMAIN Binding
        /\ stated \in Int \union {None} /\ Binding[job[r].grant].ttl \in Nat
    BY <1>3, GrantAssumption, ValuesAssumption DEF Cleared, GrantAssumption, ValuesAssumption
  <2>2. life \in 0..Binding[job[r].grant].ttl
    BY <2>1, LifeCapped
  <2>3. handed'[r] = given /\ pc'[r] = "running" /\ Open(r)'
    BY <1>1, <1>3, <1>7 DEF Stages, Goto, Shapes, Open
  <2>4. IsHanded(r)'
    BY <1>2, <1>7, <2>2, <2>3 DEF IsHanded
  <2>5. known'[r] = [agent |-> job[r].holder, jti |-> r,
                     committed |-> IF DeliversSalt THEN op ELSE None]
    BY <1>1, <1>4, <1>7 DEF Shapes
  <2>6. given # None
    <3>1. \A j \in Jobs, g \in DOMAIN Binding : \A salted \in BOOLEAN, l \in 0..Binding[g].ttl :
             None # [op |-> j.op, salted |-> salted, life |-> l]
      BY ValuesAssumption DEF ValuesAssumption
    <3>2. DeliversSalt \in BOOLEAN
      BY ValuesAssumption DEF ValuesAssumption
    <3> QED
      BY <2>1, <2>2, <3>1, <3>2
  <2>7. Sent(r)' = IF DeliversSalt THEN op ELSE None
    <3>1. given.salted = DeliversSalt /\ given.op = op
      OBVIOUS
    <3>2. Sent(r)' = IF given = None THEN None ELSE IF given.salted THEN given.op ELSE None
      BY <2>3, Zenon DEF Sent
    <3> QED
      BY <2>6, <3>1, <3>2, Zenon
  <2>8. Knows(r, r, Sent(r))'
    BY <1>2, <2>5, <2>7 DEF Knows
  <2>9. Cleared(r)'
    BY <1>2, <1>3 DEF Cleared
  <2>10. RequestInv(r)'
    BY <1>2, <2>1, <2>3, <2>4, <2>8, <2>9 DEF RequestInv
  <2>11. Frame(r)
    BY <1>1, <1>2, <1>7 DEF Frame, Shapes, Untouched, outside, Goto, Stages
  <2> QED
    BY <2>10, <2>11
<1> QED
  BY <1>6, <1>7 DEF CredentialArrives

LEMMA ExchangeFailsStep ==
    ASSUME GrantInv, NEW r \in Requests, ExchangeFails(r)
    PROVE  Frame(r) /\ RequestInv(r)'
<1>1. /\ pc[r] = "exchanging" /\ Fail(r, known[r], "provider-error")
      /\ UNCHANGED <<outside, job, stale, verdict, handed>>
  BY DEF ExchangeFails
<1>2. known[r].committed = Sent(r)
  <2>1. RequestInv(r)
    BY DEF GrantInv
  <2>2. handed[r] = None /\ known[r].committed = None
    BY <1>1, <2>1 DEF RequestInv, Knows
  <2> QED
    BY <2>2 DEF Sent
<1> QED
  BY <1>1, <1>2, FailStep

LEMMA CallFailsStep ==
    ASSUME GrantInv, NEW r \in Requests, CallFails(r)
    PROVE  Frame(r) /\ RequestInv(r)'
<1>1. /\ pc[r] = "running" /\ Fail(r, known[r], "downstream-error")
      /\ UNCHANGED <<outside, job, stale, verdict, handed>>
  BY DEF CallFails
<1>2. known[r].committed = Sent(r)
  <2>1. RequestInv(r)
    BY DEF GrantInv
  <2> QED
    BY <1>1, <2>1 DEF RequestInv, Knows
<1> QED
  BY <1>1, <1>2, FailStep

LEMMA ResultArrivesStep ==
    ASSUME GrantInv, NEW r \in Requests, ResultArrives(r)
    PROVE  Frame(r) /\ RequestInv(r)'
<1>1. /\ Shapes /\ RequestInv(r) /\ pc[r] = "running" /\ r \in carried
      /\ UNCHANGED <<outside, job, stale, verdict, handed>>
      /\ Close(r, known[r], "allowed", "resolved-exchange", "downstream-error", 200)
  BY DEF GrantInv, ResultArrives
<1>2. /\ Cleared(r) /\ IsHanded(r) /\ job[r] \in Jobs
      /\ known[r].agent = job[r].holder /\ known[r].committed = Sent(r)
  BY <1>1 DEF RequestInv, Knows, Cleared
<1>3. Sent(r)' = Sent(r) /\ Cleared(r)' /\ IsHanded(r)' /\ r \in carried' /\ job'[r] = job[r]
  BY <1>1, <1>2 DEF Sent, Cleared, IsHanded, outside
<1>4. Settled(r)'
  BY <1>1, <1>2, <1>3, CloseSettles
<1>5. RequestInv(r)'
  BY <1>1, <1>2, <1>3, <1>4, CloseFrames DEF RequestInv
<1>6. Frame(r)
  BY <1>1, CloseFrames DEF Frame, Shapes, Untouched, outside
<1> QED
  BY <1>5, <1>6

LEMMA ResponseCutStep ==
    ASSUME GrantInv, NEW r \in Requests, ResponseCut(r)
    PROVE  Frame(r) /\ RequestInv(r)'
<1>1. /\ Shapes /\ RequestInv(r) /\ pc[r] \in {"aim", "exchanging", "running"} /\ Goto(r, "cut")
      /\ UNCHANGED <<outside, job, stale, verdict, known, handed, log, reply, failures>>
  BY DEF GrantInv, ResponseCut
<1>2. /\ Open(r) /\ job[r] \in Jobs /\ \E jti \in {r, None} : Knows(r, jti, Sent(r))
      /\ r \in carried => Cleared(r) /\ IsHanded(r)
  BY <1>1 DEF RequestInv, Knows, Sent, Cleared
<1>3. /\ Open(r)' /\ \E jti \in {r, None} : Knows(r, jti, Sent(r))'
      /\ r \in carried' => Cleared(r)' /\ IsHanded(r)'
  BY <1>1, <1>2 DEF Open, Cleared, Knows, Sent, IsHanded, outside
<1>4. pc'[r] = "cut"
  BY <1>1 DEF Stages, Goto, Shapes
<1>5. RequestInv(r)'
  BY <1>1, <1>3, <1>4 DEF RequestInv, outside
<1>6. Frame(r)
  BY <1>1 DEF Frame, Shapes, Untouched, outside, Goto, Stages
<1> QED
  BY <1>5, <1>6

-----------------------------------------------------------------------------
(* The invariant.                                                          *)

LEMMA InitInv == Init => GrantInv
<1> SUFFICES ASSUME Init PROVE GrantInv
  OBVIOUS
<1>1. Shapes
  BY DEF Init, Shapes, Stages
<1>2. ASSUME NEW r \in Requests PROVE RequestInv(r)
  BY DEF Init, RequestInv, Open
<1> QED
  BY <1>1, <1>2 DEF GrantInv

LEMMA NextInv == GrantInv /\ [Next]_vars => GrantInv'
<1> SUFFICES ASSUME GrantInv, [Next]_vars PROVE GrantInv'
  OBVIOUS
<1>1. ASSUME NEW r \in Requests, ScannerMissing(r) PROVE GrantInv'
  BY <1>1, ScannerMissingStep, StepKeeps
<1>2. ASSUME NEW r \in Requests, BadBody(r) PROVE GrantInv'
  BY <1>2, BadBodyStep, StepKeeps
<1>3. ASSUME NEW r \in Requests, NEW j \in Jobs, Receive(r, j) PROVE GrantInv'
  BY <1>3, ReceiveStep, StepKeeps
<1>4. ASSUME NEW r \in Requests, NEW v, LookedUp(r, v) PROVE GrantInv'
  BY <1>4, LookedUpStep, StepKeeps
<1>5. ASSUME NEW r \in Requests, Issue(r) PROVE GrantInv'
  BY <1>5, IssueStep, StepKeeps
<1>6. ASSUME NEW r \in Requests, CarryOut(r) PROVE GrantInv'
  BY <1>6, CarryOutStep, StepKeeps
<1>7. ASSUME NEW r \in Requests, NEW stated \in Lives, CredentialArrives(r, stated)
      PROVE  GrantInv'
  BY <1>7, CredentialArrivesStep, StepKeeps
<1>8. ASSUME NEW r \in Requests, ExchangeFails(r) PROVE GrantInv'
  BY <1>8, ExchangeFailsStep, StepKeeps
<1>9. ASSUME NEW r \in Requests, ResultArrives(r) PROVE GrantInv'
  BY <1>9, ResultArrivesStep, StepKeeps
<1>10. ASSUME NEW r \in Requests, CallFails(r) PROVE GrantInv'
  BY <1>10, CallFailsStep, StepKeeps
<1>11. ASSUME NEW r \in Requests, ResponseCut(r) PROVE GrantInv'
  BY <1>11, ResponseCutStep, StepKeeps
<1>12. ASSUME NEW r \in Requests, NotServed(r) PROVE GrantInv'
  BY <1>12, NotServedStep, StepKeeps
<1>13. CASE (\E a \in Agents : Revoke(a)) \/ UNCHANGED vars
  <2>1. Shapes'
    BY <1>13 DEF Revoke, GrantInv, Shapes, vars
  <2>2. ASSUME NEW q \in Requests PROVE Untouched(q) /\ failures' = failures
    BY <1>13 DEF Revoke, Untouched, vars
  <2>3. ASSUME NEW q \in Requests PROVE RequestInv(q)'
    BY <2>1, <2>2, OthersKeep DEF GrantInv, Shapes
  <2> QED
    BY <2>1, <2>3 DEF GrantInv
<1> QED
  BY <1>1, <1>2, <1>3, <1>4, <1>5, <1>6, <1>7, <1>8, <1>9, <1>10, <1>11, <1>12, <1>13
     DEF Next

LEMMA GrantInvHolds == Spec => []GrantInv
BY InitInv, NextInv, PTL DEF Spec

-----------------------------------------------------------------------------
(* What follows from it.                                                   *)

\* Where the handler of a request stands agrees with what it has answered, knows, handed
\* over and recorded, of which there is one record at most (grant-resolver.ts: resolve).
THEOREM TypeCorrect == Spec => []TypeOK
<1>1. GrantInv => TypeOK
  <2> SUFFICES ASSUME GrantInv PROVE TypeOK
    OBVIOUS
  <2>1. pc \in [Requests -> {"idle", "aim", "exchanging", "running", "cut", "answered"}]
    BY DEF GrantInv, Shapes, Stages
  <2>2. ASSUME NEW r \in Requests
        PROVE  /\ reply[r] # None <=> pc[r] = "answered"
               /\ pc[r] \in {"aim", "exchanging", "running", "cut"} => known[r].agent = job[r].holder
               /\ pc[r] \in {"exchanging", "running"} => job[r].grant \in DOMAIN Binding
               /\ Len(log[r]) <= 1
    <3>1. RequestInv(r)
      BY DEF GrantInv
    <3>2. reply[r] # None <=> pc[r] = "answered"
      <4>1. pc[r] = "answered" => reply[r] \in {200, 400, 403, 404, 503}
        BY <3>1 DEF RequestInv, Settled
      <4>2. pc[r] # "answered" => reply[r] = None
        BY <3>1 DEF RequestInv, Open
      <4> QED
        BY <4>1, <4>2, ValuesAssumption DEF ValuesAssumption
    <3>3. /\ pc[r] \in {"aim", "exchanging", "running", "cut"} => known[r].agent = job[r].holder
          /\ pc[r] \in {"exchanging", "running"} => job[r].grant \in DOMAIN Binding
      BY <3>1 DEF RequestInv, Cleared, Knows
    <3>4. Len(log[r]) <= 1
      <4>1. log[r] = << >> \/ log[r] = <<log[r][1]>>
        BY <3>1 DEF RequestInv, Open, Settled
      <4>2. CASE log[r] = << >>
        BY <4>2
      <4>3. CASE log[r] = <<log[r][1]>>
        <5>1. Len(log[r]) = 1
          BY <4>3, OneRecord, Zenon
        <5> QED
          BY <5>1
      <4> QED
        BY <4>1, <4>2, <4>3
    <3> QED
      BY <3>2, <3>3, <3>4
  <2>3. ASSUME NEW r \in Requests, pc[r] = "running"
        PROVE  handed[r] # None /\ known[r].jti = r
    <3>1. Cleared(r) /\ IsHanded(r) /\ Knows(r, r, Sent(r))
      BY <2>3 DEF GrantInv, RequestInv
    <3> QED
      BY <3>1, HandedIsSomething DEF Knows
  <2>4. carried \union issued \subseteq {r \in Requests : job[r] # None}
    BY ValuesAssumption DEF ValuesAssumption, GrantInv, Shapes, RequestInv
  <2> QED
    BY <2>1, <2>2, <2>3, <2>4 DEF TypeOK
<1> QED
  BY <1>1, GrantInvHolds, PTL

\* Whatever the policy, the agents and the failures: an operation is carried out only for
\* an agent that passed every check (grant-resolver.ts: steps 1 to 5 of resolve).
THEOREM OnlyForTheEntitled == Spec => []CarriedForTheEntitled
<1>1. GrantInv => CarriedForTheEntitled
  <2> SUFFICES ASSUME GrantInv, NEW r \in carried
               PROVE  LET j == job[r] IN
                      /\ j.genuine /\ r \notin stale
                      /\ verdict[r] # "unverified"
                      /\ Entitles(Binding[j.grant], Context[j.holder])
                      /\ handed[r].op \notin Escaping
                      /\ handed[r].life \in 0..Binding[j.grant].ttl
    BY DEF CarriedForTheEntitled
  <2>1. r \in Requests /\ RequestInv(r)
    BY DEF GrantInv, Shapes
  <2>2. Cleared(r) /\ IsHanded(r)
    BY <2>1, ValuesAssumption DEF RequestInv, ValuesAssumption
  <2> QED
    BY <2>2 DEF Cleared, IsHanded
<1> QED
  BY <1>1, GrantInvHolds, PTL

\* A success is told exactly when its record says so, and no answer of the resolver goes
\* without a record unless the log refused one (grant-resolver.ts: audit).
THEOREM AnswersAreRecorded == Spec => []RecordTellsAnswer
<1>1. GrantInv => RecordTellsAnswer
  <2> SUFFICES ASSUME GrantInv, NEW r \in Requests, pc[r] = "answered"
               PROVE  /\ reply[r] = 200 <=> \E i \in DOMAIN log[r] : log[r][i].result = "allowed"
                      /\ reply[r] = 200 => r \in carried /\ log[r][1].agent = job[r].holder
                      /\ reply[r] = 403 => Len(log[r]) = 1 /\ log[r][1].result = "denied"
                      /\ job[r] # None /\ log[r] = << >> => failures > 0
    BY DEF RecordTellsAnswer
  <2>1. Settled(r)
    BY DEF GrantInv, RequestInv
  <2>2. log[r] = <<log[r][1]>> => DOMAIN log[r] = {1} /\ Len(log[r]) = 1 /\ log[r] # << >>
    BY OneRecord
  <2>3. log[r] = << >> => DOMAIN log[r] = {}
    OBVIOUS
  <2> QED
    BY <2>1, <2>2, <2>3 DEF Settled
<1> QED
  BY <1>1, GrantInvHolds, PTL

\* The record of an operation that was carried out commits to it, and no record commits to
\* what was not handed over (grant-resolver.ts: step 5 of resolve).
THEOREM CommitmentsHold == Spec => []CarriedIsCommitted
<1>1. GrantInv => CarriedIsCommitted
  <2> SUFFICES ASSUME GrantInv, NEW r \in Requests
               PROVE  /\ pc[r] = "answered" /\ r \in carried /\ handed[r].salted /\ log[r] # << >> =>
                             log[r][1].committed = handed[r].op
                      /\ \A i \in DOMAIN log[r] : log[r][i].committed # None =>
                             /\ handed[r] # None /\ handed[r].salted
                             /\ log[r][i].committed = handed[r].op
    BY DEF CarriedIsCommitted
  <2>1. RequestInv(r)
    BY DEF GrantInv
  <2>2. CASE pc[r] # "answered"
    <3>1. log[r] = << >>
      BY <2>1, <2>2 DEF RequestInv, Open
    <3> QED
      BY <2>2, <3>1
  <2>3. CASE pc[r] = "answered"
    <3>1. Settled(r)
      BY <2>1, <2>3 DEF RequestInv
    <3>2. log[r] = << >> \/ (DOMAIN log[r] = {1} /\ log[r][1].committed = Sent(r))
      <4>1. log[r] # << >> => log[r] = <<log[r][1]>>
        BY <3>1 DEF Settled
      <4>2. log[r] # << >> => log[r][1].committed = Sent(r)
        BY <3>1 DEF Settled
      <4>3. log[r] # << >> => DOMAIN log[r] = {1}
        BY <4>1, OneRecord, Zenon
      <4> QED
        BY <4>2, <4>3
    <3>3. r \in carried => handed[r] # None
      BY <2>1, <2>3, HandedIsSomething DEF RequestInv
    <3>4. Sent(r) # None => handed[r] # None /\ handed[r].salted /\ Sent(r) = handed[r].op
      BY Zenon DEF Sent
    <3>5. handed[r] # None /\ handed[r].salted => Sent(r) = handed[r].op
      BY Zenon DEF Sent
    <3>6. log[r] = << >> => DOMAIN log[r] = {}
      OBVIOUS
    <3> QED
      BY <3>2, <3>3, <3>4, <3>5, <3>6, Zenon
  <2> QED
    BY <2>2, <2>3
<1> QED
  BY <1>1, GrantInvHolds, PTL

-----------------------------------------------------------------------------
(* Starting and stopping the daemon.                                       *)

\* The two stages of a broker that is up, visible in every proof below.
USE DEF Serving

\* A stop command has signalled and has not returned.
Stopping == \E s \in Stops : spc[s] \notin {"idle", "done"}

\* spawnDaemon polls for p.
Waits(p) == spawn[p] \in {"waiting", "stale"}

\* The PID file p has written.
Own(p) == [pid |-> p, written |-> TRUE]

\* The steps of a process that has written its PID file, and its token file.
Created == {"policy", "token", "probe", "unlink", "bindSocket", "bindPort", "startup"} \union Serving
Tokened == {"probe", "unlink", "bindSocket", "bindPort", "startup"} \union Serving

\* A process that has not come to create the PID file is not named by it.
Unnamed(p) ==
    at[p] \in {"unborn", "check", "clear", "load", "create"} => pidFile = NoOne \/ pidFile.pid # p

\* A process that has handled its signal has left nothing.
Left(p) == at[p] = "stopped" => NothingLeftOf(p)

\* What is on disk of a process that is alive, unless it is signalled or spawnDaemon polls.
Holds(p) ==
    /\ at[p] \in {"load", "create"} => pidFile = NoOne
    /\ at[p] \in Listening => sock = p
    /\ at[p] \in {"startup"} \union Serving => port = p
    /\ at[p] \in Tokened /\ p \notin sig => token = p
    /\ at[p] = "write" /\ p \notin sig /\ ~Waits(p) => pidFile = [pid |-> p, written |-> FALSE]
    /\ at[p] \in Created /\ p \notin sig /\ ~Waits(p) => pidFile = Own(p)

\* Two processes are alive only while one serves and the other is about to see it.
Alone ==
    \A p, q \in Procs : Alive(p) /\ Alive(q) /\ p # q =>
        /\ sig = {}
        /\ (at[p] = "check" /\ at[q] \in Serving) \/ (at[p] \in Serving /\ at[q] = "check")

\* While spawnDaemon waits, its child is the only process, and nothing signals it.
SpawnInv ==
    \A p \in Procs : Waits(p) =>
        /\ sig = {}
        /\ at[p] # "unborn"
        /\ \A q \in Procs \ {p} : ~Alive(q) /\ ~Waits(q)

\* While a stop command is under way, no process starts, and one that is alive ends.
StopInv ==
    Stopping => \A p \in Procs : ~Waits(p) /\ at[p] \notin Starting
                  /\ (Alive(p) => p \in sig \/ at[p] = "draining")

\* What holds while each command waits for the one before it.
Serial == (\A p \in Procs : Holds(p)) /\ Alone /\ SpawnInv /\ StopInv

\* Whatever overlaps, the files of a process are its own; serially, Serial too.
LifeInv == LifeTypeOK /\ (\A p \in Procs : Unnamed(p) /\ Left(p)) /\ (overlap = "none" => Serial)

-----------------------------------------------------------------------------
\* The invariant holds before the first command.
LEMMA LifeInvStarts == LifeInit => LifeInv
<1>  SUFFICES ASSUME LifeInit PROVE LifeInv
    OBVIOUS
<1>1. LifeTypeOK
    BY DEF LifeInit, LifeTypeOK
<1>2. \A p \in Procs : at[p] = "unborn" /\ ~Alive(p) /\ ~Waits(p) /\ Unnamed(p) /\ Left(p) /\ Holds(p)
    BY DEF LifeInit, Alive, Waits, Unnamed, Left, Holds, Listening, Created, Tokened
<1>3. ~Stopping
    BY DEF LifeInit, Stopping
<1>  QED BY <1>1, <1>2, <1>3 DEF LifeInv, Serial, Alone, SpawnInv, StopInv

\* The disjuncts of LifeNext: of one process, and of one stop command.
ProcessStep(p) ==
    \/ Start(p) \/ Spawn(p) \/ StartStep(p) \/ StopStep(p) \/ Crash(p)
    \/ PollStale(p) \/ PollUnlinksPid(p) \/ PollAnswered(p) \/ SpawnFails(p)

StopCommand(s) == StopSignals(s) \/ StopUnlinksPid(s) \/ StopUnlinksToken(s)

\* A step of startDaemon keeps the types.
LEMMA StartKeepsTypes == ASSUME LifeTypeOK, NEW p \in Procs, StartStep(p) PROVE LifeTypeOK'
<1>1. CASE CheckRunning(p)
    BY <1>1 DEF LifeTypeOK, CheckRunning, End, GoesTo, files, Alive, Starting, Unguarded, Ended
<1>2. CASE ClearStalePid(p)
    BY <1>2 DEF LifeTypeOK, ClearStalePid, End, GoesTo, files, Alive, Starting, Unguarded, Ended
<1>3. CASE LoadGrants(p)
    BY <1>3 DEF LifeTypeOK, LoadGrants, End, GoesTo, files, Alive, Starting, Unguarded, Ended
<1>4. CASE CreatePid(p)
    <2>1. [pid |-> p, written |-> FALSE] \in [pid : Procs, written : BOOLEAN]
        OBVIOUS
    <2>2. pidFile' \in [pid : Procs, written : BOOLEAN] \union {NoOne}
        BY <1>4, <2>1 DEF CreatePid, LifeTypeOK
    <2>  QED BY <1>4, <2>2 DEF LifeTypeOK, CreatePid, End, GoesTo, Alive, Starting, Unguarded,
                    Ended
<1>5. CASE WritePid(p)
    BY <1>5 DEF LifeTypeOK, WritePid, End, GoesTo, files, Alive, Starting, Unguarded, Ended
<1>6. CASE LoadPolicies(p)
    BY <1>6 DEF LifeTypeOK, LoadPolicies, StartFails, End, GoesTo, files, Alive, Starting,
           Unguarded, Ended
<1>7. CASE WriteToken(p)
    BY <1>7 DEF LifeTypeOK, WriteToken, End, GoesTo, files, Alive, Starting, Unguarded, Ended
<1>8. CASE ProbeSocket(p)
    BY <1>8 DEF LifeTypeOK, ProbeSocket, StartFails, End, GoesTo, files, Alive, Starting,
           Unguarded, Ended
<1>9. CASE UnlinkSocket(p)
    BY <1>9 DEF LifeTypeOK, UnlinkSocket, StartFails, End, GoesTo, files, Alive, Starting,
           Unguarded, Ended
<1>10. CASE BindSocket(p)
    BY <1>10 DEF LifeTypeOK, BindSocket, StartFails, End, GoesTo, files, Alive, Starting,
           Unguarded, Ended
<1>11. CASE BindPort(p)
    BY <1>11 DEF LifeTypeOK, BindPort, StartFails, End, GoesTo, files, Alive, Starting, Unguarded,
           Ended
<1>12. CASE Startup(p)
    BY <1>12 DEF LifeTypeOK, Startup, StartFails, End, GoesTo, files, Alive, Starting, Unguarded,
           Ended
<1>  QED BY <1>1, <1>2, <1>3, <1>4, <1>5, <1>6, <1>7, <1>8, <1>9, <1>10, <1>11,
                <1>12 DEF StartStep

\* The step of a process while no other is alive.
LEMMA SoloStep ==
    ASSUME LifeInv, Serial, NEW p \in Procs, Alive(p), \A q \in Procs \ {p} : ~Alive(q),
           NEW step, step # "unborn", at' = [at EXCEPT ![p] = step], sig' \in {sig, sig \ {p}},
           UNCHANGED <<spc, spawn>>, Holds(p)',
           Stopping => step \notin Starting /\ (step \notin Ended => p \in sig' \/ step = "draining")
    PROVE  Serial'
<1>1. \A q \in Procs \ {p} : at'[q] = at[q] /\ ~Alive(q)'
    BY DEF LifeInv, LifeTypeOK, Alive
<1>2. at'[p] = step
    BY DEF LifeInv, LifeTypeOK
<1>3. \A q \in Procs \ {p} : Holds(q)'
    BY <1>1 DEF Holds, Alive, Listening, Created, Tokened, Ended
<1>4. Alone'
    BY <1>1 DEF Alone
<1>5. SpawnInv'
    BY <1>1, <1>2 DEF Serial, SpawnInv, Waits
<1>6. StopInv'
    <2>1. Stopping' = Stopping
        BY DEF Stopping
    <2>2. ASSUME Stopping, NEW q \in Procs \ {p} PROVE (~Waits(q) /\ at[q] \notin Starting /\ ~Alive(q))'
        BY <1>1, <2>2 DEF Serial, StopInv, Waits
    <2>3. ASSUME Stopping PROVE (~Waits(p) /\ at[p] \notin Starting /\ (Alive(p) => p \in sig \/ at[p] = "draining"))'
        BY <1>2, <2>3 DEF Serial, StopInv, Waits, Alive
    <2>  QED BY <2>1, <2>2, <2>3 DEF StopInv
<1>  QED BY <1>3, <1>4, <1>5, <1>6 DEF Serial

\* A process that is past its check is the only one, unless it serves unsignalled.
LEMMA Solo ==
    ASSUME Serial, NEW p \in Procs, Alive(p), at[p] \notin {"check"} \union Serving \/ sig # {}
    PROVE  \A q \in Procs \ {p} : ~Alive(q)
BY DEF Serial, Alone

\* A process that ends.
LEMMA EndStep ==
    ASSUME LifeInv, Serial, NEW p \in Procs, Alive(p), NEW how \in Ended, End(p, how),
           UNCHANGED <<spc, spawn>>,
           UNCHANGED files \/ \A q \in Procs \ {p} : ~Alive(q)
    PROVE  Serial'
<1>1. \A q \in Procs \ {p} : at'[q] = at[q]
    BY DEF LifeInv, LifeTypeOK, End, GoesTo
<1>2. at'[p] = how
    BY DEF LifeInv, LifeTypeOK, End, GoesTo
<1>3. \A q \in Procs : Alive(q)' => Alive(q) /\ q # p
    BY <1>1, <1>2 DEF Alive
<1>4. ASSUME NEW q \in Procs PROVE Holds(q)'
    <2>1. CASE Alive(q) /\ q # p
        <3>1. Holds(q)
            BY DEF Serial
        <3>2. UNCHANGED <<pidFile, token, sock, spawn>> /\ at'[q] = at[q]
            BY <1>1, <2>1 DEF files
        <3>3. sig' = sig \ {p} /\ port' = IF port = p THEN NoOne ELSE port
            BY DEF End
        <3>  QED BY <2>1, <3>1, <3>2, <3>3 DEF Holds, Waits
    <2>2. CASE ~(Alive(q) /\ q # p)
        BY <1>1, <1>2, <2>2 DEF Holds, Alive, Listening, Created, Tokened, Ended
    <2>  QED BY <2>1, <2>2
<1>5. Alone'
    <2>1. sig = {} => sig' = {}
        BY DEF End
    <2>  QED BY <1>1, <1>3, <2>1 DEF Serial, Alone
<1>6. SpawnInv'
    <2>1. sig = {} => sig' = {}
        BY DEF End
    <2>  QED BY <1>1, <1>2, <1>3, <2>1 DEF Serial, SpawnInv, Waits, Ended
<1>7. StopInv'
    <2>1. Stopping' = Stopping
        BY DEF Stopping
    <2>2. how \notin Starting
        BY DEF Starting, Unguarded, Ended
    <2>3. sig' = sig \ {p}
        BY DEF End
    <2>  QED BY <1>1, <1>2, <1>3, <2>1, <2>2, <2>3 DEF Serial, StopInv, Waits
<1>  QED BY <1>4, <1>5, <1>6, <1>7 DEF Serial

\* A step of startDaemon keeps the serial invariant.
LEMMA SerialStart ==
    ASSUME LifeInv, Serial, NEW p \in Procs, StartStep(p)
    PROVE  Serial'
<1>1. Alive(p) /\ at[p] \in Starting /\ ~Stopping /\ Holds(p)
    BY DEF StartStep, CheckRunning, ClearStalePid, LoadGrants, CreatePid, WritePid, LoadPolicies,
           WriteToken,
           ProbeSocket, UnlinkSocket, BindSocket, BindPort, Startup, Starting, Unguarded, Alive,
           Ended,
           Serial, StopInv
<1>2. UNCHANGED <<spc, spawn>>
    BY DEF StartStep, CheckRunning, ClearStalePid, LoadGrants, CreatePid, WritePid, LoadPolicies,
           WriteToken,
           ProbeSocket, UnlinkSocket, BindSocket, BindPort, Startup
<1>3. CASE CheckRunning(p)
    <2>1. CASE Running
        BY <1>1, <1>2, <1>3, <2>1, EndStep DEF CheckRunning, Ended
    <2>2. CASE ~Running
        <3>1. ASSUME NEW q \in Procs \ {p}, Alive(q) PROVE FALSE
            <4>1. sig = {} /\ at[q] \in Serving /\ ~Waits(q) /\ Holds(q)
                BY <1>1, <1>3, <3>1 DEF CheckRunning, Serial, Alone, SpawnInv
            <4>2. pidFile = Own(q)
                BY <4>1 DEF Holds, Created
            <4>3. pidFile # NoOne
                <5>1. [pid |-> q, written |-> TRUE] \in [pid : Procs, written : BOOLEAN]
                    OBVIOUS
                <5>  QED BY <4>2, <5>1, LifecycleAssumption DEF Own
            <4>  QED BY <2>2, <3>1, <4>2, <4>3, LifecycleAssumption DEF Running, ReadPid, Own
        <3>2. GoesTo(p, "clear") /\ UNCHANGED sig
            BY <1>3, <2>2 DEF CheckRunning
        <3>3. Holds(p)'
            BY <3>2 DEF GoesTo, Holds, LifeInv, LifeTypeOK, Listening, Created, Tokened
        <3>  QED BY <1>1, <1>2, <3>1, <3>2, <3>3, SoloStep DEF GoesTo
    <2>  QED BY <2>1, <2>2
<1>4. ASSUME at[p] # "check" PROVE Serial'
    <2>1. \A q \in Procs \ {p} : ~Alive(q)
        BY <1>1, <1>4, Solo DEF Starting, Unguarded
    <2>2. CASE \E how \in Ended : End(p, how)
        BY <1>1, <1>2, <2>1, <2>2, EndStep
    <2>3. CASE UNCHANGED sig /\ \E step : step # "unborn" /\ GoesTo(p, step) /\ Holds(p)'
        BY <1>1, <1>2, <2>1, <2>3, SoloStep DEF GoesTo
    <2>4. LifeTypeOK /\ p # NoOne
        BY LifecycleAssumption DEF LifeInv
    <2>5. CASE ClearStalePid(p)
        BY <1>1, <2>3, <2>4, <2>5 DEF ClearStalePid, GoesTo, LifeTypeOK, Holds, Listening,
               Created, Tokened
    <2>6. CASE LoadGrants(p)
        BY <1>1, <2>2, <2>3, <2>4, <2>6 DEF LoadGrants, GoesTo, LifeTypeOK, Holds, Listening,
               Created, Tokened, files, Ended
    <2>7. CASE CreatePid(p)
        BY <1>1, <2>2, <2>3, <2>4, <2>7 DEF CreatePid, GoesTo, LifeTypeOK, Holds, Listening,
               Created, Tokened, files, Ended
    <2>8. CASE WritePid(p)
        <3>1. ASSUME p \notin sig, ~Waits(p) PROVE pidFile' = Own(p)
            <4>1. pidFile = [pid |-> p, written |-> FALSE]
                BY <1>1, <2>8, <3>1 DEF WritePid, Holds
            <4>2. [pid |-> p, written |-> FALSE] \in [pid : Procs, written : BOOLEAN]
                OBVIOUS
            <4>3. pidFile # NoOne /\ pidFile.pid = p
                BY <4>1, <4>2, LifecycleAssumption
            <4>  QED BY <2>8, <4>1, <4>3 DEF WritePid, Own
        <3>2. GoesTo(p, "policy") /\ at'[p] = "policy" /\ sig' = sig
            BY <2>4, <2>8 DEF WritePid, GoesTo, LifeTypeOK
        <3>3. Holds(p)'
            BY <1>2, <3>1, <3>2 DEF Holds, Listening, Created, Tokened, Own, Waits
        <3>  QED BY <2>3, <3>2, <3>3
    <2>9. CASE LoadPolicies(p)
        BY <1>1, <1>2, <2>2, <2>3, <2>4, <2>9 DEF LoadPolicies, StartFails, GoesTo, LifeTypeOK,
               Holds, Listening, Created, Tokened, Waits, files, Ended
    <2>10. CASE WriteToken(p)
        BY <1>1, <1>2, <2>2, <2>3, <2>4, <2>10 DEF WriteToken, GoesTo, LifeTypeOK, Holds,
               Listening, Created, Tokened, Waits
    <2>11. CASE ProbeSocket(p)
        BY <1>1, <1>2, <2>2, <2>3, <2>4, <2>11 DEF ProbeSocket, StartFails, GoesTo, LifeTypeOK,
               Holds, Listening, Created, Tokened, Waits, files, Ended
    <2>12. CASE UnlinkSocket(p)
        BY <1>1, <1>2, <2>2, <2>3, <2>4, <2>12 DEF UnlinkSocket, StartFails, GoesTo, LifeTypeOK,
               Holds, Listening, Created, Tokened, Waits, Ended
    <2>13. CASE BindSocket(p)
        BY <1>1, <1>2, <2>2, <2>3, <2>4, <2>13 DEF BindSocket, StartFails, GoesTo, LifeTypeOK,
               Holds, Listening, Created, Tokened, Waits, Ended
    <2>14. CASE BindPort(p)
        BY <1>1, <1>2, <2>2, <2>3, <2>4, <2>14 DEF BindPort, StartFails, GoesTo, LifeTypeOK,
               Holds, Listening, Created, Tokened, Waits, files, Ended
    <2>15. CASE Startup(p)
        BY <1>1, <1>2, <2>2, <2>3, <2>4, <2>15 DEF Startup, StartFails, GoesTo, LifeTypeOK, Holds,
               Listening, Created, Tokened, Waits, files, Ended
    <2>  QED BY <1>4, <2>5, <2>6, <2>7, <2>8, <2>9, <2>10, <2>11, <2>12, <2>13, <2>14,
                    <2>15 DEF StartStep, CheckRunning
<1>  QED BY <1>3, <1>4 DEF StartStep, CheckRunning, ClearStalePid, LoadGrants, CreatePid,
                WritePid, LoadPolicies, WriteToken,
           ProbeSocket, UnlinkSocket, BindSocket, BindPort, Startup

\* A step of the shutdown, or a crash, keeps the serial invariant.
LEMMA SerialStop ==
    ASSUME LifeInv, Serial, NEW p \in Procs, StopStep(p) \/ Crash(p)
    PROVE  Serial'
<1>1. Alive(p)
    BY DEF StopStep, Terminate, TerminateUnrecorded, Drained, Crash, LifeInv, LifeTypeOK, Alive,
           Ended
<1>2. UNCHANGED <<spc, spawn>>
    BY DEF StopStep, Terminate, TerminateUnrecorded, Drained, Crash
<1>3. CASE Crash(p)
    BY <1>1, <1>2, <1>3, EndStep DEF Crash, Ended
<1>4. CASE StopStep(p)
    <2>1. \A q \in Procs \ {p} : ~Alive(q)
        BY <1>1, <1>4, Solo DEF StopStep, Terminate, TerminateUnrecorded, Drained
    <2>2. CASE \E how \in Ended : End(p, how)
        BY <1>1, <1>2, <2>1, <2>2, EndStep
    <2>3. CASE GoesTo(p, "draining") /\ sig' = sig \ {p}
        <3>1. Holds(p)'
            BY <2>3 DEF GoesTo, LifeInv, LifeTypeOK, Holds, Listening, Created, Tokened
        <3>  QED BY <1>1, <1>2, <2>1, <2>3, <3>1, SoloStep DEF GoesTo, Starting, Unguarded
    <2>  QED BY <1>4, <2>2, <2>3 DEF StopStep, Terminate, TerminateUnrecorded, Drained, Ended
<1>  QED BY <1>3, <1>4

\* While commands follow each other, the next one finds one process alive at most, which
\* serves.
LEMMA Issued ==
    ASSUME LifeInv, Serial, overlap = "none", MayIssue
    PROVE  /\ sig = {} /\ ~Stopping /\ \A p \in Procs : ~Waits(p)
           /\ \A p \in Procs : Alive(p) => at[p] \in Serving /\ pidFile = Own(p) /\ ReadPid = p /\ Running
           /\ \A p, q \in Procs : Alive(p) /\ Alive(q) => p = q
<1>1. sig = {} /\ ~Stopping /\ \A p \in Procs : ~Waits(p) /\ at[p] \notin Starting /\ at[p] # "draining"
    BY DEF MayIssue, Quiet, CommandsDone, Stopping, Waits
<1>2. ASSUME NEW p \in Procs, Alive(p)
      PROVE  at[p] \in Serving /\ pidFile = Own(p) /\ ReadPid = p /\ Running
    <2>1. at[p] \in Serving
        BY <1>1, <1>2 DEF LifeInv, LifeTypeOK, Alive, Ended
    <2>2. pidFile = Own(p)
        BY <1>1, <2>1 DEF Serial, Holds, Created
    <2>3. Own(p) \in [pid : Procs, written : BOOLEAN]
        BY DEF Own
    <2>  QED BY <1>2, <2>1, <2>2, <2>3, LifecycleAssumption DEF ReadPid, Running, Own
<1>3. ASSUME NEW p \in Procs, NEW q \in Procs, Alive(p), Alive(q), p # q PROVE FALSE
    BY <1>2, <1>3 DEF Serial, Alone
<1>  QED BY <1>1, <1>2, <1>3

\* A command that starts a process keeps the serial invariant.
LEMMA SerialBegins ==
    ASSUME LifeInv, Serial, overlap = "none", NEW p \in Procs, Start(p) \/ Spawn(p)
    PROVE  Serial'
<1>1. /\ MayIssue /\ at[p] = "unborn" /\ at' = [at EXCEPT ![p] = "check"]
      /\ UNCHANGED <<overlap, sig, spc, files, port>>
    BY DEF Start, Spawn, Begins, GoesTo
<1>2. /\ sig = {} /\ ~Stopping /\ \A q \in Procs : ~Waits(q)
      /\ \A q \in Procs : Alive(q) => at[q] \in Serving /\ Running
      /\ \A q, s \in Procs : Alive(q) /\ Alive(s) => q = s
    BY <1>1, Issued
<1>3. at'[p] = "check" /\ (\A q \in Procs \ {p} : at'[q] = at[q]) /\ ~Alive(p)
    BY <1>1 DEF LifeInv, LifeTypeOK, Alive
<1>4. \A q \in Procs \ {p} : spawn'[q] = spawn[q]
    BY DEF Start, Spawn, LifeInv, LifeTypeOK
<1>5. \A q \in Procs \ {p} : Alive(q)' <=> Alive(q)
    BY <1>3 DEF Alive
<1>6. ~Stopping'
    BY <1>1, <1>2 DEF Stopping
<1>7. \A q \in Procs : Holds(q)'
    <2>1. Holds(p)'
        BY <1>3 DEF Holds, Listening, Created, Tokened
    <2>2. ASSUME NEW q \in Procs \ {p} PROVE Holds(q)'
        <3>1. Holds(q)
            BY DEF Serial
        <3>  QED BY <1>1, <1>3, <1>4, <3>1 DEF Holds, Waits, files
    <2>  QED BY <2>1, <2>2
<1>8. Alone'
    BY <1>1, <1>2, <1>3, <1>5 DEF Alone
<1>9. SpawnInv'
    <2>1. CASE Start(p)
        BY <1>2, <2>1 DEF Start, SpawnInv, Waits
    <2>2. CASE Spawn(p)
        BY <1>1, <1>2, <1>3, <1>4, <1>5, <2>2 DEF Spawn, SpawnInv, Waits
    <2>  QED BY <2>1, <2>2
<1>  QED BY <1>6, <1>7, <1>8, <1>9 DEF Serial, StopInv

\* A step of a stop command keeps the serial invariant.
LEMMA SerialStopCommand ==
    ASSUME LifeInv, Serial, overlap = "none", NEW s \in Stops, StopCommand(s)
    PROVE  Serial'
<1>1. UNCHANGED <<at, spawn, sock, port>>
    BY DEF StopCommand, StopSignals, StopUnlinksPid, StopUnlinksToken, files
<1>2. \A p \in Procs : (Alive(p)' <=> Alive(p)) /\ (Waits(p)' <=> Waits(p))
    BY <1>1 DEF Alive, Waits
<1>3. CASE StopSignals(s)
    <2>1. /\ sig = {} /\ ~Stopping /\ \A p \in Procs : ~Waits(p)
          /\ \A p \in Procs : Alive(p) => at[p] \in Serving /\ ReadPid = p /\ Running
          /\ \A p, q \in Procs : Alive(p) /\ Alive(q) => p = q
        BY <1>3, Issued DEF StopSignals
    <2>2. \A p \in Procs : Alive(p) => p \in sig'
        BY <1>3, <2>1 DEF StopSignals
    <2>3. UNCHANGED <<pidFile, token>> /\ sig \subseteq sig'
        BY <1>3 DEF StopSignals, files
    <2>4. ASSUME NEW p \in Procs PROVE Holds(p)'
        <3>1. Holds(p)
            BY DEF Serial
        <3>  QED BY <1>1, <2>3, <3>1 DEF Holds, Waits
    <2>5. Alone' /\ SpawnInv'
        BY <1>1, <1>2, <2>1 DEF Alone, SpawnInv
    <2>6. StopInv'
        BY <1>1, <1>2, <2>1, <2>2 DEF StopInv, Alive, Starting, Unguarded, LifeInv, LifeTypeOK,
               Ended
    <2>  QED BY <2>4, <2>5, <2>6 DEF Serial
<1>4. CASE StopUnlinksPid(s) \/ StopUnlinksToken(s)
    <2>1. Stopping
        BY <1>4 DEF StopUnlinksPid, StopUnlinksToken, Stopping
    <2>2. UNCHANGED sig
        BY <1>4 DEF StopUnlinksPid, StopUnlinksToken
    <2>3. \A p \in Procs : ~Waits(p) /\ at[p] \notin Starting /\ (Alive(p) => p \in sig \/ at[p] = "draining")
        BY <2>1 DEF Serial, StopInv
    <2>4. ASSUME NEW p \in Procs PROVE Holds(p)'
        <3>1. Holds(p)
            BY DEF Serial
        <3>2. at[p] \notin {"load", "create", "write"} /\ (at[p] \in Created \union Tokened => p \in sig)
            BY <2>3 DEF Starting, Unguarded, Created, Tokened, Alive, Ended
        <3>  QED BY <1>1, <2>2, <3>1, <3>2 DEF Holds
    <2>5. Alone' /\ SpawnInv'
        BY <1>1, <1>2, <2>2 DEF Serial, Alone, SpawnInv
    <2>6. StopInv'
        BY <1>1, <1>2, <2>2, <2>3 DEF StopInv
    <2>  QED BY <2>4, <2>5, <2>6 DEF Serial
<1>  QED BY <1>3, <1>4 DEF StopCommand

\* A poll of spawnDaemon keeps the serial invariant.
LEMMA SerialPoll ==
    ASSUME LifeInv, Serial, NEW p \in Procs,
           PollStale(p) \/ PollUnlinksPid(p) \/ PollAnswered(p) \/ SpawnFails(p)
    PROVE  Serial'
<1>1. Waits(p) /\ UNCHANGED <<at, spc, token, sock, port>>
    BY DEF PollStale, PollUnlinksPid, PollAnswered, SpawnFails, Waits, files
<1>2. /\ sig = {} /\ at[p] # "unborn" /\ ~Stopping /\ \A q \in Procs \ {p} : ~Alive(q) /\ ~Waits(q)
    BY <1>1 DEF Serial, SpawnInv, StopInv
<1>3. /\ \A q \in Procs : Alive(q)' <=> Alive(q)
      /\ \A q \in Procs \ {p} : ~Waits(q)'
    BY <1>1, <1>2 DEF Alive, Waits, PollStale, PollUnlinksPid, PollAnswered, SpawnFails, LifeInv,
           LifeTypeOK
<1>4. \A q \in Procs \ {p} : Holds(q)'
    BY <1>1, <1>2 DEF Alive, Ended, Holds, Listening, Created, Tokened
<1>5. Holds(p)'
    <2>1. Holds(p) /\ spawn \in [Procs -> {"none", "waiting", "stale", "ready", "failed"}]
        BY DEF Serial, LifeInv, LifeTypeOK
    <2>2. CASE PollStale(p)
        BY <1>1, <2>1, <2>2 DEF PollStale, Holds, Waits, files
    <2>3. CASE PollUnlinksPid(p)
        BY <1>1, <2>1, <2>3 DEF PollUnlinksPid, Holds, Waits
    <2>4. CASE PollAnswered(p)
        <3>1. port = p
            BY <1>2, <2>4 DEF PollAnswered, LifeInv, LifeTypeOK, Alive, Ended
        <3>2. at[p] \in {"startup"} \union Serving
            BY <3>1, LifecycleAssumption DEF LifeInv, LifeTypeOK
        <3>3. pidFile = Own(p)
            BY <2>4, LifecycleAssumption DEF PollAnswered, ReadPid, LifeInv, LifeTypeOK, Own
        <3>4. UNCHANGED <<pidFile, sig>>
            BY <2>4 DEF PollAnswered, files
        <3>  QED BY <1>1, <2>1, <3>2, <3>3, <3>4 DEF Holds, Own
    <2>5. CASE SpawnFails(p)
        <3>1. pidFile' = pidFile /\ (Alive(p) => p \in sig')
            BY <2>5 DEF SpawnFails, files
        <3>  QED BY <1>1, <2>1, <3>1 DEF Holds, Alive, Ended, Created, Tokened, Listening
    <2>  QED BY <2>2, <2>3, <2>4, <2>5
<1>6. Alone'
    BY <1>2, <1>3 DEF Alone
<1>7. ~Stopping'
    BY <1>1, <1>2 DEF Stopping
<1>8. SpawnInv'
    <2>1. Waits(p)' => sig' = {}
        BY <1>2 DEF PollStale, PollUnlinksPid, PollAnswered, SpawnFails, Waits, LifeInv,
               LifeTypeOK
    <2>  QED BY <1>1, <1>2, <1>3, <2>1 DEF SpawnInv
<1>  QED BY <1>4, <1>5, <1>6, <1>7, <1>8 DEF Serial, StopInv

\* Every step keeps the types.
LEMMA StepKeepsTypes == ASSUME LifeTypeOK, [LifeNext]_lifeVars PROVE LifeTypeOK'
<1>1. ASSUME NEW p \in Procs, StartStep(p) PROVE LifeTypeOK'
    BY <1>1, StartKeepsTypes
<1>2. ASSUME NEW p \in Procs, StopStep(p) \/ Crash(p) PROVE LifeTypeOK'
    BY <1>2 DEF StopStep, Terminate, TerminateUnrecorded, Drained, Crash, RemoveFiles, End,
           GoesTo, LifeTypeOK, files,
             Alive, Starting, Unguarded, Listening, Ended
<1>3. ASSUME NEW p \in Procs, Start(p) \/ Spawn(p) PROVE LifeTypeOK'
    BY <1>3 DEF Start, Spawn, Begins, GoesTo, LifeTypeOK, files, Alive, Starting, Unguarded, Ended
<1>4. ASSUME NEW p \in Procs, PollStale(p) \/ PollUnlinksPid(p) \/ PollAnswered(p) \/ SpawnFails(p)
      PROVE  LifeTypeOK'
    BY <1>4 DEF PollStale, PollUnlinksPid, PollAnswered, SpawnFails, LifeTypeOK, files, Alive
<1>5. ASSUME NEW s \in Stops, StopCommand(s) PROVE LifeTypeOK'
    <2>1. Running => ReadPid \in {p \in Procs : Alive(p)}
        BY DEF Running, ReadPid, LifeTypeOK
    <2>  QED BY <1>5, <2>1 DEF StopCommand, StopSignals, StopUnlinksPid, StopUnlinksToken,
                    LifeTypeOK, files, Alive
<1>6. CASE UNCHANGED lifeVars
    BY <1>6 DEF lifeVars, files, LifeTypeOK, Alive
<1>  QED BY <1>1, <1>2, <1>3, <1>4, <1>5, <1>6 DEF LifeNext, StopCommand

\* A step of one process, and what it may do to the files: make them its own or remove them.
LEMMA FilesOfOne ==
    ASSUME LifeTypeOK, NEW p \in Procs, ProcessStep(p)
    PROVE  /\ \A q \in Procs \ {p} : at'[q] = at[q]
           /\ \/ pidFile' \in {pidFile, NoOne}
              \/ at[p] \in {"create", "write"} /\ at'[p] \notin {"unborn", "check", "clear", "load", "create", "stopped"}
                 /\ pidFile' # NoOne /\ pidFile'.pid = p
           /\ token' \in {token, NoOne} \/ (token' = p /\ at'[p] = "probe")
           /\ sock' \in {sock, NoOne} \/ (sock' = p /\ at'[p] = "bindPort")
           /\ at'[p] = "stopped" => at[p] = "stopped" \/ (pidFile' = NoOne /\ token' = NoOne /\ sock' = NoOne)
           /\ at'[p] \in {"unborn", "check", "clear", "load", "create"} =>
                 at[p] \in {"unborn", "check", "clear", "load", "create"}
<1>1. CASE StartStep(p)
    <2>1. CASE CreatePid(p) \/ WritePid(p)
        <3>1. \A b \in BOOLEAN : [pid |-> p, written |-> b] # NoOne
            <4>1. \A b \in BOOLEAN : [pid |-> p, written |-> b] \in [pid : Procs, written : BOOLEAN]
                OBVIOUS
            <4>  QED BY <4>1, LifecycleAssumption
        <3>2. CASE CreatePid(p)
            BY <3>1, <3>2 DEF CreatePid, GoesTo, End, LifeTypeOK
        <3>3. CASE WritePid(p)
            <4>1. pidFile # NoOne => pidFile = [pid |-> pidFile.pid, written |-> pidFile.written]
                BY DEF LifeTypeOK
            <4>2. pidFile # NoOne /\ pidFile.pid = p => pidFile' = [pid |-> p, written |-> TRUE]
                BY <3>3, <4>1 DEF WritePid
            <4>  QED BY <3>1, <3>3, <4>2 DEF WritePid, GoesTo, LifeTypeOK
        <3>  QED BY <2>1, <3>2, <3>3
    <2>2. CASE ~(CreatePid(p) \/ WritePid(p))
        BY <1>1, <2>2 DEF StartStep, CheckRunning, ClearStalePid, LoadGrants, LoadPolicies,
               WriteToken,
           ProbeSocket, UnlinkSocket, BindSocket, BindPort, Startup, StartFails, End, GoesTo,
           LifeTypeOK, files
    <2>  QED BY <2>1, <2>2
<1>2. CASE StopStep(p) \/ Crash(p)
    BY <1>2 DEF StopStep, Terminate, TerminateUnrecorded, Drained, Crash, RemoveFiles, End,
           GoesTo, LifeTypeOK, files
<1>3. CASE Start(p) \/ Spawn(p)
    BY <1>3 DEF Start, Spawn, Begins, GoesTo, LifeTypeOK, files
<1>4. CASE PollStale(p) \/ PollUnlinksPid(p) \/ PollAnswered(p) \/ SpawnFails(p)
    BY <1>4 DEF PollStale, PollUnlinksPid, PollAnswered, SpawnFails, files
<1>  QED BY <1>1, <1>2, <1>3, <1>4 DEF ProcessStep

\* Every step keeps what is known of the files whatever overlaps.
LEMMA FilesNext ==
    ASSUME LifeTypeOK, \A p \in Procs : Unnamed(p) /\ Left(p), [LifeNext]_lifeVars
    PROVE  (\A p \in Procs : Unnamed(p) /\ Left(p))'
<1>1. ASSUME NEW p \in Procs, ProcessStep(p), NEW q \in Procs PROVE Unnamed(q)' /\ Left(q)'
    <2>1. Unnamed(q) /\ Left(q)
        OBVIOUS
    <2>2. p # NoOne /\ q # NoOne
        BY LifecycleAssumption
    <2>3. CASE q = p
        BY <1>1, <2>1, <2>2, <2>3, FilesOfOne DEF Unnamed, Left, NothingLeftOf
    <2>4. CASE q # p
        BY <1>1, <2>1, <2>2, <2>4, FilesOfOne DEF Unnamed, Left, NothingLeftOf
    <2>  QED BY <2>3, <2>4
<1>2. ASSUME NEW s \in Stops, StopCommand(s), NEW q \in Procs PROVE Unnamed(q)' /\ Left(q)'
    <2>1. Unnamed(q) /\ Left(q) /\ q # NoOne
        BY LifecycleAssumption
    <2>2. at' = at /\ pidFile' \in {pidFile, NoOne} /\ token' \in {token, NoOne} /\ sock' = sock
        BY <1>2 DEF StopCommand, StopSignals, StopUnlinksPid, StopUnlinksToken, files
    <2>  QED BY <2>1, <2>2 DEF Unnamed, Left, NothingLeftOf
<1>3. CASE UNCHANGED lifeVars
    BY <1>3 DEF lifeVars, files, Unnamed, Left, NothingLeftOf
<1>  QED BY <1>1, <1>2, <1>3 DEF LifeNext, ProcessStep, StopCommand

\* Every step keeps the invariant.
LEMMA LifeInvKept == LifeInv /\ [LifeNext]_lifeVars => LifeInv'
<1>  SUFFICES ASSUME LifeInv, [LifeNext]_lifeVars PROVE LifeInv'
    OBVIOUS
<1>1. LifeTypeOK' /\ (\A p \in Procs : Unnamed(p) /\ Left(p))'
    BY StepKeepsTypes, FilesNext DEF LifeInv
<1>2. overlap' = overlap
    BY DEF LifeNext, StartStep, StopStep, Start, Spawn, Begins, CheckRunning, ClearStalePid,
           LoadGrants, CreatePid,
           WritePid, LoadPolicies, WriteToken, ProbeSocket, UnlinkSocket, BindSocket, BindPort,
           Startup, Terminate,
           TerminateUnrecorded, Drained, Crash, PollStale, PollUnlinksPid, PollAnswered,
           SpawnFails, StopSignals,
           StopUnlinksPid, StopUnlinksToken, lifeVars
<1>3. ASSUME overlap = "none", LifeNext PROVE Serial'
    <2>1. Serial
        BY <1>3 DEF LifeInv
    <2>  QED BY <1>3, <2>1, SerialBegins, SerialStart, SerialStop, SerialPoll,
                    SerialStopCommand DEF LifeNext, StopCommand
<1>4. ASSUME overlap = "none", UNCHANGED lifeVars PROVE Serial'
    BY <1>4 DEF lifeVars, files, LifeInv, Serial, Alone, SpawnInv, StopInv, Stopping, Waits,
           Alive, Holds
<1>  QED BY <1>1, <1>2, <1>3, <1>4 DEF LifeInv

\* The invariant holds in every behaviour.
LEMMA LifeInvHolds == LifeSpec => []LifeInv
BY LifeInvStarts, LifeInvKept, PTL DEF LifeSpec

\* The PID file, the token file, the socket and the port are free or held by a process, the
\* port by one that listens on it (daemon.ts, server.ts).
THEOREM LifeTypeCorrect == LifeSpec => []LifeTypeOK
<1>1. LifeInv => LifeTypeOK
    BY DEF LifeInv
<1>  QED BY <1>1, LifeInvHolds, PTL

\* In any interleaving of starts, stops, polls and crashes, nothing is left on disk of a broker
\* that handled its signal and recorded it (server.ts: stop; daemon.ts: the signal handler).
THEOREM StoppedIsGone == LifeSpec => []StoppedLeavesNothing
<1>1. LifeInv => StoppedLeavesNothing
    BY DEF LifeInv, Left, StoppedLeavesNothing
<1>  QED BY <1>1, LifeInvHolds, PTL

\* While commands follow each other, a broker that serves is the one its PID file, token,
\* socket and port lead to once the commands are done (daemon.ts: startDaemon, stopDaemon).
THEOREM ServingFound == LifeSpec => []SerialServingIsReachable
<1>1. ASSUME LifeInv, overlap = "none", Quiet, NEW p \in Procs, at[p] \in Serving
      PROVE  pidFile = [pid |-> p, written |-> TRUE] /\ token = p /\ sock = p /\ port = p
    <2>1. Holds(p) /\ p \notin sig /\ ~Waits(p)
        BY <1>1 DEF LifeInv, Serial, Quiet, CommandsDone, Waits
    <2>  QED BY <1>1, <2>1 DEF Holds, Own, Created, Tokened, Listening
<1>2. LifeInv => SerialServingIsReachable
    BY <1>1 DEF SerialServingIsReachable, ServingIsReachable
<1>  QED BY <1>2, LifeInvHolds, PTL

\* While commands follow each other, a start is refused only if another process is alive: what
\* a killed broker left never keeps its successor from starting (daemon.ts: startDaemon).
THEOREM RefusedForLiving == LifeSpec => RefusedOnlyForLiving
<1>  DEFINE Refuses == \A p \in Procs : overlap = "none" /\ at[p] # "refused" /\ at'[p] = "refused" =>
                            \E q \in Procs \ {p} : Alive(q)
<1>1. LifeInv /\ [LifeNext]_lifeVars => [Refuses]_lifeVars
    <2>  SUFFICES ASSUME LifeInv, LifeNext, NEW p \in Procs, overlap = "none", at[p] # "refused", at'[p] = "refused"
                  PROVE  \E q \in Procs \ {p} : Alive(q)
        OBVIOUS
    <2>1. LifeTypeOK /\ Unnamed(p) /\ Holds(p)
        BY DEF LifeInv, Serial
    <2>2. CheckRunning(p) \/ CreatePid(p)
        <3>1. ASSUME NEW q \in Procs, StopStep(q) \/ Crash(q) \/ Start(q) \/ Spawn(q) PROVE FALSE
            BY <2>1, <3>1 DEF StopStep, Terminate, TerminateUnrecorded, Drained, Crash, Start,
                   Spawn, End, GoesTo, LifeTypeOK
        <3>2. ASSUME NEW q \in Procs, PollStale(q) \/ PollUnlinksPid(q) \/ PollAnswered(q) \/ SpawnFails(q)
              PROVE  FALSE
            BY <3>2 DEF PollStale, PollUnlinksPid, PollAnswered, SpawnFails
        <3>3. ASSUME NEW s \in Stops, StopCommand(s) PROVE FALSE
            BY <3>3 DEF StopCommand, StopSignals, StopUnlinksPid, StopUnlinksToken
        <3>4. ASSUME NEW q \in Procs, StartStep(q), ~CheckRunning(q), ~CreatePid(q) PROVE FALSE
            BY <2>1, <3>4 DEF StartStep, ClearStalePid, LoadGrants, WritePid, LoadPolicies,
                   WriteToken, ProbeSocket,
               UnlinkSocket, BindSocket, BindPort, Startup, StartFails, End, GoesTo, LifeTypeOK
        <3>5. ASSUME NEW q \in Procs, CheckRunning(q) \/ CreatePid(q) PROVE q = p
            BY <2>1, <3>5 DEF CheckRunning, CreatePid, End, GoesTo, LifeTypeOK
        <3>  QED BY <3>1, <3>2, <3>3, <3>4, <3>5 DEF LifeNext, StopCommand
    <2>3. CASE CheckRunning(p)
        BY <2>1, <2>3 DEF CheckRunning, GoesTo, LifeTypeOK, Running, ReadPid, Unnamed
    <2>4. CASE CreatePid(p)
        BY <2>1, <2>4 DEF CreatePid, GoesTo, LifeTypeOK, Holds
    <2>  QED BY <2>2, <2>3, <2>4
<1>  QED BY <1>1, LifeInvHolds, PTL DEF LifeSpec, RefusedOnlyForLiving

\* While commands follow each other, two brokers are never both past the creation of the PID
\* file (daemon.ts: openSync with 'wx').
THEOREM OneOwnerSerially == LifeSpec => []SerialOneOwner
<1>1. ASSUME LifeInv, overlap = "none" PROVE OneOwner
    <2> DEFINE Owners == {p \in Procs : at[p] \in (Starting \ Unguarded) \union Serving \union {"write"}}
    <2>1. \A p, q \in Owners : p = q
        BY <1>1 DEF LifeInv, Serial, Alone, Alive, Starting, Unguarded, Ended
    <2>2. Owners = {} \/ \E p \in Owners : Owners = {p}
        BY <2>1
    <2>3. Cardinality(Owners) <= 1
        <3>1. CASE Owners = {}
            BY <3>1, FS_EmptySet
        <3>2. ASSUME NEW p \in Owners, Owners = {p} PROVE Cardinality(Owners) = 1
            BY <3>2, FS_Singleton
        <3>  QED BY <2>2, <3>1, <3>2
    <2>  QED BY <2>3 DEF OneOwner
<1>2. LifeInv => SerialOneOwner
    BY <1>1 DEF SerialOneOwner
<1>  QED BY <1>2, LifeInvHolds, PTL
=============================================================================
