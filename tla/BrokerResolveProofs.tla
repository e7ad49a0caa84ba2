------------------------ MODULE BrokerResolveProofs ------------------------
(***************************************************************************)
(* The broker's POST /resolve, for every policy, every set of agents,      *)
(* credentials and requests, and every interleaving of them.               *)
(*                                                                         *)
(* The argument: a step of the broker does one of three things to the      *)
(* request it is about: it leaves it where it was, moves it on unanswered, *)
(* or answers it.  Only the last touches its status, together with its     *)
(* record, and only a request that is not answered yet; and only evaluate  *)
(* touches the limiter, for a request that has no decision yet.  So the    *)
(* requests let through under a key and the admissions of the limiter stay *)
(* in step, one to one and time for time.                                  *)
(***************************************************************************)
EXTENDS BrokerResolve, FiniteSetTheorems, SequenceTheorems, WellFoundedInduction, TLAPS

RLP == INSTANCE RateLimiterProofs WITH Keys <- RatedKeys, Limit <- RatedLimit

-----------------------------------------------------------------------------
\* A set of naturals that is not empty has a least element.
LEMMA LeastOf ==
    ASSUME NEW S \in SUBSET Nat, S # {}
    PROVE  \E x \in S : \A y \in S : x <= y
<1> DEFINE R == {ss \in Nat \X Nat : ss[1] < ss[2]}
<1>1. IsWellFoundedOn({ss \in Nat \X Nat : ss[1] < ss[2]}, Nat)
  BY NatLessThanWellFounded, Zenon DEF OpToRel
<1>2. PICK x \in S : \A y \in S : ~(<<y, x>> \in R)
  BY <1>1, WFMin
<1>3. ASSUME NEW y \in S PROVE x <= y
  <2>1. x \in Nat /\ y \in Nat
    OBVIOUS
  <2>2. ~(y < x)
    <3> SUFFICES ASSUME y < x PROVE <<y, x>> \in R
      BY <1>2
    <3> QED
      BY <2>1
  <2> QED
    BY <2>1, <2>2
<1> QED
  BY <1>3

LEMMA MinInSet == ASSUME NEW S \in SUBSET Nat, S # {} PROVE Min(S) \in S
BY LeastOf DEF Min

\* The first rule that matches is one of the rules.
LEMMA FirstMatch ==
    ASSUME NEW effect, NEW a, NEW c, Matching(effect, a, c) # {}
    PROVE  Min(Matching(effect, a, c)) \in DOMAIN Rules
<1>1. Matching(effect, a, c) \in SUBSET Nat
  BY RulesAssumption DEF RulesAssumption, Matching
<1>2. Min(Matching(effect, a, c)) \in Matching(effect, a, c)
  BY <1>1, MinInSet
<1> QED
  BY <1>2 DEF Matching

\* Every key has the limit of the rule that made it one.
LEMMA RatedLimitType == RatedLimit \in [RatedKeys -> Nat \ {0}]
<1> SUFFICES ASSUME NEW k \in RatedKeys
             PROVE  MaxPerMinute(CHOOSE p \in Rated : KeyOf[p] = k) \in Nat \ {0}
  BY DEF RatedLimit
<1>1. \E p \in Rated : KeyOf[p] = k
  BY DEF RatedKeys
<1>2. PICK p \in Rated : p = CHOOSE q \in Rated : KeyOf[q] = k
  BY <1>1
<1>3. Min(Matching("allow", p[1], p[2])) \in DOMAIN Rules
  BY FirstMatch DEF Rated
<1> QED
  BY <1>2, <1>3, RulesAssumption DEF RulesAssumption, Rated, MaxPerMinute

-----------------------------------------------------------------------------
\* A request that is answered before it names anything.
UnnamedStep(r) == Unauthorized(r) \/ NoResolver(r) \/ Malformed(r) \/ ScannerUnavailable(r)

\* A decision counts a request at most once, under the key of its pair.
LEMMA DecideIsLimiterStep ==
    ASSUME NEW r, NEW a, NEW c, NEW identity, Decide(r, a, c, identity)
    PROVE  [RL!Next]_limiterVars
<1>1. <<a, c>> \in Rated => KeyOf[<<a, c>>] \in RatedKeys
  BY DEF RatedKeys
<1> QED
  BY <1>1 DEF Decide, RL!Next

(***************************************************************************)
(* The broker, whatever requests interleave in it, drives its limiter only *)
(* as a limiter is driven (checkConstraints of policy.ts and RateLimiter). *)
(***************************************************************************)
THEOREM ImplementsLimiter == Spec => LimiterContract
<1>1. Init => RL!Init
  BY DEF Init
<1>2. [Next]_vars => [RL!Next]_limiterVars
  <2> SUFFICES ASSUME [Next]_vars PROVE [RL!Next]_limiterVars
    OBVIOUS
  <2>1. CASE UNCHANGED vars
    BY <2>1 DEF vars
  <2>2. ASSUME NEW r \in Requests,
               UnnamedStep(r)
        PROVE  UNCHANGED limiterVars
    BY <2>2 DEF UnnamedStep, Unauthorized, NoResolver, Malformed, ScannerUnavailable
  <2>3. ASSUME NEW r \in Requests, NEW a \in Agents, NEW c \in Creds,
               ResolveWithoutFetch(r, a, c)
        PROVE  [RL!Next]_limiterVars
    BY <2>3, DecideIsLimiterStep DEF ResolveWithoutFetch
  <2>4. ASSUME NEW r \in Requests, NEW a \in Agents, NEW c \in Creds, StartFetch(r, a, c)
        PROVE  UNCHANGED limiterVars
    BY <2>4 DEF StartFetch
  <2>5. ASSUME NEW r \in Requests, AimReplies(r)
        PROVE  [RL!Next]_limiterVars
    BY <2>5, DecideIsLimiterStep DEF AimReplies
  <2>6. ASSUME NEW r \in Requests, AimFails(r)
        PROVE  [RL!Next]_limiterVars
    BY <2>6, DecideIsLimiterStep DEF AimFails
  <2>7. ASSUME NEW r \in Requests,
               \/ AimAnswers(r) \/ AimAborts(r)
               \/ CredentialFound(r) \/ CredentialMissing(r) \/ BackendFails(r)
        PROVE  UNCHANGED limiterVars
    BY <2>7 DEF AimAnswers, AimAborts, CredentialFound, CredentialMissing, Resolved, BackendFails
  <2>8. ASSUME NEW a \in Agents, AimChanges(a)
        PROVE  UNCHANGED limiterVars
    BY <2>8 DEF AimChanges
  <2>9. CASE Tick
    BY <2>9 DEF Tick, RL!Next
  <2> QED
    BY <2>1, <2>2, <2>3, <2>4, <2>5, <2>6, <2>7, <2>8, <2>9 DEF Next, HandlerStep, UnnamedStep
<1> QED
  BY <1>1, <1>2, PTL DEF Spec, LimiterContract, RL!Spec, limiterVars, RL!vars

(***************************************************************************)
(* What the broker knows of its limiter: the admissions of a key are in    *)
(* the order of the clock, no window holds too many, and a key it would    *)
(* not admit has used its limit up.                                        *)
(***************************************************************************)
InOrder(a) == \A i, j \in 1..Len(a) : i <= j => a[i] <= a[j]
Apart(a, n) == \A i \in 1..(Len(a) - n) : a[i + n] >= a[i] + WindowMs

LimiterFacts ==
    \A k \in RatedKeys :
        LET a == admitted[k]
            n == RatedLimit[k]
        IN  /\ InOrder(a)
            /\ Apart(a, n)
            /\ ~RL!Admits(k) => Len(a) >= n /\ a[Len(a) - n + 1] > now - WindowMs

\* They are the theorems of the limiter, of the limiter inside the broker.
LEMMA LimiterInside == Spec => [](RL!TypeOK /\ LimiterFacts)
<1>1. RLP!LimiterAssumption
  BY RatedLimitType, ResolveAssumption DEF ResolveAssumption, RLP!LimiterAssumption
<1>2. RL!Init <=> RLP!Init
  BY DEF RL!Init, RLP!Init
<1>3. \A S : RL!Cardinality(S) = RLP!Cardinality(S)
  BY DEF RL!Cardinality, RLP!Cardinality
<1>4. \A w, t : RL!Active(w, t) = RLP!Active(w, t)
  BY DEF RL!Active, RLP!Active
<1>5. \A w, t : RL!Kept(w, t) = RLP!Kept(w, t)
  BY <1>3, <1>4 DEF RL!Kept, RLP!Kept
<1>6. \A k : RL!Window(k) = RLP!Window(k)
  BY DEF RL!Window, RLP!Window
<1>7. \A k : RL!Admits(k) <=> RLP!Admits(k)
  BY <1>5, <1>6 DEF RL!Admits, RLP!Admits
<1>8. [RL!Next]_RL!vars <=> [RLP!Next]_RLP!vars
  <2>1. \A k, w : RL!SetWindow(k, w) = RLP!SetWindow(k, w)
    BY DEF RL!SetWindow, RLP!SetWindow
  <2>2. \A m, t : RL!Cleanup(m, t) = RLP!Cleanup(m, t)
    BY <1>4, <1>5 DEF RL!Cleanup, RLP!Cleanup
  <2>3. \A k : RL!CheckRefused(k) <=> RLP!CheckRefused(k)
    BY <1>5, <1>6, <1>7, <2>1 DEF RL!CheckRefused, RLP!CheckRefused
  <2>4. \A k : RL!CheckAdmitted(k) <=> RLP!CheckAdmitted(k)
    BY <1>3, <1>5, <1>6, <1>7, <2>1, <2>2 DEF RL!CheckAdmitted, RLP!CheckAdmitted
  <2> QED
    BY <2>3, <2>4 DEF RL!Next, RLP!Next, RL!Tick, RLP!Tick, RL!vars, RLP!vars
<1>9. RLP!IInv /\ RLP!RefusalJustified => RL!TypeOK /\ LimiterFacts
  <2> SUFFICES ASSUME RLP!IInv, RLP!RefusalJustified PROVE RL!TypeOK /\ LimiterFacts
    OBVIOUS
  <2>1. RL!TypeOK
    BY DEF RLP!IInv, RLP!TypeOK, RL!TypeOK
  <2>2. ASSUME NEW k \in RatedKeys
        PROVE  InOrder(admitted[k]) /\ Apart(admitted[k], RatedLimit[k])
    BY DEF RLP!IInv, RLP!Fits, RLP!Spaced, InOrder, Apart
  <2>3. ASSUME NEW k \in RatedKeys, ~RL!Admits(k)
        PROVE  /\ Len(admitted[k]) >= RatedLimit[k]
               /\ admitted[k][Len(admitted[k]) - RatedLimit[k] + 1] > now - WindowMs
    BY <1>7, <2>3 DEF RLP!RefusalJustified
  <2> QED
    BY <2>1, <2>2, <2>3 DEF LimiterFacts
<1>10. RLP!Spec => []RLP!IInv /\ []RLP!RefusalJustified
  BY <1>1, RLP!Invariance, RLP!NoFalseRefusal
<1> QED
  BY <1>2, <1>8, <1>9, <1>10, ImplementsLimiter, PTL DEF LimiterContract, RL!Spec, RLP!Spec

(***************************************************************************)
(* No window lets more requests through under a key than its rule says:    *)
(* the theorem of the limiter, of the limiter inside the broker.           *)
(***************************************************************************)
THEOREM QuotaKept == Spec => [](RL!TypeOK /\ RL!SlidingWindow)
<1>1. RL!TypeOK /\ LimiterFacts => RL!TypeOK /\ RL!SlidingWindow
  BY DEF LimiterFacts, Apart, RL!SlidingWindow
<1> QED
  BY <1>1, LimiterInside, PTL

-----------------------------------------------------------------------------
(* What holds of one request, whatever the others do.                      *)

Stage == {"idle", "fetching", "resolving", "hung", "answered"}
Code == {"rule-allow", "rule-deny", "rule-default-deny",
         "rule-constraint", "rule-rate-limit-exceeded"}
Job == [agent : Agents, cred : Creds]
AimAnswer == [identity : Identities \union {None}]
Decision == [rule : 0..Len(Rules), at : 0..MaxTime, code : Code]
Log == Seq({"allowed", "denied"})
Status == {None, 200, 400, 401, 403, 404, 500, 503}

\* Its stage p, job j, AIM answer an, decision d, records l and status s agree.
RequestOK(p, j, an, d, l, s) ==
    /\ p \in Stage
    /\ j \in Job \union {None}
    /\ an \in AimAnswer \union {None}
    /\ d \in Decision \union {None}
    /\ l \in Log
    /\ s \in Status
    /\ p = "answered" <=> s # None
    /\ p = "resolving" => d # None /\ d.code = "rule-allow"
    /\ p \in {"idle", "fetching", "hung"} => d = None
    /\ p \in {"fetching", "resolving"} => j \in Job
    /\ an # None => p = "fetching"
    /\ p \in {"fetching", "resolving"} => resolver
    /\ s = 200 <=> l = <<"allowed">>
    /\ s \in {401, 403, 404, 500, 503} \ Unrecorded <=> l = <<"denied">>
    /\ s \in Unrecorded <=> l = << >>

RequestsInv ==
    /\ pc \in [Requests -> Stage]
    /\ job \in [Requests -> Job \union {None}]
    /\ answer \in [Requests -> AimAnswer \union {None}]
    /\ decision \in [Requests -> Decision \union {None}]
    /\ log \in [Requests -> Log]
    /\ reply \in [Requests -> Status]
    /\ \A r \in Requests :
          RequestOK(pc[r], job[r], answer[r], decision[r], log[r], reply[r])

\* A step about one request, and what it leaves it at.
Moves(r, p, j, an, d, l, s) ==
    /\ pc' = [pc EXCEPT ![r] = p]
    /\ job' = [job EXCEPT ![r] = j]
    /\ answer' = [answer EXCEPT ![r] = an]
    /\ decision' = [decision EXCEPT ![r] = d]
    /\ log' = [log EXCEPT ![r] = l]
    /\ reply' = [reply EXCEPT ![r] = s]

\* Such a step keeps what holds of the requests when it keeps it of that one.
LEMMA OneRequest ==
    ASSUME RequestsInv, UNCHANGED resolver, NEW r \in Requests,
           NEW p, NEW j, NEW an, NEW d, NEW l, NEW s,
           Moves(r, p, j, an, d, l, s), RequestOK(p, j, an, d, l, s)
    PROVE  RequestsInv'
<1>1. /\ p \in Stage
      /\ j \in Job \union {None}
      /\ an \in AimAnswer \union {None}
      /\ d \in Decision \union {None}
      /\ l \in Log
      /\ s \in Status
  BY DEF RequestOK
<1>2. /\ pc' \in [Requests -> Stage]
      /\ job' \in [Requests -> Job \union {None}]
      /\ answer' \in [Requests -> AimAnswer \union {None}]
      /\ decision' \in [Requests -> Decision \union {None}]
      /\ log' \in [Requests -> Log]
      /\ reply' \in [Requests -> Status]
  BY <1>1 DEF RequestsInv, Moves
<1>3. ASSUME NEW q \in Requests
      PROVE  RequestOK(pc'[q], job'[q], answer'[q], decision'[q], log'[q], reply'[q])
  <2>1. CASE q = r
    <3>1. /\ pc'[q] = p /\ job'[q] = j /\ answer'[q] = an
          /\ decision'[q] = d /\ log'[q] = l /\ reply'[q] = s
      BY <2>1 DEF RequestsInv, Moves
    <3> QED
      BY <3>1
  <2>2. CASE q # r
    <3>1. /\ pc'[q] = pc[q] /\ job'[q] = job[q] /\ answer'[q] = answer[q]
          /\ decision'[q] = decision[q] /\ log'[q] = log[q] /\ reply'[q] = reply[q]
      BY <2>2 DEF RequestsInv, Moves
    <3> QED
      BY <3>1 DEF RequestsInv
  <2> QED
    BY <2>1, <2>2
<1>4. ASSUME NEW q \in Requests
      PROVE  RequestOK(pc[q], job[q], answer[q], decision[q], log[q], reply[q])'
  <2>1. Unrecorded' = Unrecorded
    BY DEF Unrecorded
  <2> QED
    BY <1>3, <2>1 DEF RequestOK
<1> QED
  BY <1>2, <1>4 DEF RequestsInv

\* The records of a request: none, or one.
LEMMA Records ==
    /\ << >> \in Log
    /\ \A x \in {"allowed", "denied"} :
          Append(<< >>, x) = <<x>> /\ <<x>> \in Log /\ <<x>> # << >>
    /\ <<"allowed">> # <<"denied">>
BY DEF Log

\* The record l and the status s of an answered request agree.
Agree(l, s) ==
    /\ l \in Log /\ s \in Status \ {None}
    /\ s = 200 <=> l = <<"allowed">>
    /\ s \in {401, 403, 404, 500, 503} \ Unrecorded <=> l = <<"denied">>
    /\ s \in Unrecorded <=> l = << >>

\* r is answered with s, and l are its records.
Answers(r, l, s) ==
    /\ pc' = [pc EXCEPT ![r] = "answered"]
    /\ log' = [log EXCEPT ![r] = l]
    /\ reply' = [reply EXCEPT ![r] = s]

\* An answer with its record, of a request that has neither.
LEMMA RecordedAnswer ==
    ASSUME RequestsInv, NEW r \in Requests, pc[r] # "answered",
           NEW result, NEW status, RecordAndAnswer(r, result, status),
           \/ result = "allowed" /\ status = 200
           \/ result = "denied" /\ status \in {401, 403, 404, 500, 503} \ Unrecorded
    PROVE  \E l, s : Answers(r, l, s) /\ Agree(l, s)
<1>1. None \notin Nat
  BY ResolveAssumption DEF ResolveAssumption
<1>2. log[r] = << >> /\ log \in [Requests -> Log]
  BY DEF RequestsInv, RequestOK, Unrecorded
<1>3. CASE log' = [log EXCEPT ![r] = Append(@, result)] /\ Answer(r, status)
  <2>1. log' = [log EXCEPT ![r] = <<result>>]
    BY <1>2, <1>3, Records
  <2>2. Agree(<<result>>, status)
    BY <1>1, Records DEF Status, Agree, Unrecorded
  <2>3. Answers(r, <<result>>, status)
    BY <1>3, <2>1, ZenonT(40) DEF Answer, Answers
  <2> QED
    BY <2>2, <2>3
<1>4. CASE UNCHANGED log /\ Answer(r, 400)
  <2>1. log' = [log EXCEPT ![r] = << >>]
    BY <1>2, <1>4
  <2>2. Agree(<< >>, 400)
    BY <1>1, Records DEF Status, Agree, Unrecorded
  <2>3. Answers(r, << >>, 400)
    BY <1>4, <2>1, ZenonT(40) DEF Answer, Answers
  <2> QED
    BY <2>2, <2>3
<1> QED
  BY <1>3, <1>4 DEF RecordAndAnswer

\* What evaluate returns names a rule of the file, or none of them.
LEMMA VerdictType ==
    ASSUME NEW a, NEW c, NEW identity
    PROVE  /\ Verdict(a, c, identity).rule \in 0..Len(Rules)
           /\ Verdict(a, c, identity).code
                 \in {"rule-allow", "rule-deny", "rule-default-deny", "rule-constraint"}
<1>1. Len(Rules) \in Nat /\ DOMAIN Rules = 1..Len(Rules)
  BY RulesAssumption DEF RulesAssumption
<1>2. \A effect : Matching(effect, a, c) # {} => Min(Matching(effect, a, c)) \in 0..Len(Rules)
  BY <1>1, FirstMatch
<1> HIDE DEF Matching
<1>3. CASE Matching("deny", a, c) # {}
  BY <1>2, <1>3 DEF Verdict
<1>4. CASE Matching("deny", a, c) = {} /\ Matching("allow", a, c) = {}
  BY <1>1, <1>4 DEF Verdict
<1>5. CASE Matching("deny", a, c) = {} /\ Matching("allow", a, c) # {}
  BY <1>2, <1>5 DEF Verdict
<1> QED
  BY <1>3, <1>4, <1>5

\* A request that is refused when it is decided.
LEMMA RefusedMoves ==
    ASSUME RequestsInv, UNCHANGED resolver, now \in 0..MaxTime,
           NEW r \in Requests, pc[r] \in {"idle", "fetching"},
           NEW j \in Job, NEW v, v.rule \in 0..Len(Rules), v.code \in Code,
           job' = [job EXCEPT ![r] = j], answer' = [answer EXCEPT ![r] = None],
           Decided(r, v), RecordAndAnswer(r, "denied", 403)
    PROVE  RequestsInv'
<1> DEFINE d == [rule |-> v.rule, code |-> v.code, at |-> now]
<1>0. 403 \notin Unrecorded
  BY ResolveAssumption DEF ResolveAssumption, Unrecorded
<1>1. PICK l, s : Answers(r, l, s) /\ Agree(l, s)
  BY <1>0, RecordedAnswer
<1>2. Moves(r, "answered", j, None, d, l, s)
  BY <1>1 DEF Moves, Answers, Decided
<1>3. d \in Decision
  BY DEF Decision
<1>4. RequestOK("answered", j, None, d, l, s)
  <2> HIDE DEF d
  <2> QED
    BY <1>1, <1>3 DEF RequestOK, Agree, Stage
<1> QED
  BY <1>2, <1>4, OneRequest

\* A request that is let through to the resolver.
LEMMA GrantedMoves ==
    ASSUME RequestsInv, UNCHANGED resolver, resolver, now \in 0..MaxTime,
           NEW r \in Requests, pc[r] \in {"idle", "fetching"},
           NEW j \in Job, NEW v, v.rule \in 0..Len(Rules), v.code = "rule-allow",
           job' = [job EXCEPT ![r] = j], answer' = [answer EXCEPT ![r] = None],
           Decided(r, v), pc' = [pc EXCEPT ![r] = "resolving"], UNCHANGED <<log, reply>>
    PROVE  RequestsInv'
<1> DEFINE d == [rule |-> v.rule, code |-> v.code, at |-> now]
<1>1. /\ log[r] = << >> /\ reply[r] = None
      /\ log \in [Requests -> Log] /\ reply \in [Requests -> Status]
  BY DEF RequestsInv, RequestOK, Unrecorded
<1>2. Moves(r, "resolving", j, None, d, << >>, None)
  BY <1>1 DEF Moves, Decided
<1>3. d \in Decision /\ d.code = "rule-allow" /\ d # None
  <2>1. v.rule \in Nat /\ now \in Nat /\ "rule-allow" \in Code
    BY RulesAssumption, ResolveAssumption DEF RulesAssumption, ResolveAssumption, Code
  <2>2. d \in [rule : Nat, code : {"rule-allow"}, at : Nat] /\ d \in Decision
    BY <2>1 DEF Decision
  <2>3. None \notin [rule : Nat, code : {"rule-allow"}, at : Nat]
    BY ResolveAssumption DEF ResolveAssumption
  <2> QED
    BY <2>2, <2>3
<1>4. RequestOK("resolving", j, None, d, << >>, None)
  <2>1. None \notin Nat
    BY ResolveAssumption DEF ResolveAssumption
  <2> HIDE DEF d
  <2> QED
    BY <2>1, <1>3, Records DEF RequestOK, Stage, Status, Unrecorded
<1> QED
  BY <1>2, <1>4, OneRequest

\* What policy.evaluate decides keeps what holds of the requests.
LEMMA DecideKeeps ==
    ASSUME RequestsInv, UNCHANGED resolver, resolver, now \in 0..MaxTime,
           NEW r \in Requests, pc[r] \in {"idle", "fetching"},
           NEW a \in Agents, NEW c \in Creds, NEW identity,
           Decide(r, a, c, identity), answer' = [answer EXCEPT ![r] = None]
    PROVE  RequestsInv'
<1> DEFINE v == Verdict(a, c, identity)
           j == [agent |-> a, cred |-> c]
           w == [v EXCEPT !.code = "rule-rate-limit-exceeded"]
<1>1. /\ v.rule \in 0..Len(Rules)
      /\ v.code \in {"rule-allow", "rule-deny", "rule-default-deny", "rule-constraint"}
  BY VerdictType
<1>2. j \in Job /\ job' = [job EXCEPT ![r] = j]
  BY DEF Decide, Job
<1>3. w.rule \in 0..Len(Rules) /\ w.code \in Code
  BY <1>1 DEF Verdict, Code
<1>4. \/ Decided(r, v) /\ RecordAndAnswer(r, "denied", 403)
      \/ Decided(r, w) /\ RecordAndAnswer(r, "denied", 403)
      \/ /\ v.code = "rule-allow"
         /\ Decided(r, v)
         /\ pc' = [pc EXCEPT ![r] = "resolving"]
         /\ UNCHANGED <<log, reply>>
  BY DEF Decide
<1> HIDE DEF v, j, w
<1>5. v.code \in Code
  BY <1>1 DEF Code
<1> QED
  BY <1>1, <1>2, <1>3, <1>4, <1>5, RefusedMoves, GrantedMoves

\* A request answered otherwise.
LEMMA AnsweredMoves ==
    ASSUME RequestsInv, UNCHANGED resolver, NEW r \in Requests, pc[r] \in {"idle", "resolving"},
           NEW l, NEW s, Answers(r, l, s), Agree(l, s),
           UNCHANGED <<job, answer, decision>>
    PROVE  RequestsInv'
<1>1. /\ job[r] \in Job \union {None}
      /\ answer[r] = None
      /\ decision[r] \in Decision \union {None}
  BY DEF RequestsInv, RequestOK, Unrecorded
<1>2. Moves(r, "answered", job[r], None, decision[r], l, s)
  BY <1>1 DEF Moves, Answers, RequestsInv
<1>3. RequestOK("answered", job[r], None, decision[r], l, s)
  BY <1>1 DEF RequestOK, Agree, Stage
<1> QED
  BY <1>2, <1>3, OneRequest

\* An answer with a record, and nothing else about the request.
LEMMA RecordedMoves ==
    ASSUME RequestsInv, UNCHANGED resolver, NEW r \in Requests, pc[r] \in {"idle", "resolving"},
           NEW result, NEW status, RecordAndAnswer(r, result, status),
           \/ result = "allowed" /\ status = 200
           \/ result = "denied" /\ status \in {401, 403, 404, 500, 503} \ Unrecorded,
           UNCHANGED <<job, answer, decision>>
    PROVE  RequestsInv'
<1>1. PICK l, s : Answers(r, l, s) /\ Agree(l, s)
  BY RecordedAnswer
<1> QED
  BY <1>1, AnsweredMoves

\* The steps of a request that is never decided.
LEMMA UnnamedKeeps ==
    ASSUME RequestsInv, UNCHANGED resolver, NEW r \in Requests,
           UnnamedStep(r)
    PROVE  RequestsInv'
<1>1. None \notin Nat
  BY ResolveAssumption DEF ResolveAssumption
<1>2. /\ pc[r] = "idle" /\ log[r] = << >>
      /\ log \in [Requests -> Log]
  BY DEF UnnamedStep, Unauthorized, NoResolver, Malformed, ScannerUnavailable, RequestsInv, RequestOK, Unrecorded
<1>3. CASE Unauthorized(r)
  <2>1. CASE alive' = FALSE /\ UNCHANGED <<pc, reply, log, job, answer, decision>>
    BY <2>1 DEF RequestsInv, RequestOK, Unrecorded
  <2>2. CASE /\ log' = [log EXCEPT ![r] = Append(@, "denied")]
             /\ Answer(r, 401)
             /\ UNCHANGED <<job, answer, decision>>
    <3>1. RecordAndAnswer(r, "denied", 401)
      BY <2>2 DEF RecordAndAnswer
    <3> QED
      BY <1>1, <1>2, <2>2, <3>1, RecordedMoves DEF Unrecorded
  <2> QED
    BY <1>3, <2>1, <2>2 DEF Unauthorized
<1>4. CASE Malformed(r)
  <2>1. Answers(r, << >>, 400)
    BY <1>2, <1>4 DEF Malformed, Answer, Answers
  <2>2. Agree(<< >>, 400)
    BY <1>1, Records DEF Status, Agree, Unrecorded
  <2> QED
    BY <1>2, <1>4, <2>1, <2>2, AnsweredMoves DEF Malformed
<1>5. CASE ScannerUnavailable(r)
  BY <1>1, <1>2, <1>5, RecordedMoves DEF ScannerUnavailable, Unrecorded
<1>6. CASE NoResolver(r)
  <2>1. Answers(r, << >>, 404)
    BY <1>2, <1>6 DEF NoResolver, Answer, Answers
  <2>2. Agree(<< >>, 404)
    BY <1>1, <1>6, Records DEF NoResolver, Status, Agree, Unrecorded
  <2> QED
    BY <1>2, <1>6, <2>1, <2>2, AnsweredMoves DEF NoResolver
<1> QED
  BY <1>3, <1>4, <1>5, <1>6 DEF UnnamedStep

\* The steps of a request that names an agent and a credential.
LEMMA NamedKeeps ==
    ASSUME RequestsInv, UNCHANGED resolver, now \in 0..MaxTime, NEW r \in Requests, NEW a \in Agents, NEW c \in Creds,
           ResolveWithoutFetch(r, a, c) \/ StartFetch(r, a, c)
    PROVE  RequestsInv'
<1>1. None \notin Nat
  BY ResolveAssumption DEF ResolveAssumption
<1>2. /\ resolver /\ pc[r] = "idle" /\ answer[r] = None /\ decision[r] = None
      /\ log[r] = << >> /\ reply[r] = None
      /\ answer \in [Requests -> AimAnswer \union {None}]
      /\ decision \in [Requests -> Decision \union {None}]
      /\ log \in [Requests -> Log] /\ reply \in [Requests -> Status]
  BY DEF ResolveWithoutFetch, StartFetch, RequestsInv, RequestOK, Unrecorded
<1>3. CASE ResolveWithoutFetch(r, a, c)
  <2>1. answer' = [answer EXCEPT ![r] = None]
    BY <1>2, <1>3 DEF ResolveWithoutFetch
  <2> QED
    BY <1>2, <1>3, <2>1, DecideKeeps DEF ResolveWithoutFetch
<1>4. CASE StartFetch(r, a, c)
  <2> DEFINE j == [agent |-> a, cred |-> c]
  <2>1. j \in Job
    BY DEF Job
  <2>2. Moves(r, "fetching", j, None, None, << >>, None)
    BY <1>2, <1>4 DEF StartFetch, Moves
  <2>3. RequestOK("fetching", j, None, None, << >>, None)
    BY <1>1, <1>2, <2>1, Records DEF RequestOK, Stage, Status, Unrecorded
  <2> QED
    BY <2>2, <2>3, OneRequest
<1> QED
  BY <1>3, <1>4

\* The steps of a request whose identity is being fetched.
LEMMA FetchKeeps ==
    ASSUME RequestsInv, UNCHANGED resolver, now \in 0..MaxTime, aim \in [Agents -> Identities \union {None}],
           NEW r \in Requests,
           AimAnswers(r) \/ AimReplies(r) \/ AimFails(r) \/ AimAborts(r)
    PROVE  RequestsInv'
<1>1. None \notin Nat
  BY ResolveAssumption DEF ResolveAssumption
<1>2. /\ resolver /\ pc[r] = "fetching" /\ job[r] \in Job
      /\ decision[r] = None /\ log[r] = << >> /\ reply[r] = None
      /\ job \in [Requests -> Job \union {None}]
      /\ decision \in [Requests -> Decision \union {None}]
      /\ log \in [Requests -> Log] /\ reply \in [Requests -> Status]
      /\ pc \in [Requests -> Stage]
  BY DEF AimAnswers, AimReplies, AimFails, AimAborts, RequestsInv, RequestOK, Unrecorded
<1>3. job[r].agent \in Agents /\ job[r].cred \in Creds
  BY <1>2 DEF Job
<1>4. CASE AimAnswers(r)
  <2> DEFINE an == [identity |-> aim[job[r].agent]]
  <2>1. an \in AimAnswer
    BY <1>3 DEF AimAnswer
  <2>2. Moves(r, "fetching", job[r], an, None, << >>, None)
    BY <1>2, <1>4 DEF AimAnswers, Moves
  <2>3. RequestOK("fetching", job[r], an, None, << >>, None)
    <3> HIDE DEF an
    <3> QED
      BY <1>1, <1>2, <2>1, Records DEF RequestOK, Stage, Status, Unrecorded
  <2> QED
    BY <2>2, <2>3, OneRequest
<1>5. CASE AimReplies(r)
  BY <1>2, <1>3, <1>5, DecideKeeps DEF AimReplies
<1>6. CASE AimFails(r)
  BY <1>2, <1>3, <1>6, DecideKeeps DEF AimFails
<1>7. CASE AimAborts(r)
  <2>1. Moves(r, "hung", job[r], None, None, << >>, None)
    BY <1>2, <1>7 DEF AimAborts, Moves
  <2>2. RequestOK("hung", job[r], None, None, << >>, None)
    BY <1>1, <1>2, Records DEF RequestOK, Stage, Status, Unrecorded
  <2> QED
    BY <2>1, <2>2, OneRequest
<1> QED
  BY <1>4, <1>5, <1>6, <1>7

\* The steps of a request whose credential is being resolved.
LEMMA BackendKeeps ==
    ASSUME RequestsInv, UNCHANGED resolver, NEW r \in Requests,
           CredentialFound(r) \/ CredentialMissing(r) \/ BackendFails(r)
    PROVE  RequestsInv'
<1>1. pc[r] = "resolving" /\ resolver /\ UNCHANGED <<job, answer, decision>>
  BY DEF CredentialFound, CredentialMissing, BackendFails, Resolved, RequestsInv, RequestOK
<1>2. \/ RecordAndAnswer(r, "allowed", 200)
      \/ RecordAndAnswer(r, "denied", 404)
      \/ RecordAndAnswer(r, "denied", 500)
  BY DEF CredentialFound, CredentialMissing, BackendFails, Resolved, RecordAndAnswer
<1>3. None \notin Nat
  BY ResolveAssumption DEF ResolveAssumption
<1> QED
  BY <1>1, <1>2, <1>3, RecordedMoves DEF Unrecorded

-----------------------------------------------------------------------------
(* AIM, the identity cache and the process.                                *)

Entry == [identity : Identities, expiresAt : 0..(MaxTime + Ttl)]

WorldInv ==
    /\ aim \in [Agents -> Identities \union {None}]
    /\ since \in [Agents -> 0..MaxTime]
    /\ told \in [Agents -> 0..MaxTime]
    /\ DOMAIN cache \subseteq Agents
    /\ \A a \in DOMAIN cache : cache[a] \in Entry
    /\ alive \in BOOLEAN /\ resolver \in BOOLEAN

\* A step of a request leaves AIM alone, and puts in the cache what AIM answered.
LEMMA RequestKeepsWorld ==
    ASSUME RequestsInv, WorldInv, now \in 0..MaxTime,
           NEW r \in Requests, NEW a, NEW c,
           \/ UnnamedStep(r)
           \/ ResolveWithoutFetch(r, a, c) \/ StartFetch(r, a, c)
           \/ AimAnswers(r) \/ HandlerStep(r)
    PROVE  WorldInv'
<1>1. UNCHANGED aimVars
  BY DEF UnnamedStep, Unauthorized, NoResolver, Malformed, ScannerUnavailable, ResolveWithoutFetch, StartFetch,
         AimAnswers, HandlerStep, AimReplies, AimFails, AimAborts,
         CredentialFound, CredentialMissing, BackendFails, Resolved
<1>2. alive' \in BOOLEAN /\ resolver' \in BOOLEAN /\ told' \in [Agents -> 0..MaxTime]
  <2>1. alive' = alive \/ alive' = FALSE
    BY DEF UnnamedStep, Unauthorized, NoResolver, Malformed, ScannerUnavailable, ResolveWithoutFetch, StartFetch,
           AimAnswers, HandlerStep, AimReplies, AimFails, AimAborts,
           CredentialFound, CredentialMissing, BackendFails, Resolved, processVars
  <2>2. UNCHANGED resolver
    BY DEF UnnamedStep, Unauthorized, NoResolver, Malformed, ScannerUnavailable, ResolveWithoutFetch,
           StartFetch, AimAnswers, HandlerStep, AimReplies, AimFails, AimAborts,
           CredentialFound, CredentialMissing, BackendFails, Resolved, processVars
  <2>3. UNCHANGED told \/ \E b : told' = [told EXCEPT ![b] = now]
    BY DEF UnnamedStep, Unauthorized, NoResolver, Malformed, ScannerUnavailable, ResolveWithoutFetch,
           StartFetch, AimAnswers, HandlerStep, AimReplies, AimFails, AimAborts,
           CredentialFound, CredentialMissing, BackendFails, Resolved
  <2> QED
    BY <2>1, <2>2, <2>3 DEF WorldInv
<1>3. CASE StartFetch(r, a, c)
  <2>1. DOMAIN cache' \subseteq DOMAIN cache /\ \A b \in DOMAIN cache' : cache'[b] = cache[b]
    BY <1>3 DEF StartFetch
  <2> QED
    BY <1>1, <1>2, <2>1 DEF WorldInv, aimVars
<1>4. CASE AimReplies(r)
  <2>1. /\ pc[r] = "fetching" /\ job[r] \in Job /\ answer[r] \in AimAnswer
    BY <1>4 DEF AimReplies, RequestsInv, RequestOK
  <2>2. job[r].agent \in Agents /\ answer[r].identity \in Identities \union {None}
    BY <2>1 DEF Job, AimAnswer
  <2>3. now + Ttl \in 0..(MaxTime + Ttl)
    BY ResolveAssumption DEF ResolveAssumption
  <2> DEFINE e == [identity |-> answer[r].identity, expiresAt |-> now + Ttl]
  <2>4. CASE answer[r].identity = None
    <3>1. cache' = cache
      BY <1>4, <2>4 DEF AimReplies
    <3> QED
      BY <1>1, <1>2, <3>1 DEF WorldInv, aimVars
  <2>5. CASE answer[r].identity # None
    <3>1. e \in Entry
      BY <2>2, <2>3, <2>5 DEF Entry
    <3>2. cache' = [b \in DOMAIN cache \union {job[r].agent} |->
                       IF b = job[r].agent THEN e ELSE cache[b]]
      BY <1>4, <2>5 DEF AimReplies
    <3> HIDE DEF e
    <3> QED
      BY <1>1, <1>2, <2>2, <3>1, <3>2 DEF WorldInv, aimVars
  <2> QED
    BY <2>4, <2>5
<1>5. CASE cache' = cache
  BY <1>1, <1>2, <1>5 DEF WorldInv, aimVars
<1>6. StartFetch(r, a, c) \/ AimReplies(r) \/ cache' = cache
  BY DEF UnnamedStep, Unauthorized, NoResolver, Malformed, ScannerUnavailable, ResolveWithoutFetch,
         AimAnswers, HandlerStep, AimFails, AimAborts,
         CredentialFound, CredentialMissing, BackendFails, Resolved
<1> QED
  BY <1>3, <1>4, <1>5, <1>6

IInv == RequestsInv /\ WorldInv

\* Nothing has begun, and nothing is cached.
LEMMA InitInv == Init => IInv
<1> SUFFICES ASSUME Init PROVE IInv
  OBVIOUS
<1>1. MaxTime \in Nat
  BY ResolveAssumption DEF ResolveAssumption
<1>2. WorldInv
  BY <1>1 DEF Init, WorldInv
<1>3. RequestOK("idle", None, None, None, << >>, None) /\ None \in Unrecorded
  <2>1. None \notin Nat
    BY ResolveAssumption DEF ResolveAssumption
  <2> QED
    BY <2>1, Records DEF RequestOK, Stage, Status, Unrecorded
<1>4. RequestsInv
  BY <1>3 DEF Init, RequestsInv, RequestOK
<1> QED
  BY <1>2, <1>4 DEF IInv

\* A broker has a resolver or not for as long as it runs.
LEMMA ResolverFixed == [Next]_vars => UNCHANGED resolver
BY ZenonT(40) DEF Next, vars, processVars, Unauthorized, NoResolver, Malformed, ScannerUnavailable,
       ResolveWithoutFetch, StartFetch, AimAnswers, HandlerStep, AimReplies, AimFails, AimAborts,
       CredentialFound, CredentialMissing, BackendFails, Resolved, AimChanges, Tick

\* Every step of the broker, of AIM and of the clock keeps it.
LEMMA NextInv == IInv /\ RL!TypeOK /\ [Next]_vars => IInv'
<1> SUFFICES ASSUME IInv, RL!TypeOK, [Next]_vars PROVE IInv'
  OBVIOUS
<1>1. RequestsInv /\ WorldInv /\ now \in 0..MaxTime /\ MaxTime \in Nat /\ UNCHANGED resolver
  BY ResolverFixed, ResolveAssumption DEF IInv, RL!TypeOK, ResolveAssumption
<1>2. CASE UNCHANGED <<requestVars, aimVars, told, cache, processVars>>
  BY <1>1, <1>2 DEF IInv, RequestsInv, RequestOK, Unrecorded, WorldInv, requestVars, aimVars, processVars
<1>3. ASSUME NEW r \in Requests, UnnamedStep(r)
      PROVE  IInv'
  BY <1>1, <1>3, UnnamedKeeps, RequestKeepsWorld DEF IInv
<1>4. ASSUME NEW r \in Requests, NEW a \in Agents, NEW c \in Creds,
             ResolveWithoutFetch(r, a, c) \/ StartFetch(r, a, c)
      PROVE  IInv'
  BY <1>1, <1>4, NamedKeeps, RequestKeepsWorld DEF IInv
<1>5. ASSUME NEW r \in Requests, AimAnswers(r) \/ HandlerStep(r)
      PROVE  IInv'
  BY <1>1, <1>5, FetchKeeps, BackendKeeps, RequestKeepsWorld DEF IInv, WorldInv, HandlerStep
<1>6. ASSUME NEW a \in Agents, AimChanges(a)
      PROVE  IInv'
  <2>1. aim' \in [Agents -> Identities \union {None}] /\ since' \in [Agents -> 0..MaxTime]
    BY <1>1, <1>6 DEF AimChanges, WorldInv
  <2> QED
    BY <1>1, <1>6, <2>1 DEF AimChanges, IInv, RequestsInv, RequestOK, Unrecorded, WorldInv, requestVars,
                                processVars
<1>7. CASE Tick
  BY <1>2, <1>7 DEF Tick
<1> QED
  BY <1>2, <1>3, <1>4, <1>5, <1>6, <1>7 DEF Next, vars, UnnamedStep

\* The limiter's type, kept by the limiter, is all a step needs to know of it.
LEMMA Invariance == Spec => []IInv
<1>1. RL!TypeOK /\ RL!SlidingWindow => RL!TypeOK
  OBVIOUS
<1> QED
  BY <1>1, InitInv, NextInv, QuotaKept, PTL DEF Spec

(***************************************************************************)
(* Whatever requests interleave in the broker, and whatever AIM, the       *)
(* backends and the audit log do, every variable keeps its shape, and the  *)
(* stage of a request agrees with what is recorded of it.                  *)
(***************************************************************************)
THEOREM TypeCorrect == Spec => []TypeOK
<1>1. IInv /\ RL!TypeOK => TypeOK
  BY DEF IInv, RequestsInv, RequestOK, WorldInv, TypeOK, Stage, Code, Job, AimAnswer,
         Decision, Log, Status, Entry, Granted
<1>2. RL!TypeOK /\ RL!SlidingWindow => RL!TypeOK
  OBVIOUS
<1> QED
  BY <1>1, <1>2, Invariance, QuotaKept, PTL

(***************************************************************************)
(* The audit trail tells what was answered (handleResolve and logEvent of  *)
(* server.ts): a value leaves the broker with exactly one "allowed"        *)
(* record, a refusal with one "denied" record, a 400 with none.            *)
(***************************************************************************)
THEOREM AuditAgrees == Spec => []LogAgreesWithReply
<1>1. IInv => LogAgreesWithReply
  BY DEF IInv, RequestsInv, RequestOK, LogAgreesWithReply
<1> QED
  BY <1>1, Invariance, PTL

-----------------------------------------------------------------------------
(* The slots of the limiter and the requests they were used up by.         *)

(***************************************************************************)
(* The ways to give each request let through under a key a slot of its     *)
(* own, all slots used, each taken at the time its request was decided.    *)
(***************************************************************************)
Places(k) ==
    {f \in Bijection(Counted(k), 1..Len(admitted[k])) :
        \A r \in Counted(k) : decision[r].at = admitted[k][f[r]]}

SlotOfEach == \A k \in RatedKeys : Places(k) # {}

\* A step that uses no slot.
NoSlotUsed ==
    /\ UNCHANGED admitted
    /\ \A k : Counted(k)' = Counted(k)
    /\ \A q \in Requests : Granted(q) => decision'[q] = decision[q]

\* A step by which r uses the next slot of a key.
SlotUsed(r, key) ==
    /\ key \in RatedKeys
    /\ admitted' = [admitted EXCEPT ![key] = Append(@, now)]
    /\ r \notin Counted(key)
    /\ Counted(key)' = Counted(key) \union {r}
    /\ \A k : k # key => Counted(k)' = Counted(k)
    /\ decision'[r].at = now
    /\ \A q \in Requests : q # r => decision'[q] = decision[q]

\* A step that grants nothing and uses no slot.
LEMMA SameSlots ==
    ASSUME UNCHANGED admitted,
           \A q \in Requests :
              /\ Granted(q)' <=> Granted(q)
              /\ Granted(q) => job'[q] = job[q] /\ decision'[q] = decision[q]
    PROVE  NoSlotUsed
<1>1. ASSUME NEW k
      PROVE  Counted(k)' = Counted(k)
  BY DEF Counted
<1> QED
  BY <1>1 DEF NoSlotUsed

\* A decision that lets nothing through that is counted.
LEMMA UncountedSlots ==
    ASSUME IInv, UNCHANGED admitted,
           NEW r \in Requests, pc[r] \in {"idle", "fetching"},
           NEW a, NEW c, NEW v, Decided(r, v),
           job' = [job EXCEPT ![r] = [agent |-> a, cred |-> c]],
           v.code = "rule-allow" => <<a, c>> \notin Rated
    PROVE  NoSlotUsed
<1>1. /\ decision \in [Requests -> Decision \union {None}]
      /\ job \in [Requests -> Job \union {None}]
      /\ decision[r] = None
  BY DEF IInv, RequestsInv, RequestOK
<1>2. \A q \in Requests : q # r => decision'[q] = decision[q] /\ job'[q] = job[q]
  BY <1>1 DEF Decided
<1>3. ~Granted(r)
  BY <1>1 DEF Granted
<1>4. /\ decision'[r].code = v.code
      /\ job'[r].agent = a /\ job'[r].cred = c
  BY <1>1 DEF Decided
<1>5. ASSUME NEW k
      PROVE  Counted(k)' = Counted(k)
  <2>1. \A q \in Requests \ {r} : q \in Counted(k)' <=> q \in Counted(k)
    BY <1>2 DEF Counted, Granted
  <2>2. r \notin Counted(k)
    BY <1>3 DEF Counted
  <2>3. r \notin Counted(k)'
    BY <1>4 DEF Counted, Granted
  <2> QED
    BY <2>1, <2>2, <2>3 DEF Counted
<1> QED
  BY <1>2, <1>3, <1>5 DEF NoSlotUsed

\* A decision that lets a request through, and counts it.
LEMMA CountedSlots ==
    ASSUME IInv, RL!TypeOK,
           NEW r \in Requests, pc[r] \in {"idle", "fetching"},
           NEW a, NEW c, NEW v, v.rule \in Nat, v.code = "rule-allow", Decided(r, v),
           job' = [job EXCEPT ![r] = [agent |-> a, cred |-> c]],
           <<a, c>> \in Rated, RL!CheckAdmitted(KeyOf[<<a, c>>])
    PROVE  SlotUsed(r, KeyOf[<<a, c>>])
<1> DEFINE key == KeyOf[<<a, c>>]
           d == [rule |-> v.rule, code |-> v.code, at |-> now]
<1>1. /\ decision \in [Requests -> Decision \union {None}]
      /\ job \in [Requests -> Job \union {None}]
      /\ decision[r] = None
  BY DEF IInv, RequestsInv, RequestOK
<1>2. \A q \in Requests : q # r => decision'[q] = decision[q] /\ job'[q] = job[q]
  BY <1>1 DEF Decided
<1>3. ~Granted(r)
  BY <1>1 DEF Granted
<1>4. d # None
  <2>1. now \in Nat
    BY ResolveAssumption DEF RL!TypeOK, ResolveAssumption
  <2> QED
    BY <2>1, ResolveAssumption DEF ResolveAssumption
<1>5. /\ decision'[r] # None /\ decision'[r].code = "rule-allow" /\ decision'[r].at = now
      /\ job'[r].agent = a /\ job'[r].cred = c
  BY <1>1, <1>4 DEF Decided
<1>6. key \in RatedKeys /\ admitted' = [admitted EXCEPT ![key] = Append(@, now)]
  BY DEF RatedKeys, RL!CheckAdmitted
<1>7. ASSUME NEW k
      PROVE  Counted(k)' = Counted(k) \union (IF k = key THEN {r} ELSE {})
  <2>1. \A q \in Requests \ {r} : q \in Counted(k)' <=> q \in Counted(k)
    BY <1>2 DEF Counted, Granted
  <2>2. r \notin Counted(k)
    BY <1>3 DEF Counted
  <2>3. r \in Counted(k)' <=> k = key
    BY <1>5 DEF Counted, Granted
  <2> QED
    BY <2>1, <2>2, <2>3 DEF Counted
<1>8. r \notin Counted(key)
  BY <1>3 DEF Counted
<1>9. Counted(key)' = Counted(key) \union {r} /\ \A k : k # key => Counted(k)' = Counted(k)
  BY <1>7
<1> QED
  BY <1>2, <1>5, <1>6, <1>8, <1>9 DEF SlotUsed

\* What policy.evaluate decides uses one slot, or none.
LEMMA DecideSlots ==
    ASSUME IInv, RL!TypeOK,
           NEW r \in Requests, pc[r] \in {"idle", "fetching"},
           NEW a, NEW c, NEW identity, Decide(r, a, c, identity)
    PROVE  NoSlotUsed \/ \E key : SlotUsed(r, key)
<1> DEFINE v == Verdict(a, c, identity)
           w == [v EXCEPT !.code = "rule-rate-limit-exceeded"]
<1>1. job' = [job EXCEPT ![r] = [agent |-> a, cred |-> c]]
  BY DEF Decide
<1>2. v.rule \in Nat
  BY VerdictType, RulesAssumption DEF RulesAssumption
<1>3. w.code = "rule-rate-limit-exceeded"
  BY DEF Verdict
<1>4. \/ v.code # "rule-allow" /\ Decided(r, v) /\ UNCHANGED admitted
      \/ Decided(r, w) /\ UNCHANGED admitted
      \/ v.code = "rule-allow" /\ Decided(r, v) /\ <<a, c>> \notin Rated /\ UNCHANGED admitted
      \/ /\ v.code = "rule-allow" /\ Decided(r, v)
         /\ <<a, c>> \in Rated /\ RL!CheckAdmitted(KeyOf[<<a, c>>])
  BY DEF Decide, RL!CheckRefused, limiterVars
<1> HIDE DEF v, w
<1> QED
  BY <1>1, <1>2, <1>3, <1>4, UncountedSlots, CountedSlots

\* Every step uses one slot, or none.
LEMMA StepSlots ==
    ASSUME IInv, RL!TypeOK, [Next]_vars
    PROVE  NoSlotUsed \/ \E r \in Requests : \E key : SlotUsed(r, key)
<1> DEFINE Goal == NoSlotUsed \/ \E r \in Requests : \E key : SlotUsed(r, key)
<1>1. CASE UNCHANGED <<admitted, decision, job>>
  BY <1>1, SameSlots DEF Granted
<1>2. ASSUME NEW r \in Requests, UnnamedStep(r)
      PROVE  Goal
  BY <1>1, <1>2 DEF UnnamedStep, Unauthorized, NoResolver, Malformed, ScannerUnavailable, limiterVars
<1>3. ASSUME NEW r \in Requests, NEW a \in Agents, NEW c \in Creds,
             ResolveWithoutFetch(r, a, c)
      PROVE  Goal
  BY <1>3, DecideSlots DEF ResolveWithoutFetch
<1>4. ASSUME NEW r \in Requests, NEW a \in Agents, NEW c \in Creds, StartFetch(r, a, c)
      PROVE  Goal
  <2>1. decision[r] = None /\ job \in [Requests -> Job \union {None}]
    BY <1>4 DEF StartFetch, IInv, RequestsInv, RequestOK
  <2>2. \A q \in Requests : Granted(q) => job'[q] = job[q]
    BY <1>4, <2>1 DEF StartFetch, Granted
  <2> QED
    BY <1>4, <2>2, SameSlots DEF StartFetch, Granted, limiterVars
<1>5. ASSUME NEW r \in Requests, AimReplies(r) \/ AimFails(r)
      PROVE  Goal
  BY <1>5, DecideSlots DEF AimReplies, AimFails
<1>6. ASSUME NEW r \in Requests,
             \/ AimAnswers(r) \/ AimAborts(r)
             \/ CredentialFound(r) \/ CredentialMissing(r) \/ BackendFails(r)
      PROVE  Goal
  BY <1>1, <1>6 DEF AimAnswers, AimAborts, CredentialFound, CredentialMissing,
                    Resolved, BackendFails, limiterVars
<1>7. ASSUME NEW a \in Agents, AimChanges(a)
      PROVE  Goal
  BY <1>1, <1>7 DEF AimChanges, limiterVars, requestVars
<1>8. CASE Tick
  BY <1>1, <1>8 DEF Tick, RL!Tick, requestVars
<1>9. CASE UNCHANGED vars
  BY <1>1, <1>9 DEF vars, limiterVars, requestVars
<1> QED
  BY <1>2, <1>3, <1>4, <1>5, <1>6, <1>7, <1>8, <1>9 DEF Next, HandlerStep, UnnamedStep

\* One more element and one more place.
LEMMA OnePlaceMore ==
    ASSUME NEW S, NEW n \in Nat, NEW f \in Bijection(S, 1..n), NEW x, x \notin S
    PROVE  [y \in S \union {x} |-> IF y = x THEN n + 1 ELSE f[y]]
              \in Bijection(S \union {x}, 1..(n + 1))
<1> DEFINE g == [y \in S \union {x} |-> IF y = x THEN n + 1 ELSE f[y]]
<1>1. /\ f \in [S -> 1..n]
      /\ \A y, z \in S : f[y] = f[z] => y = z
      /\ \A i \in 1..n : \E y \in S : f[y] = i
  BY DEF Bijection, Injection, Surjection, IsInjective
<1>2. g \in [S \union {x} -> 1..(n + 1)]
  BY <1>1
<1>3. \A y, z \in S \union {x} : g[y] = g[z] => y = z
  BY <1>1
<1>4. \A i \in 1..(n + 1) : \E y \in S \union {x} : g[y] = i
  <2> SUFFICES ASSUME NEW i \in 1..(n + 1) PROVE \E y \in S \union {x} : g[y] = i
    OBVIOUS
  <2>1. CASE i = n + 1
    BY <2>1
  <2>2. CASE i # n + 1
    <3>1. i \in 1..n
      BY <2>2
    <3>2. PICK y \in S : f[y] = i
      BY <1>1, <3>1
    <3> QED
      BY <3>2
  <2> QED
    BY <2>1, <2>2
<1> HIDE DEF g
<1> QED
  BY <1>2, <1>3, <1>4 DEF Bijection, Injection, Surjection, IsInjective

\* The step that uses a slot gives it to the request it lets through.
LEMMA SlotStep ==
    ASSUME IInv, RL!TypeOK, SlotOfEach, NEW r \in Requests, NEW key, SlotUsed(r, key)
    PROVE  SlotOfEach'
<1> USE DEF SlotUsed
<1>1. admitted \in [RatedKeys -> Seq(Nat)] /\ now \in Nat
  BY ResolveAssumption DEF RL!TypeOK, ResolveAssumption
<1>2. ASSUME NEW k \in RatedKeys, k # key
      PROVE  Places(k)' # {}
  <2>1. PICK f : f \in Places(k)
    BY DEF SlotOfEach
  <2>2. admitted'[k] = admitted[k] /\ Counted(k)' = Counted(k)
    BY <1>1, <1>2
  <2>3. \A q \in Counted(k) : decision'[q] = decision[q]
    <3>1. \A q \in Counted(k)' : q = r => key = k
      BY <2>2, <1>2 DEF Counted
    <3> QED
      BY <3>1, <1>2, <2>2 DEF Counted
  <2>4. f \in Places(k)'
    BY <2>1, <2>2, <2>3 DEF Places
  <2> QED
    BY <2>4
<1>3. Places(key)' # {}
  <2> DEFINE a == admitted[key]
             S == Counted(key)
  <2>1. PICK f : f \in Places(key)
    BY DEF SlotOfEach
  <2> DEFINE g == [q \in S \union {r} |-> IF q = r THEN Len(a) + 1 ELSE f[q]]
  <2>2. /\ a \in Seq(Nat) /\ Len(a) \in Nat
        /\ admitted'[key] = Append(a, now)
        /\ Len(admitted'[key]) = Len(a) + 1
        /\ admitted'[key][Len(a) + 1] = now
        /\ \A i \in 1..Len(a) : admitted'[key][i] = a[i]
    BY <1>1, AppendProperties, LenProperties
  <2>3. f \in Bijection(S, 1..Len(a)) /\ \A q \in S : f[q] \in 1..Len(a) /\ decision[q].at = a[f[q]]
    BY <2>1 DEF Places, Bijection, Injection
  <2>4. g \in Bijection(S \union {r}, 1..(Len(a) + 1))
    BY <2>2, <2>3, OnePlaceMore
  <2>5. \A q \in S : q \in Requests /\ q # r
    BY DEF Counted
  <2>6. \A q \in S \union {r} : decision'[q].at = admitted'[key][g[q]]
    BY <2>2, <2>3, <2>5
  <2>7. g \in Places(key)'
    <3> HIDE DEF g
    <3> QED
      BY <2>2, <2>4, <2>6 DEF Places
  <2> QED
    BY <2>7
<1> QED
  BY <1>2, <1>3 DEF SlotOfEach

\* Every request let through under a key has a slot of its own, and every slot its request.
LEMMA SlotsInvariance == Spec => []SlotOfEach
<1>1. Init => SlotOfEach
  <2> SUFFICES ASSUME Init, NEW k \in RatedKeys
               PROVE  Places(k) # {}
    BY DEF SlotOfEach
  <2>1. Counted(k) = {}
    BY DEF Init, Counted, Granted
  <2>2. admitted[k] = << >> /\ 1..Len(admitted[k]) = {}
    BY DEF Init, RL!Init
  <2> DEFINE f == [q \in {} |-> 0]
  <2>3. f \in Bijection({}, {})
    BY DEF Bijection, Injection, Surjection, IsInjective
  <2> QED
    BY <2>1, <2>2, <2>3 DEF Places
<1>2. IInv /\ RL!TypeOK /\ SlotOfEach /\ [Next]_vars => SlotOfEach'
  <2> SUFFICES ASSUME IInv, RL!TypeOK, SlotOfEach, [Next]_vars
               PROVE  SlotOfEach'
    OBVIOUS
  <2>1. CASE NoSlotUsed
    <3>1. ASSUME NEW k \in RatedKeys
          PROVE  Places(k)' = Places(k)
      <4>1. \A q \in Counted(k) : decision'[q] = decision[q]
        BY <2>1 DEF NoSlotUsed, Counted
      <4> QED
        BY <2>1, <4>1 DEF NoSlotUsed, Places
    <3> QED
      BY <3>1 DEF SlotOfEach
  <2> QED
    BY <2>1, StepSlots, SlotStep
<1>3. RL!TypeOK /\ RL!SlidingWindow => RL!TypeOK
  OBVIOUS
<1> QED
  BY <1>1, <1>2, <1>3, Invariance, QuotaKept, PTL DEF Spec

(***************************************************************************)
(* The slots used up under a key are the requests let through under it,    *)
(* one each: a request refused for a deny rule or another constraint, or   *)
(* whose turn at an await comes late, uses none ("denied requests from     *)
(* other constraints do not consume rate limit slots", policy.ts).         *)
(***************************************************************************)
THEOREM SlotsCounted == Spec => []SlotsMatchDecisions
<1>1. RL!TypeOK /\ RL!SlidingWindow /\ SlotOfEach => SlotsMatchDecisions
  <2> SUFFICES ASSUME RL!TypeOK, SlotOfEach, NEW k \in RatedKeys
               PROVE  Len(admitted[k]) = Cardinality(Counted(k))
    BY DEF SlotsMatchDecisions
  <2>1. PICK f : f \in Bijection(Counted(k), 1..Len(admitted[k]))
    BY DEF SlotOfEach, Places
  <2>2. IsFiniteSet(Counted(k))
    <3>1. Counted(k) \in SUBSET Requests
      BY DEF Counted
    <3> QED
      BY <3>1, FS_Subset, ResolveAssumption DEF ResolveAssumption
  <2>3. Len(admitted[k]) \in Nat
    BY LenProperties DEF RL!TypeOK
  <2>4. Cardinality(1..Len(admitted[k])) = Len(admitted[k])
    BY <2>3, FS_Interval
  <2> QED
    BY <2>1, <2>2, <2>4, FS_Bijection DEF ExistsBijection
<1> QED
  BY <1>1, SlotsInvariance, QuotaKept, PTL

(***************************************************************************)
(* Of times in order, of which any two n places apart are a window apart,  *)
(* no window has more than n.                                              *)
(***************************************************************************)
LEMMA FewInWindow ==
    ASSUME NEW a \in Seq(Nat), NEW n \in Nat \ {0}, NEW t \in Int,
           InOrder(a), Apart(a, n)
    PROVE  LET I == {i \in 1..Len(a) : a[i] > t - WindowMs /\ a[i] <= t}
           IN  IsFiniteSet(I) /\ Cardinality(I) <= n
<1> DEFINE I == {i \in 1..Len(a) : a[i] > t - WindowMs /\ a[i] <= t}
<1>1. WindowMs \in Nat
  BY ResolveAssumption DEF ResolveAssumption
<1>2. Len(a) \in Nat /\ \A i \in 1..Len(a) : a[i] \in Nat
  BY LenProperties, ElementOfSeq
<1>3. CASE I = {}
  <2>1. IsFiniteSet(I) /\ Cardinality(I) = 0
    BY <1>3, FS_EmptySet
  <2> QED
    BY <2>1
<1>4. CASE I # {}
  <2>1. PICK m \in Nat :
           /\ m \in 1..Len(a)
           /\ a[m] > t - WindowMs
           /\ \A i \in 1..Len(a) : a[i] > t - WindowMs /\ a[i] <= t => m <= i
    <3>1. I \in SUBSET Nat
      OBVIOUS
    <3>2. PICK x \in I : \A i \in I : x <= i
      BY <1>4, <3>1, LeastOf
    <3> QED
      BY <3>2
  <2>2. ASSUME NEW i \in Nat, i \in 1..Len(a), a[i] > t - WindowMs, a[i] <= t
        PROVE  i \in m..(m + n - 1)
    <3>1. m <= i
      BY <2>1, <2>2
    <3>2. CASE i >= m + n
      <4>1. m \in 1..(Len(a) - n) /\ m + n \in 1..Len(a) /\ m + n <= i
        BY <1>2, <2>1, <2>2, <3>2
      <4>2. a[m + n] >= a[m] + WindowMs /\ a[m + n] <= a[i]
        BY <2>2, <4>1 DEF InOrder, Apart
      <4>3. a[m] \in Nat /\ a[m + n] \in Nat /\ a[i] \in Nat
        BY <1>2, <2>1, <2>2, <4>1
      <4>4. a[m] > t - WindowMs /\ a[i] <= t
        BY <2>1, <2>2
      <4>5. FALSE
        <5>1. PICK x \in Nat, y \in Nat, z \in Nat :
                 y >= x + WindowMs /\ y <= z /\ x > t - WindowMs /\ z <= t
          BY <4>2, <4>3, <4>4
        <5> QED
          BY <1>1, <5>1
      <4> QED
        BY <4>5
    <3> QED
      BY <3>1, <3>2
  <2>3. I \in SUBSET (m..(m + n - 1))
    BY <2>2
  <2>4. IsFiniteSet(m..(m + n - 1)) /\ Cardinality(m..(m + n - 1)) = n
    BY FS_Interval
  <2> QED
    BY <2>3, <2>4, FS_Subset
<1> QED
  BY <1>3, <1>4

\* A key has the limit of each pair that counts under it.
LEMMA LimitOfPair ==
    ASSUME NEW p \in Rated
    PROVE  /\ KeyOf[p] \in RatedKeys
           /\ RatedLimit[KeyOf[p]] = MaxPerMinute(p)
           /\ MaxPerMinute(p) \in Nat \ {0}
<1>1. KeyOf[p] \in RatedKeys
  BY DEF RatedKeys
<1>2. PICK q \in Rated : q = CHOOSE o \in Rated : KeyOf[o] = KeyOf[p]
  OBVIOUS
<1>3. KeyOf[q] = KeyOf[p]
  BY <1>2
<1>4. RatedLimit[KeyOf[p]] = MaxPerMinute(q)
  BY <1>1, <1>2 DEF RatedLimit
<1> QED
  BY <1>1, <1>3, <1>4, RatedLimitType, RulesAssumption DEF RulesAssumption

(***************************************************************************)
(* "rateLimit.maxPerMinute: per agent + credential pair": no window lets   *)
(* more requests of a pair through to the resolver than its rule says,     *)
(* however requests overlap at the awaits of handleResolve and whatever    *)
(* pairs share a key (checkConstraints of policy.ts).                      *)
(***************************************************************************)
THEOREM QuotaHolds == Spec => []QuotaPerPair
<1>1. IInv /\ RL!TypeOK /\ LimiterFacts /\ SlotOfEach => QuotaPerPair
  <2> SUFFICES ASSUME IInv, RL!TypeOK, LimiterFacts, SlotOfEach,
                      NEW p \in Rated, NEW t \in 0..MaxTime
               PROVE  Cardinality({r \in GrantedSince(p, t - WindowMs) : decision[r].at <= t})
                          <= MaxPerMinute(p)
    BY DEF QuotaPerPair
  <2> DEFINE k == KeyOf[p]
             a == admitted[k]
             S == {r \in GrantedSince(p, t - WindowMs) : decision[r].at <= t}
             I == {i \in 1..Len(a) : a[i] > t - WindowMs /\ a[i] <= t}
  <2>1. k \in RatedKeys /\ RatedLimit[k] = MaxPerMinute(p) /\ MaxPerMinute(p) \in Nat \ {0}
    BY LimitOfPair
  <2>2. a \in Seq(Nat) /\ t \in Int
    BY <2>1, ResolveAssumption DEF RL!TypeOK, ResolveAssumption
  <2>3. IsFiniteSet(I) /\ Cardinality(I) <= MaxPerMinute(p)
    <3>1. InOrder(a) /\ Apart(a, MaxPerMinute(p))
      BY <2>1 DEF LimiterFacts
    <3> HIDE DEF a
    <3> QED
      BY <2>1, <2>2, <3>1, FewInWindow
  <2>4. PICK f : /\ f \in Bijection(Counted(k), 1..Len(a))
                 /\ \A r \in Counted(k) : decision[r].at = a[f[r]]
    BY <2>1 DEF SlotOfEach, Places
  <2>5. S \subseteq Counted(k)
    BY DEF GrantedSince, Counted
  <2>6. [r \in S |-> f[r]] \in Injection(S, I)
    <3>1. \A r \in S : f[r] \in I
      BY <2>4, <2>5 DEF Bijection, Injection, GrantedSince
    <3>2. \A q, r \in S : f[q] = f[r] => q = r
      BY <2>4, <2>5 DEF Bijection, Injection, IsInjective
    <3> HIDE DEF S, I
    <3> QED
      BY <3>1, <3>2 DEF Injection, IsInjective
  <2>7. Cardinality(S) <= Cardinality(I) /\ IsFiniteSet(S)
    BY <2>3, <2>6, FS_Injection
  <2>8. Cardinality(S) \in Nat /\ Cardinality(I) \in Nat
    BY <2>3, <2>7, FS_CardinalityType
  <2> QED
    BY <2>1, <2>3, <2>7, <2>8
<1> QED
  BY <1>1, Invariance, LimiterInside, SlotsInvariance, PTL

-----------------------------------------------------------------------------
(* What a decision was taken on.                                           *)

\* evaluate touches the decision of its own request, and not the clock.
LEMMA DecideTouches ==
    ASSUME IInv, NEW r \in Requests, NEW a, NEW c, NEW identity, Decide(r, a, c, identity)
    PROVE  /\ \A q \in Requests : q # r => decision'[q] = decision[q]
           /\ job' = [job EXCEPT ![r] = [agent |-> a, cred |-> c]]
           /\ now' = now
<1>1. decision \in [Requests -> Decision \union {None}]
  BY DEF IInv, RequestsInv
<1>2. now' = now
  BY DEF Decide, limiterVars, RL!CheckRefused, RL!CheckAdmitted
<1>3. \A q \in Requests : q # r => decision'[q] = decision[q]
  BY <1>1 DEF Decide, Decided
<1> QED
  BY <1>2, <1>3 DEF Decide

\* Where the identity evaluate is called with came from.
Source(r, a, identity) ==
    \/ identity = None
    \/ Fresh(a) /\ identity = cache[a].identity /\ UNCHANGED told
    \/ identity = aim[a]
    \/ told' = [told EXCEPT ![a] = now]

\* A request gets its decision from evaluate, and from no other step.
LEMMA DecidedByEvaluate ==
    ASSUME IInv, [Next]_vars, NEW r \in Requests, decision[r] = None, decision'[r] # None
    PROVE  \E a \in Agents, c \in Creds : \E identity :
              Decide(r, a, c, identity) /\ Source(r, a, identity)
<1>1. ~UNCHANGED decision
  OBVIOUS
<1>2. ASSUME NEW q \in Requests, NEW a \in Agents, NEW c \in Creds,
             ResolveWithoutFetch(q, a, c)
      PROVE  \E identity : Decide(q, a, c, identity) /\ Source(q, a, identity)
  BY <1>2 DEF ResolveWithoutFetch, Source
<1>3. ASSUME NEW q \in Requests, AimReplies(q) \/ AimFails(q)
      PROVE  \E a \in Agents, c \in Creds : \E identity :
                Decide(q, a, c, identity) /\ Source(q, a, identity)
  <2>1. job[q].agent \in Agents /\ job[q].cred \in Creds
    BY <1>3 DEF AimReplies, AimFails, IInv, RequestsInv, RequestOK, Job
  <2> QED
    BY <1>3, <2>1 DEF AimReplies, AimFails, Source
<1>4. \E q \in Requests, a \in Agents, c \in Creds : \E identity :
         Decide(q, a, c, identity) /\ Source(q, a, identity)
  <2>1. ASSUME NEW q \in Requests,
               \/ UnnamedStep(q)
               \/ AimAnswers(q) \/ AimAborts(q)
               \/ CredentialFound(q) \/ CredentialMissing(q) \/ BackendFails(q)
        PROVE  FALSE
    BY <1>1, <2>1 DEF UnnamedStep, Unauthorized, NoResolver, Malformed, ScannerUnavailable, AimAnswers, AimAborts,
                      CredentialFound, CredentialMissing, Resolved, BackendFails
  <2>2. ASSUME NEW q \in Requests, NEW a, NEW c, StartFetch(q, a, c)
        PROVE  FALSE
    BY <1>1, <2>2 DEF StartFetch
  <2>3. ~Tick /\ ~UNCHANGED vars /\ \A a \in Agents : ~AimChanges(a)
    BY <1>1 DEF Tick, AimChanges, vars, requestVars
  <2> QED
    BY <1>2, <1>3, <2>1, <2>2, <2>3 DEF Next, HandlerStep, UnnamedStep
<1>5. PICK q \in Requests, a \in Agents, c \in Creds :
         \E identity : Decide(q, a, c, identity) /\ Source(q, a, identity)
  BY <1>4
<1>6. q = r
  BY <1>5, DecideTouches
<1> QED
  BY <1>5, <1>6

(***************************************************************************)
(* A pair with a key of its own is refused for its rate only when requests *)
(* of that very pair have used its limit up within the window: what other  *)
(* pairs did, and what was refused, takes nothing from it.                 *)
(***************************************************************************)
OwnKeys == \A p, q \in Rated : KeyOf[p] = KeyOf[q] => p = q

THEOREM RefusalsAreOwn == ASSUME OwnKeys PROVE Spec => RefusedForOwnUse
<1>1. IInv /\ RL!TypeOK /\ LimiterFacts /\ SlotOfEach /\ [Next]_vars =>
         \A r \in Requests :
            /\ decision[r] = None
            /\ decision'[r] # None
            /\ decision'[r].code = "rule-rate-limit-exceeded"
            => LET p == <<job'[r].agent, job'[r].cred>>
               IN  Cardinality(GrantedSince(p, now - WindowMs)) >= MaxPerMinute(p)
  <2> SUFFICES ASSUME IInv, RL!TypeOK, LimiterFacts, SlotOfEach, [Next]_vars,
                      NEW r \in Requests, decision[r] = None, decision'[r] # None,
                      decision'[r].code = "rule-rate-limit-exceeded"
               PROVE  LET p == <<job'[r].agent, job'[r].cred>>
                      IN  Cardinality(GrantedSince(p, now - WindowMs)) >= MaxPerMinute(p)
    OBVIOUS
  <2>1. PICK a \in Agents, c \in Creds : \E identity : Decide(r, a, c, identity)
    BY DecidedByEvaluate
  <2>2. PICK identity : Decide(r, a, c, identity)
    BY <2>1
  <2> DEFINE p == <<a, c>>
             k == KeyOf[p]
             adm == admitted[k]
             n == MaxPerMinute(p)
             S == GrantedSince(p, now - WindowMs)
             I == (Len(adm) - n + 1)..Len(adm)
  <2>3. job'[r].agent = a /\ job'[r].cred = c
    BY <2>2, DecideTouches DEF IInv, RequestsInv
  <2>4. p \in Rated /\ ~RL!Admits(k)
    <3> DEFINE v == Verdict(a, c, identity)
    <3>1. decision \in [Requests -> Decision \union {None}]
      BY DEF IInv, RequestsInv
    <3>2. ~Decided(r, v)
      <4>1. v.code # "rule-rate-limit-exceeded"
        BY DEF Verdict
      <4> HIDE DEF v
      <4> QED
        BY <3>1, <4>1 DEF Decided
    <3> HIDE DEF v
    <3> QED
      BY <2>2, <3>2 DEF Decide, RL!CheckRefused, v
  <2>5. k \in RatedKeys /\ RatedLimit[k] = n /\ n \in Nat \ {0}
    BY <2>4, LimitOfPair
  <2>6. adm \in Seq(Nat) /\ Len(adm) \in Nat /\ now \in Nat /\ WindowMs \in Nat
    BY <2>5, LenProperties, ResolveAssumption DEF RL!TypeOK, ResolveAssumption
  <2>7. Len(adm) >= n /\ adm[Len(adm) - n + 1] > now - WindowMs /\ InOrder(adm)
    BY <2>4, <2>5 DEF LimiterFacts
  <2>8. Len(adm) - n + 1 \in 1..Len(adm) /\ \A i \in I : i \in 1..Len(adm)
    <3> HIDE DEF adm, n
    <3> QED
      BY <2>5, <2>6, <2>7
  <2>9. ASSUME NEW i \in I
         PROVE  adm[i] > now - WindowMs
    <3>1. ASSUME NEW x \in Nat, NEW y \in Nat, x > now - WindowMs, x <= y
          PROVE  y > now - WindowMs
      BY <2>6, <3>1
    <3>2. adm[Len(adm) - n + 1] <= adm[i]
      BY <2>7, <2>8 DEF InOrder
    <3>3. \A j \in 1..Len(adm) : adm[j] \in Nat
      BY <2>6, ElementOfSeq
    <3>4. adm[Len(adm) - n + 1] \in Nat /\ adm[i] \in Nat
      BY <2>8, <3>3
    <3> HIDE DEF adm, n, I
    <3> QED
      BY <2>7, <3>1, <3>2, <3>4
  <2>10. Cardinality(I) = n
    <3> HIDE DEF adm, n
    <3>1. /\ Len(adm) - n + 1 \in Int /\ Len(adm) \in Int
          /\ ~(Len(adm) - n + 1 > Len(adm))
          /\ Len(adm) - (Len(adm) - n + 1) + 1 = n
      BY <2>5, <2>6
    <3> QED
      BY <3>1, FS_Interval
  <2>11. PICK f : /\ f \in Bijection(Counted(k), 1..Len(adm))
                 /\ \A q \in Counted(k) : decision[q].at = adm[f[q]]
    BY <2>5 DEF SlotOfEach, Places
  <2>12. \A i \in I : \E q \in S : f[q] = i
    <3> SUFFICES ASSUME NEW i \in I PROVE \E q \in S : f[q] = i
      OBVIOUS
    <3>1. PICK q \in Counted(k) : f[q] = i
      BY <2>8, <2>11 DEF Bijection, Surjection
    <3>2. decision[q].at > now - WindowMs
      BY <2>9, <2>11, <3>1
    <3>3. <<job[q].agent, job[q].cred>> = p
      BY <2>4 DEF OwnKeys, Counted
    <3> QED
      BY <3>1, <3>2, <3>3 DEF GrantedSince, Counted
  <2>13. IsFiniteSet(S) /\ Cardinality(S) \in Nat
    <3>1. S \in SUBSET Requests
      BY DEF GrantedSince
    <3> QED
      BY <3>1, FS_Subset, FS_CardinalityType, ResolveAssumption DEF ResolveAssumption
  <2>14. Cardinality(S) >= n
    <3> DEFINE T == {q \in S : f[q] \in I}
               g == [q \in T |-> f[q]]
    <3>1. g \in Surjection(T, I)
      BY <2>12 DEF Surjection
    <3>2. IsFiniteSet(T) /\ Cardinality(T) <= Cardinality(S)
      BY <2>13, FS_Subset
    <3>3. Cardinality(I) <= Cardinality(T)
      BY <3>1, <3>2, FS_Surjection
    <3>4. Cardinality(T) \in Nat
      BY <3>2, FS_CardinalityType
    <3> HIDE DEF T, I, S, n
    <3> QED
      BY <2>5, <2>10, <2>13, <3>2, <3>3, <3>4
  <2> QED
    BY <2>3, <2>14
<1> QED
  BY <1>1, Invariance, LimiterInside, SlotsInvariance, PTL DEF Spec, RefusedForOwnUse

-----------------------------------------------------------------------------
(* How old what the broker knows of an agent can be.                       *)

\* An entry for a that lasts until t: AIM holds it still, or it was cached before AIM
\* changed, or it came with an answer that AIM no longer gave.
Known(a, identity, t) ==
    \/ identity = aim[a]
    \/ t <= since[a] + Ttl
    \/ t <= told[a] + Ttl

(***************************************************************************)
(* No entry of the cache lasts longer than cacheTtlMs from now, and one    *)
(* that AIM has turned from lasts no longer than cacheTtlMs from the       *)
(* change, or from the arrival of the last answer from before it.          *)
(***************************************************************************)
AgeBounded ==
    \A a \in DOMAIN cache :
        /\ cache[a].expiresAt <= now + Ttl
        /\ Known(a, cache[a].identity, cache[a].expiresAt)

\* A step that learns nothing, while the clock and AIM stand still.
LEMMA NothingLearnt ==
    ASSUME AgeBounded, now' = now, UNCHANGED <<aimVars, told>>,
           DOMAIN cache' \subseteq DOMAIN cache,
           \A a \in DOMAIN cache' : cache'[a] = cache[a]
    PROVE  AgeBounded'
<1>1. aim' = aim /\ since' = since
  BY DEF aimVars
<1> QED
  BY <1>1 DEF AgeBounded, Known

\* The answer that reaches the broker, and fills the cache.
LEMMA AnswerCached ==
    ASSUME IInv, RL!TypeOK, AgeBounded, NEW r \in Requests, AimReplies(r)
    PROVE  AgeBounded'
<1> DEFINE a == job[r].agent
           e == [identity |-> answer[r].identity, expiresAt |-> now + Ttl]
<1>1. /\ job[r] \in Job /\ answer[r] \in AimAnswer /\ a \in Agents
      /\ now \in Nat /\ Ttl \in Nat
      /\ told \in [Agents -> 0..MaxTime] /\ MaxTime \in Nat
      /\ DOMAIN cache \subseteq Agents
      /\ \A b \in DOMAIN cache : cache[b].expiresAt \in Nat
  BY ResolveAssumption DEF AimReplies, IInv, RequestsInv, RequestOK, Job, WorldInv, Entry,
                           RL!TypeOK, ResolveAssumption
<1>2. now' = now /\ aim' = aim /\ since' = since
  BY DecideTouches DEF AimReplies, aimVars
<1>3. /\ answer[r].identity # aim[a] => told'[a] = now
      /\ \A b \in Agents : told'[b] = told[b] \/ told'[b] = now
  BY <1>1 DEF AimReplies
<1>4. ASSUME NEW b \in DOMAIN cache
      PROVE  Known(b, cache[b].identity, cache[b].expiresAt)'
                 \/ cache'[b] # cache[b]
  <2>1. /\ cache[b].expiresAt <= now + Ttl
        /\ \/ cache[b].identity = aim[b]
           \/ cache[b].expiresAt <= since[b] + Ttl
           \/ cache[b].expiresAt <= told[b] + Ttl
    BY DEF AgeBounded, Known
  <2> QED
    BY <1>1, <1>2, <1>3, <2>1 DEF Known
<1>5. e.identity = answer[r].identity /\ e.expiresAt = now + Ttl
  OBVIOUS
<1> HIDE DEF e
<1>6. ASSUME NEW b \in DOMAIN cache'
      PROVE  \/ b \in DOMAIN cache /\ cache'[b] = cache[b]
             \/ b = a /\ cache'[b] = e
  BY DEF AimReplies, e
<1>7. ASSUME NEW b \in DOMAIN cache'
      PROVE  cache'[b].expiresAt <= now' + Ttl /\ Known(b, cache[b].identity, cache[b].expiresAt)'
  <2>1. CASE b \in DOMAIN cache /\ cache'[b] = cache[b]
    BY <1>2, <1>4, <2>1 DEF AgeBounded
  <2>2. CASE b = a /\ cache'[b] = e
    BY <1>1, <1>2, <1>3, <1>5, <2>2 DEF Known
  <2> QED
    BY <1>6, <1>7, <2>1, <2>2
<1> QED
  BY <1>7 DEF AgeBounded

\* Every step keeps the bound: what AIM turns from was cached before it did.
LEMMA AgeStep == IInv /\ RL!TypeOK /\ AgeBounded /\ [Next]_vars => AgeBounded'
<1> SUFFICES ASSUME IInv, RL!TypeOK, AgeBounded, [Next]_vars
             PROVE  AgeBounded'
  OBVIOUS
<1>1. /\ now \in Nat /\ Ttl \in Nat
      /\ since \in [Agents -> 0..MaxTime]
      /\ DOMAIN cache \subseteq Agents
      /\ \A a \in DOMAIN cache : cache[a].expiresAt \in Nat
  BY ResolveAssumption DEF RL!TypeOK, ResolveAssumption, IInv, WorldInv, Entry
<1>2. CASE UNCHANGED <<now, aimVars, told, cache>>
  BY <1>2, NothingLearnt
<1>3. ASSUME NEW r \in Requests, UnnamedStep(r)
      PROVE  AgeBounded'
  BY <1>2, <1>3 DEF UnnamedStep, Unauthorized, NoResolver, Malformed, ScannerUnavailable,
                    limiterVars
<1>4. ASSUME NEW r \in Requests, NEW a \in Agents, NEW c \in Creds,
             ResolveWithoutFetch(r, a, c)
      PROVE  AgeBounded'
  <2>1. PICK identity : Decide(r, a, c, identity)
    BY <1>4 DEF ResolveWithoutFetch
  <2>2. now' = now
    BY <2>1, DecideTouches
  <2> QED
    BY <1>4, <2>2, NothingLearnt DEF ResolveWithoutFetch
<1>5. ASSUME NEW r \in Requests, NEW a \in Agents, NEW c \in Creds, StartFetch(r, a, c)
      PROVE  AgeBounded'
  BY <1>5, NothingLearnt DEF StartFetch, limiterVars
<1>6. ASSUME NEW r \in Requests, AimAnswers(r) \/ AimAborts(r)
      PROVE  AgeBounded'
  BY <1>2, <1>6 DEF AimAnswers, AimAborts, limiterVars
<1>7. ASSUME NEW r \in Requests, AimFails(r)
      PROVE  AgeBounded'
  BY <1>7, DecideTouches, NothingLearnt DEF AimFails
<1>8. ASSUME NEW r \in Requests, CredentialFound(r) \/ CredentialMissing(r) \/ BackendFails(r)
      PROVE  AgeBounded'
  BY <1>2, <1>8 DEF CredentialFound, CredentialMissing, Resolved, BackendFails, limiterVars
<1>9. ASSUME NEW a \in Agents, AimChanges(a)
      PROVE  AgeBounded'
  <2>1. since' = [since EXCEPT ![a] = now] /\ \A b \in Agents : b # a => aim'[b] = aim[b]
    BY <1>9 DEF AimChanges, IInv, WorldInv
  <2>2. now' = now /\ cache' = cache /\ told' = told
    BY <1>9 DEF AimChanges, limiterVars
  <2>3. ASSUME NEW b \in DOMAIN cache
        PROVE  Known(b, cache[b].identity, cache[b].expiresAt)'
    BY <1>1, <2>1, <2>2 DEF AgeBounded, Known
  <2> QED
    BY <2>2, <2>3 DEF AgeBounded
<1>10. CASE Tick
  <2>1. now' = now + 1
    BY <1>10 DEF Tick, RL!Tick
  <2>2. aim' = aim /\ since' = since /\ told' = told /\ cache' = cache
    BY <1>10 DEF Tick, aimVars
  <2> QED
    BY <1>1, <2>1, <2>2 DEF AgeBounded, Known
<1>11. CASE UNCHANGED vars
  BY <1>2, <1>11 DEF vars, limiterVars
<1> QED
  BY <1>3, <1>4, <1>5, <1>6, <1>7, <1>8, <1>9, <1>10, <1>11, AnswerCached
     DEF Next, HandlerStep, UnnamedStep

\* The bound holds of every state.
LEMMA AgeInvariance == Spec => []AgeBounded
<1>1. Init => AgeBounded
  BY DEF Init, AgeBounded
<1>2. RL!TypeOK /\ RL!SlidingWindow => RL!TypeOK
  OBVIOUS
<1> QED
  BY <1>1, <1>2, AgeStep, Invariance, QuotaKept, PTL DEF Spec

(***************************************************************************)
(* A trust score that AIM lowers, a capability it takes away, or an agent  *)
(* it forgets, stops opening anything cacheTtlMs after the change, or      *)
(* after the last answer composed before it has arrived, however the       *)
(* fetches of the agent overlap and whichever of them fills the cache last *)
(* (getAgentIdentity of aim-client.ts and handleResolve).                  *)
(***************************************************************************)
THEOREM RevocationIsBounded == Spec => RevocationTakesEffect
<1>1. IInv /\ RL!TypeOK /\ AgeBounded /\ [Next]_vars =>
         \A r \in Requests :
            /\ decision[r] = None /\ decision'[r] # None
            /\ decision'[r].code = "rule-allow"
            /\ AimConfigured
            /\ ~Vouches(Rules[decision'[r].rule], aim[job'[r].agent])
            => LET a == job'[r].agent
               IN  now < since[a] + Ttl \/ now < told'[a] + Ttl
  <2> SUFFICES ASSUME IInv, RL!TypeOK, AgeBounded, [Next]_vars,
                      NEW r \in Requests, decision[r] = None, decision'[r] # None,
                      decision'[r].code = "rule-allow",
                      ~Vouches(Rules[decision'[r].rule], aim[job'[r].agent])
               PROVE  LET a == job'[r].agent
                      IN  now < since[a] + Ttl \/ now < told'[a] + Ttl
    OBVIOUS
  <2>1. PICK a \in Agents, c \in Creds :
           \E identity : Decide(r, a, c, identity) /\ Source(r, a, identity)
    BY DecidedByEvaluate
  <2>2. PICK identity : Decide(r, a, c, identity) /\ Source(r, a, identity)
    BY <2>1
  <2>3. job'[r].agent = a
    BY <2>2, DecideTouches DEF IInv, RequestsInv
  <2>4. Vouches(Rules[decision'[r].rule], identity)
    <3> DEFINE v == Verdict(a, c, identity)
               w == [v EXCEPT !.code = "rule-rate-limit-exceeded"]
    <3>1. decision \in [Requests -> Decision \union {None}]
      BY DEF IInv, RequestsInv
    <3>2. w.code = "rule-rate-limit-exceeded"
      BY DEF Verdict
    <3>3. v.code = "rule-allow" => Vouches(Rules[v.rule], identity)
      BY DEF Verdict, Passes
    <3>4. Decided(r, v) \/ Decided(r, w)
      BY <2>2 DEF Decide
    <3> HIDE DEF v, w
    <3> QED
      BY <3>1, <3>2, <3>3, <3>4 DEF Decided
  <2>5. identity # aim[a] /\ identity # None
    BY <2>3, <2>4 DEF Vouches
  <2>6. /\ now \in Nat /\ Ttl \in Nat \ {0}
        /\ since[a] \in Nat /\ told[a] \in Nat /\ told \in [Agents -> 0..MaxTime]
    BY ResolveAssumption DEF RL!TypeOK, ResolveAssumption, IInv, WorldInv
  <2>7. CASE Fresh(a) /\ identity = cache[a].identity /\ UNCHANGED told
    <3>1. cache[a].expiresAt \in Nat /\ now < cache[a].expiresAt
      BY <2>7, ResolveAssumption DEF Fresh, IInv, WorldInv, Entry, ResolveAssumption
    <3>2. cache[a].expiresAt <= since[a] + Ttl \/ cache[a].expiresAt <= told[a] + Ttl
      BY <2>5, <2>7 DEF Fresh, AgeBounded, Known
    <3> QED
      BY <2>3, <2>6, <2>7, <3>1, <3>2
  <2>8. CASE told' = [told EXCEPT ![a] = now]
    BY <2>3, <2>6, <2>8
  <2> QED
    BY <2>2, <2>5, <2>7, <2>8 DEF Source
<1>2. RL!TypeOK /\ RL!SlidingWindow => RL!TypeOK
  OBVIOUS
<1> QED
  BY <1>1, <1>2, AgeInvariance, Invariance, QuotaKept, PTL DEF Spec, RevocationTakesEffect
=============================================================================
