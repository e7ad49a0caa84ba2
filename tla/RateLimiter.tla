---------------------------- MODULE RateLimiter ----------------------------
(***************************************************************************)
(* The sliding-window rate limiter of the credential broker                *)
(* (src/broker/rate-limiter.ts), one instance per PolicyEngine.            *)
(*                                                                         *)
(* A key is the string agentId:credentialName that checkConstraints        *)
(* builds.  windows maps a key to the timestamps of the checks it has      *)
(* admitted, oldest first; a key that was never checked, or that cleanup   *)
(* removed, is not in its domain.  The limiter runs in one Node process    *)
(* and check() never awaits, so a check is one step.                       *)
(*                                                                         *)
(* The clock is Date.now(), taken not to run backwards: a timestamp list   *)
(* is then sorted, so dropping the expired prefix (check) and filtering    *)
(* the expired elements (cleanup) both keep the newest active ones.        *)
(***************************************************************************)
EXTENDS Integers, Sequences, FiniteSets

CONSTANTS
    Keys,              \* the agentId:credentialName strings requests arrive with
    Limit,             \* Limit[k]: rateLimit.maxPerMinute of the rule that admits k
    WindowMs,          \* windowMs
    CleanupThreshold,  \* CLEANUP_THRESHOLD
    MaxTime            \* bound on the clock

ASSUME LimiterAssumption ==
    /\ Limit \in [Keys -> Nat \ {0}]
    /\ WindowMs \in Nat \ {0}
    /\ CleanupThreshold \in Nat
    /\ MaxTime \in Nat

VARIABLES
    now,       \* Date.now()
    windows,   \* the map of the limiter
    admitted   \* history: the times check() answered true at, per key

vars == <<now, windows, admitted>>

\* The list check() works on: windows.get(key), or the new array it installs.
Window(k) == IF k \in DOMAIN windows THEN windows[k] ELSE << >>

\* Mutant of Active: the boundary is kept, as with t >= cutoff.
ActiveMutBoundary(w, t) == {i \in 1..Len(w) : w[i] >= t - WindowMs}

\* The positions of the timestamps of w that are after the cutoff at time t.
Active(w, t) == {i \in 1..Len(w) : w[i] > t - WindowMs}

\* w freed of what has expired at time t.
Kept(w, t) == SubSeq(w, Len(w) - Cardinality(Active(w, t)) + 1, Len(w))

\* The map m freed of what has expired at time t, and of the keys left empty.
Cleanup(m, t) ==
    [k \in {j \in DOMAIN m : Active(m[j], t) # {}} |-> Kept(m[k], t)]

\* windows.set(key, w)
SetWindow(k, w) ==
    [j \in DOMAIN windows \union {k} |-> IF j = k THEN w ELSE windows[j]]

\* Mutant of Admits: the limit itself is let through once more.
AdmitsMutOffByOne(k) == Len(Kept(Window(k), now)) <= Limit[k]

\* Would check(k, Limit[k]) answer true now?
Admits(k) == Len(Kept(Window(k), now)) < Limit[k]

-----------------------------------------------------------------------------

Init ==
    /\ now = 0
    /\ windows = [k \in {} |-> << >>]
    /\ admitted = [k \in Keys |-> << >>]

\* Time passes.
Tick ==
    /\ now < MaxTime
    /\ now' = now + 1
    /\ UNCHANGED <<windows, admitted>>

\* check() answers false: the window is full.  What expired is gone all the same.
CheckRefused(k) ==
    /\ ~Admits(k)
    /\ windows' = SetWindow(k, Kept(Window(k), now))
    /\ UNCHANGED <<now, admitted>>

\* check() answers true: the timestamp is pushed, and a crowded map is cleaned.
CheckAdmitted(k) ==
    LET pushed == SetWindow(k, Append(Kept(Window(k), now), now))
    IN  /\ Admits(k)
        /\ windows' = IF Cardinality(DOMAIN pushed) > CleanupThreshold
                      THEN Cleanup(pushed, now)
                      ELSE pushed
        /\ admitted' = [admitted EXCEPT ![k] = Append(@, now)]
        /\ UNCHANGED now

Next ==
    \/ Tick
    \/ \E k \in Keys : CheckAdmitted(k) \/ CheckRefused(k)

Spec == Init /\ [][Next]_vars

-----------------------------------------------------------------------------
\* Every window list is a list of clock readings, and so is the history.
TypeOK ==
    /\ now \in 0..MaxTime
    /\ DOMAIN windows \subseteq Keys
    /\ \A k \in DOMAIN windows : windows[k] \in Seq(Nat)
    /\ admitted \in [Keys -> Seq(Nat)]

(***************************************************************************)
(* "enforces a maximum number of requests within a sliding window": of     *)
(* any Limit[k] + 1 consecutive admissions of a key the last is at least   *)
(* WindowMs after the first, whatever cleanup removed in between.          *)
(***************************************************************************)
SlidingWindow ==
    \A k \in Keys : \A i \in 1..(Len(admitted[k]) - Limit[k]) :
        admitted[k][i + Limit[k]] >= admitted[k][i] + WindowMs

(***************************************************************************)
(* A request is refused only when the limit is used up: when check() would *)
(* answer false, the last Limit[k] admissions all lie after the cutoff.    *)
(***************************************************************************)
RefusalJustified ==
    \A k \in Keys : ~Admits(k) =>
        /\ Len(admitted[k]) >= Limit[k]
        /\ admitted[k][Len(admitted[k]) - Limit[k] + 1] > now - WindowMs

(***************************************************************************)
(* "cleanup to prevent unbounded memory growth": a check that is admitted  *)
(* leaves the map within the threshold, or leaves in it only keys admitted *)
(* within the last window.                                                 *)
(***************************************************************************)
MapBounded ==
    [][admitted' # admitted =>
         \/ Cardinality(DOMAIN windows') <= CleanupThreshold
         \/ \A k \in DOMAIN windows' :
               /\ admitted'[k] # << >>
               /\ admitted'[k][Len(admitted'[k])] > now' - WindowMs]_vars
=============================================================================
