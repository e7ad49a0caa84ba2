---------------------------- MODULE SecretStore ----------------------------
(***************************************************************************)
(* What a writable secret backend promises (WritableSecretBackend,         *)
(* backends/types.ts) to the commands that use it: a command takes effect  *)
(* once, between its call and its answer; one that is answered has taken   *)
(* effect; one that is killed has taken effect or has not; none is refused.*)
(* A module that implements it says what a reader would see as contents.   *)
(***************************************************************************)
CONSTANTS
    Commands,  \* who calls: one call at a time each
    Keys,
    Values,
    None       \* no value

VARIABLES
    contents,  \* the value of each key, None when it has none
    call       \* the call of each: [op, key, value, seen, state]

vars == <<contents, call>>

Maps == [Keys -> Values \union {None}]

\* No call in progress, and how the last one ended.
NoCall(state) ==
    [op |-> "read", key |-> None, value |-> None, seen |-> None, state |-> state]

Ask(c) ==
    /\ call[c].state \notin {"asked", "applied"}
    /\ \E op \in {"store", "delete", "read"}, k \in Keys \union {None}, v \in Values \union {None} :
          /\ op = "read" <=> k = None
          /\ op # "store" <=> v = None
          /\ call' = [call EXCEPT ![c] = [op |-> op, key |-> k, value |-> v,
                                          seen |-> None, state |-> "asked"]]
    /\ UNCHANGED contents

\* The moment a call takes effect: a read sees the whole of the store.
Apply(c) ==
    /\ call[c].state = "asked"
    /\ contents' = CASE call[c].op = "store"  -> [contents EXCEPT ![call[c].key] = call[c].value]
                     [] call[c].op = "delete" -> [contents EXCEPT ![call[c].key] = None]
                     [] call[c].op = "read"   -> contents
    /\ call' = [call EXCEPT ![c].state = "applied",
                            ![c].seen = IF call[c].op = "read" THEN contents ELSE None]

Answer(c) ==
    /\ call[c].state = "applied"
    /\ call' = [call EXCEPT ![c] = NoCall("ok")]
    /\ UNCHANGED contents

\* The process of the call is killed, before or after the effect.
Crash(c) ==
    /\ call[c].state \in {"asked", "applied"}
    /\ call' = [call EXCEPT ![c] = NoCall("crashed")]
    /\ UNCHANGED contents

Init ==
    /\ contents \in Maps
    /\ call = [c \in Commands |-> NoCall("none")]

Next == \E c \in Commands : Ask(c) \/ Apply(c) \/ Answer(c) \/ Crash(c)

Spec == Init /\ [][Next]_vars
=============================================================================
