------------------------ MODULE SecretTransferProofs -----------------------
(***************************************************************************)
(* Values between two stores, for all keys, names, processes and commands, *)
(* both products and any number of values and faults.                      *)
(*                                                                         *)
(* Each part of the invariant says of one process what it knows at the     *)
(* place it is at: of the secret in its key's place (KindInv), of this     *)
(* machine's store while it syncs (SyncInv), of what it has pushed         *)
(* (PushInv) and carried over (MoveInv).  Each part holds whatever else    *)
(* happens, by what touched and remade record of the others' steps (the    *)
(* lemmas on Unmoved); what is left are the steps of the process itself.   *)
(***************************************************************************)
EXTENDS SecretTransfer, FiniteSetTheorems, TLAPS

-----------------------------------------------------------------------------
(* The inductive invariant.                                                *)

\* The places at which a command works on a key of its plan.
AtKey == {"ask", "read", "fetch", "compare", "write", "check", "add", "delete", "erase"}

\* The record of a command fits the place it is at.
Placed(r) ==
    /\ r.cmd = None <=> r.at \in {"idle", "over"}
    /\ r.at \in {"report", "read", "fetch"} => r.cmd \in {"sync", "push"}
    /\ r.at = "list" => r.cmd \in {"sync", "push", "purge"} /\ r.i = 1
    /\ r.at \in {"resolve", "switch"} => r.cmd = "migrate"
    /\ r.at = "ask" => r.cmd = "push" /\ r.dry
    /\ r.at = "compare" => r.cmd = "sync"
    /\ r.at \in {"write", "check", "add"} => r.cmd \in {"set", "sync", "push", "migrate"}
    /\ r.at \in {"delete", "erase"} => r.cmd \in {"remove", "purge"}
    /\ r.cmd = "sync" => r.from = "shared" /\ r.to = "here" /\ r.plan = Ordered[Plain]
    /\ r.cmd = "push" => r.from \in Stores /\ r.to = "shared" /\ r.plan = Ordered[Plain]
    /\ r.cmd = "migrate" => r.from \in Stores /\ r.to \in Stores \ {r.from}
    /\ r.cmd \in {"set", "remove", "purge"} => r.to \in Stores
    /\ r.cmd = "purge" => r.from \in Stores
    /\ r.at = "fetch" => r.from = "shared" /\ product = "gcp-sm"
    /\ r.at \in {"check", "add", "erase"} => r.to = "shared" /\ product = "gcp-sm"
    /\ r.at \in AtKey => r.i \in DOMAIN r.plan
    /\ \A i, j \in DOMAIN r.plan : r.plan[i] = r.plan[j] => i = j

PlacesInv == \A p \in Runs : Placed(run[p])

\* A command that has found the secret in its key's place to be the key's own, or gone, knows
\* it until a secret is made there.
KindInv ==
    \A p \in Runs :
        /\ ~run[p].strayed
        /\ At(p, {"fetch", "add", "erase"}) =>
              p \in remade \/ shared[Slot(Key(run[p]))] = None \/ Reaches(Key(run[p]))

\* The keys of its plan a command has yet to come to.
Ahead(r) == {r.plan[j] : j \in {j \in DOMAIN r.plan : j > r.i}}

\* What a sync says of a key is so.
Told(p, k) ==
    LET said == run[p].said[k] IN
    /\ said = "unchanged" => here[k] = run[p].vals[k]
    /\ said \in {"create", "update"} => (here[k] = run[p].vals[k]) = ~run[p].dry
    /\ said \in {"local-only", "conflict"} => here[k] # None
    /\ said = "not-found" => here[k] = None

SyncOK(p) ==
    LET r == run[p]  k == Key(r) IN
    /\ r.at = "list" => r.said = Nothing
    /\ r.at \in {"read", "fetch", "compare", "write"} => \A j \in Ahead(r) :
          r.said[j] = None /\ (j \in touched[p] \/ (j \in r.stored <=> here[j] # None))
    /\ r.at \in {"read", "fetch", "compare"} =>
          r.said[k] = None /\ (k \in touched[p] \/ (k \in r.stored <=> here[k] # None))
    /\ r.at = "compare" => r.vals[k] # None
    /\ r.at = "write" =>
          /\ r.said[k] \in {"create", "update"} /\ ~r.dry /\ r.vals[k] # None
          /\ r.force \/ k \in touched[p] \/ here[k] = None
    /\ \A j \in Plain \ touched[p] : (r.at = "write" /\ j = k) \/ Told(p, j)

SyncInv == \A p \in Runs : run[p].cmd = "sync" => SyncOK(p)

PushOK(r) ==
    /\ r.at \in {"list", "read", "fetch"} => r.said = Nothing
    /\ r.at \in {"list", "ask", "read", "fetch"} => r.wrote = {}
    /\ r.at = "ask" => \A k \in Keys : r.said[k] \in {None, "would-create", "would-add-version"}
    /\ r.at \in {"read", "fetch", "write", "check", "add"} => ~r.dry
    /\ r.at \in {"write", "check", "add"} =>
          \A k \in Keys : IF k \in r.wrote THEN k \in Plain \ (Ahead(r) \union {Key(r)}) /\ r.said[k] = "pushed"
                          ELSE r.said[k] = None
    /\ r.at = "report" =>
          /\ (\A k \in Plain : r.said[k] = None) \/ r.dry => r.wrote = {}
          /\ \A k \in Keys : k \in r.wrote => r.said[k] \in {"pushed", "failed"}
          /\ \A k \in Keys : r.said[k] = "pushed" => k \in r.wrote
          /\ \A j, k \in Keys : r.said[j] = "failed" /\ r.said[k] = "failed" => j = k

PushInv == \A p \in Runs : run[p].cmd = "push" => PushOK(run[p])

\* The keys a migration has gone through; it has, of those its listings left out, none.
Passed(r) ==
    IF r.at = "switch" THEN Keys
    ELSE IF r.prefix = 1 THEN IF r.at = "resolve" THEN {} ELSE Plain \ (Ahead(r) \union {Key(r)})
    ELSE Plain \union (IF r.at = "resolve" THEN {} ELSE Whole \ (Ahead(r) \union {Key(r)}))

Moved(r) == Passed(r) \ r.skipped

MoveOK(p) ==
    LET r == run[p]  k == Key(r) IN
    /\ \A j \in Moved(r) : Lists(r.from, j) => Carried(p, j)
    /\ r.at \in {"write", "check", "add"} =>
          \A j \in Ahead(r) \union {k} : j \in Prefixes[r.prefix] /\ r.vals[j] = r.base[j]
    /\ r.at = "add" =>
          shared[Slot(k)] = None \/ Reaches(k) \/ Beside("shared", k) \subseteq touched[p]

MoveInv == \A p \in Runs : run[p].cmd = "migrate" => MoveOK(p)

TransferInv == TypeOK /\ PlacesInv /\ KindInv /\ SyncInv /\ PushInv /\ MoveInv

-----------------------------------------------------------------------------
(* Records.                                                                *)

LEMMA OrderedIs ==
    ASSUME NEW ks \in SUBSET Keys
    PROVE  /\ Ordered[ks] \in Seq(Keys)
           /\ \A i \in DOMAIN Ordered[ks] : Ordered[ks][i] \in ks
           /\ \A k \in ks : \E i \in DOMAIN Ordered[ks] : Ordered[ks][i] = k
           /\ \A i, j \in DOMAIN Ordered[ks] : Ordered[ks][i] = Ordered[ks][j] => i = j
           /\ ks # {} => 1 \in DOMAIN Ordered[ks]
<1>1. Ordered[ks] \in Seq(ks) /\ \A k \in ks : \E i \in DOMAIN Ordered[ks] : Ordered[ks][i] = k
  BY TransferAssumption DEF TransferAssumption
<1> QED
  BY <1>1, TransferAssumption DEF TransferAssumption

LEMMA BlankIsPlaced == Blank \in Records /\ Over \in Records /\ Placed(Blank) /\ Placed(Over)
<1>1. <<>> \in Seq(Keys) /\ Nothing \in [Keys -> Values] /\ Nothing \in [Keys -> Sayings \union {None}]
  BY DEF Nothing, Values
<1>2. Blank \in Records
  BY <1>1 DEF Blank, Records, Places
<1>3. Over \in Records /\ Over.plan = <<>> /\ Over.at = "over" /\ Over.cmd = None /\ Over.strayed = FALSE
  BY <1>2 DEF Over, Blank, Records, Places
<1>4. Blank.plan = <<>> /\ Blank.at = "idle" /\ Blank.cmd = None
  BY DEF Blank
<1> QED
  BY <1>2, <1>3, <1>4, TransferAssumption DEF TransferAssumption, Placed, AtKey, Kinds

\* What a command is about, which it never changes on its way through a plan.
Alike(r, s) ==
    /\ s.cmd = r.cmd /\ s.from = r.from /\ s.to = r.to /\ s.force = r.force /\ s.dry = r.dry
    /\ s.plan = r.plan /\ s.stored = r.stored /\ s.base = r.base /\ s.skipped = r.skipped

\* The next key of the plan, or none is left.
GoesOn(r, s, at, last) ==
    \/ s.at = at /\ s.i = r.i + 1 /\ s.i \in DOMAIN r.plan
    \/ s.at = last /\ s.i = r.i /\ Ahead(r) = {}

LEMMA AheadIs ==
    ASSUME NEW r \in Records, r.i \in DOMAIN r.plan,
           \A i, j \in DOMAIN r.plan : r.plan[i] = r.plan[j] => i = j
    PROVE  /\ Key(r) \in Keys /\ Key(r) \notin Ahead(r) /\ Ahead(r) \subseteq Keys
           /\ r.i = Len(r.plan) => Ahead(r) = {}
           /\ \A s \in Records : s.plan = r.plan /\ s.i = r.i + 1 /\ s.i \in DOMAIN r.plan =>
                 Ahead(r) = Ahead(s) \union {Key(s)} /\ Key(s) \notin Ahead(s)
<1>1. r.plan \in Seq(Keys) /\ r.i \in Nat /\ Key(r) \in Keys
  BY DEF Records, Key
<1>2. Key(r) \notin Ahead(r) /\ Ahead(r) \subseteq Keys /\ (r.i = Len(r.plan) => Ahead(r) = {})
  BY <1>1 DEF Ahead, Key
<1>3. ASSUME NEW s \in Records, s.plan = r.plan, s.i = r.i + 1, s.i \in DOMAIN r.plan
      PROVE  Ahead(r) = Ahead(s) \union {Key(s)} /\ Key(s) \notin Ahead(s)
  <2>1. {j \in DOMAIN r.plan : j > r.i} = {j \in DOMAIN s.plan : j > s.i} \union {s.i}
    BY <1>1, <1>3
  <2> QED
    BY <1>1, <1>3, <2>1 DEF Ahead, Key
<1> QED
  BY <1>1, <1>2, <1>3

\* Nothing but where the command is has changed.
Same(r, s) ==
    /\ Alike(r, s) /\ s.prefix = r.prefix /\ s.vals = r.vals
    /\ s.said = r.said /\ s.wrote = r.wrote /\ s.strayed = r.strayed

LEMMA ToIs ==
    ASSUME NEW r \in Records, NEW at \in Places, NEW s, s = [r EXCEPT !.at = at]
    PROVE  s \in Records /\ Same(r, s) /\ s.at = at /\ s.i = r.i
BY DEF Records, Same, Alike

LEMMA NextIs ==
    ASSUME NEW r \in Records, NEW at \in Places, NEW s, s = [r EXCEPT !.i = r.i + 1, !.at = at]
    PROVE  s \in Records /\ Same(r, s) /\ s.at = at /\ s.i = r.i + 1
<1>1. r.i + 1 \in Nat
  BY DEF Records
<1> QED
  BY <1>1 DEF Records, Same, Alike

LEMMA OnwardIs ==
    ASSUME NEW r \in Records, r.i \in DOMAIN r.plan, NEW at \in Places, NEW after,
           NEW s, s = Onward(r, at, after)
    PROVE  \/ s \in Records /\ Same(r, s) /\ s.at = at /\ s.i = r.i + 1 /\ s.i \in DOMAIN r.plan
           \/ s = after /\ Ahead(r) = {}
<1>1. r.plan \in Seq(Keys) /\ r.i \in Nat
  BY DEF Records
<1>2. r.i < Len(r.plan) => r.i + 1 \in DOMAIN r.plan
  BY <1>1
<1>3. ~(r.i < Len(r.plan)) => Ahead(r) = {}
  BY <1>1 DEF Ahead
<1>4. s = IF r.i < Len(r.plan) THEN [r EXCEPT !.i = r.i + 1, !.at = at] ELSE after
  BY DEF Onward
<1>5. CASE r.i < Len(r.plan)
  <2>1. s = [r EXCEPT !.i = r.i + 1, !.at = at]
    BY <1>4, <1>5
  <2>2. s \in Records /\ Same(r, s) /\ s.at = at /\ s.i = r.i + 1
    BY <2>1, NextIs
  <2> QED
    BY <1>2, <1>5, <2>2
<1> QED
  BY <1>3, <1>4, <1>5

\* What a command says of its key is new.
Says(r, s, what) ==
    /\ Alike(r, s) /\ s.vals = r.vals /\ s.wrote = r.wrote /\ s.strayed = r.strayed
    /\ s.said = [r.said EXCEPT ![Key(r)] = what]

LEMMA SayIs ==
    ASSUME NEW r \in Records, NEW what \in Sayings, NEW s, s = Say(r, what)
    PROVE  s \in Records /\ Says(r, s, what) /\ s.at = r.at /\ s.i = r.i /\ s.prefix = r.prefix
BY DEF Say, Records, Alike, Says

LEMMA SyncSaidIs ==
    ASSUME NEW r \in Records, Placed(r), r.cmd = "sync", r.at \in AtKey, NEW what \in Sayings,
           NEW s, s = SyncSaid(r, what)
    PROVE  s \in Records /\ Placed(s) /\ Says(r, s, what) /\ GoesOn(r, s, "read", "report")
<1>1. PICK t : t = Say(r, what)
  OBVIOUS
<1>2. t \in Records /\ Says(r, t, what) /\ t.at = r.at /\ t.i = r.i
  BY <1>1, SayIs
<1>3. s = Onward(t, "read", Report(t)) /\ Report(t) = [t EXCEPT !.at = "report"]
  BY <1>1 DEF SyncSaid, Report
<1>4. t.i \in DOMAIN t.plan /\ Ahead(t) = Ahead(r)
  BY <1>2 DEF Placed, Says, Alike, Ahead
<1>5. "read" \in Places /\ "report" \in Places
  BY DEF Places
<1>6. \/ s \in Records /\ Same(t, s) /\ s.at = "read" /\ s.i = t.i + 1 /\ s.i \in DOMAIN t.plan
      \/ s = Report(t) /\ Ahead(t) = {}
  BY <1>2, <1>3, <1>4, <1>5, OnwardIs
<1>7. s = Report(t) => s \in Records /\ Same(t, s) /\ s.at = "report" /\ s.i = t.i
  BY <1>2, <1>3, <1>5, ToIs
<1>8. s \in Records /\ Says(r, s, what) /\ GoesOn(r, s, "read", "report")
  BY <1>2, <1>4, <1>6, <1>7 DEF Says, Same, Alike, GoesOn
<1>9. Placed(s)
  BY <1>8 DEF Placed, Says, Alike, GoesOn, AtKey
<1> QED
  BY <1>8, <1>9

\* A command is cut short: it is over, or reports on no key.
LEMMA ThrownIs ==
    ASSUME NEW r \in Records, Placed(r), NEW s, s = Thrown(r)
    PROVE  /\ s \in Records /\ Placed(s)
           /\ \/ s = Over
              \/ /\ r.cmd \in {"sync", "push"} /\ s.at = "report" /\ s.said = Nothing
                 /\ Alike(r, s) /\ s.wrote = r.wrote /\ s.strayed = r.strayed
<1>1. CASE r.cmd \in {"sync", "push"}
  <2>1. s = [r EXCEPT !.at = "report", !.said = Nothing] /\ Nothing \in [Keys -> Sayings \union {None}]
    BY <1>1 DEF Thrown, Nothing
  <2>2. "report" \in Places
    BY DEF Places
  <2>3. /\ s \in Records /\ Alike(r, s) /\ s.at = "report" /\ s.said = Nothing
        /\ s.wrote = r.wrote /\ s.strayed = r.strayed
    BY <2>1, <2>2 DEF Records, Alike
  <2> QED
    BY <1>1, <2>3, TransferAssumption DEF TransferAssumption, Kinds, Placed, Alike, AtKey
<1>2. CASE r.cmd \notin {"sync", "push"}
  BY <1>2, BlankIsPlaced DEF Thrown
<1> QED
  BY <1>1, <1>2

LEMMA PushStoppedIs ==
    ASSUME NEW r \in Records, Placed(r), r.cmd = "push", r.at \in AtKey, NEW what \in Sayings,
           NEW s, s = PushStopped(r, what)
    PROVE  /\ s \in Records /\ Placed(s) /\ Alike(r, s) /\ s.at = "report"
           /\ s.wrote = r.wrote /\ s.strayed = r.strayed
           /\ \A k \in Keys : s.said[k] = IF k = Key(r) THEN what
                                         ELSE IF k \in Ahead(r) THEN "skipped" ELSE r.said[k]
<1> DEFINE said == [k \in Keys |-> CASE k = Key(r) -> what
                                     [] \E j \in r.i + 1..Len(r.plan) : r.plan[j] = k -> "skipped"
                                     [] OTHER -> r.said[k]]
<1>1. r.plan \in Seq(Keys) /\ r.i \in Nat /\ r.i \in DOMAIN r.plan
  BY DEF Records, Placed
<1>2. \A k \in Keys : k \in Ahead(r) <=> \E j \in r.i + 1..Len(r.plan) : r.plan[j] = k
  BY <1>1 DEF Ahead
<1>3. Key(r) \notin Ahead(r)
  BY <1>1, AheadIs DEF Placed
<1>4. \A k \in Keys : said[k] = IF k = Key(r) THEN what
                                ELSE IF k \in Ahead(r) THEN "skipped" ELSE r.said[k]
  BY <1>2, <1>3
<1>5. said \in [Keys -> Sayings \union {None}]
  <2>1. "skipped" \in Sayings /\ r.said \in [Keys -> Sayings \union {None}]
    BY DEF Sayings, Records
  <2> HIDE DEF said
  <2>2. \A k \in Keys : said[k] \in Sayings \union {None}
    BY <1>4, <2>1
  <2> QED
    BY <2>2 DEF said
<1>6. s = [r EXCEPT !.said = said, !.at = "report"]
  BY DEF PushStopped, Report
<1> HIDE DEF said
<1>7. "report" \in Places
  BY DEF Places
<1>8. /\ s \in Records /\ Alike(r, s) /\ s.at = "report" /\ s.said = said
      /\ s.wrote = r.wrote /\ s.strayed = r.strayed
  BY <1>5, <1>6, <1>7 DEF Records, Alike
<1>9. Placed(s)
  BY <1>8, TransferAssumption DEF TransferAssumption, Kinds, Placed, Alike, AtKey
<1> QED
  BY <1>4, <1>8, <1>9

LEMMA PushReadsOn ==
    ASSUME NEW r \in Records, Placed(r), r.cmd = "push", r.at \in {"read", "fetch"},
           NEW s, s = PushGoesOn(r)
    PROVE  /\ s \in Records /\ Placed(s) /\ Same(r, s)
           /\ s.at = "read" \/ (s.at = "write" /\ s.i = 1)
<1>1. s = Onward(r, "read", [r EXCEPT !.at = "write", !.i = 1])
  BY DEF PushGoesOn
<1>2. PICK t : t = [r EXCEPT !.at = "write", !.i = 1]
  OBVIOUS
<1>3. "read" \in Places /\ "write" \in Places
  BY DEF Places
<1>4. t \in Records /\ Same(r, t) /\ t.at = "write" /\ t.i = 1
  BY <1>2, <1>3 DEF Records, Same, Alike
<1>5. r.i \in DOMAIN r.plan
  BY DEF Placed, AtKey
<1>6. \/ s \in Records /\ Same(r, s) /\ s.at = "read" /\ s.i = r.i + 1 /\ s.i \in DOMAIN r.plan
      \/ s = t
  BY <1>1, <1>2, <1>3, <1>5, OnwardIs
<1>7. 1 \in DOMAIN r.plan
  BY <1>5 DEF Records
<1>8. /\ s \in Records /\ Same(r, s) /\ s.i \in DOMAIN r.plan
      /\ s.at = "read" \/ (s.at = "write" /\ s.i = 1)
  BY <1>4, <1>6, <1>7
<1>9. Placed(s)
  <2>1. Alike(r, s) /\ s.i \in DOMAIN s.plan
    BY <1>8 DEF Same, Alike
  <2>2. CASE s.at = "read"
    BY <2>1, <2>2 DEF Placed, Alike, AtKey
  <2>3. CASE s.at = "write"
    BY <2>1, <2>3 DEF Placed, Alike, AtKey
  <2> QED
    BY <1>8, <2>2, <2>3
<1> QED
  BY <1>8, <1>9

LEMMA PushWritesOn ==
    ASSUME NEW r \in Records, Placed(r), r.cmd = "push", r.at \in {"write", "check", "add"},
           NEW s, s = PushGoesOn(r)
    PROVE  s \in Records /\ Placed(s) /\ Says(r, s, "pushed") /\ GoesOn(r, s, "write", "report")
<1>1. PICK t : t = Say(r, "pushed")
  OBVIOUS
<1>2. t \in Records /\ Says(r, t, "pushed") /\ t.at = r.at /\ t.i = r.i
  <2>1. "pushed" \in Sayings
    BY DEF Sayings
  <2> QED
    BY <1>1, <2>1, SayIs
<1>3. s = Onward(t, "write", Report(t)) /\ Report(t) = [t EXCEPT !.at = "report"]
  BY <1>1 DEF PushGoesOn, Report
<1>4. t.i \in DOMAIN t.plan /\ Ahead(t) = Ahead(r)
  BY <1>2 DEF Placed, Says, Alike, Ahead, AtKey
<1>5. "write" \in Places /\ "report" \in Places
  BY DEF Places
<1>6. \/ s \in Records /\ Same(t, s) /\ s.at = "write" /\ s.i = t.i + 1 /\ s.i \in DOMAIN t.plan
      \/ s = Report(t) /\ Ahead(t) = {}
  BY <1>2, <1>3, <1>4, <1>5, OnwardIs
<1>7. s = Report(t) => s \in Records /\ Same(t, s) /\ s.at = "report" /\ s.i = t.i
  BY <1>2, <1>3, <1>5, ToIs
<1>8. s \in Records /\ Says(r, s, "pushed") /\ GoesOn(r, s, "write", "report")
  BY <1>2, <1>4, <1>6, <1>7 DEF Says, Same, Alike, GoesOn
<1>9. Placed(s)
  BY <1>8 DEF Placed, Says, Alike, GoesOn, AtKey
<1> QED
  BY <1>8, <1>9

LEMMA DeletedIs ==
    ASSUME NEW r \in Records, Placed(r), r.at \in {"delete", "erase"}, NEW s, s = Deleted(r)
    PROVE  s \in Records /\ Placed(s) /\ (s = Over \/ (Same(r, s) /\ s.at = "delete"))
<1>1. "delete" \in Places /\ s = Onward(r, "delete", Over) /\ r.i \in DOMAIN r.plan
  BY DEF Places, Deleted, Placed, AtKey
<1>2. \/ s \in Records /\ Same(r, s) /\ s.at = "delete" /\ s.i = r.i + 1 /\ s.i \in DOMAIN r.plan
      \/ s = Over
  BY <1>1, OnwardIs
<1>3. Same(r, s) /\ s.at = "delete" /\ s.i \in DOMAIN r.plan => Placed(s)
  <2>1. SUFFICES ASSUME Alike(r, s), s.at = "delete", s.i \in DOMAIN s.plan PROVE Placed(s)
    BY DEF Same, Alike
  <2> QED
    BY <2>1 DEF Placed, Alike, AtKey
<1> QED
  BY <1>2, <1>3, BlankIsPlaced

\* After a prefix, the next is listed, or the destination is configured.
PrefixEnds(r, s) ==
    /\ Alike(r, s) /\ s.vals = r.vals /\ s.said = r.said /\ s.wrote = r.wrote /\ s.strayed = r.strayed
    /\ \/ s.at = "resolve" /\ r.prefix = 1 /\ s.prefix = 2
       \/ s.at = "switch" /\ r.prefix = 2

LEMMA AfterPrefixIs ==
    ASSUME NEW r \in Records, NEW s, s = AfterPrefix(r)
    PROVE  s \in Records /\ (s = Over \/ PrefixEnds(r, s))
<1>1. r.prefix \in {1, 2} /\ Len(Prefixes) = 2
  <2>1. r.prefix \in 1..2
    BY DEF Records
  <2> QED
    BY <2>1 DEF Prefixes
<1>2. "resolve" \in Places /\ "switch" \in Places /\ 2 \in 1..2
  BY DEF Places
<1>3. CASE r.prefix = 1
  <2>1. r.prefix < Len(Prefixes) /\ r.prefix + 1 = 2
    BY <1>1, <1>3
  <2>2. AfterPrefix(r) = [r EXCEPT !.prefix = r.prefix + 1, !.at = "resolve"]
    BY <2>1 DEF AfterPrefix
  <2>3. s = [r EXCEPT !.prefix = 2, !.at = "resolve"]
    BY <2>1, <2>2
  <2> QED
    BY <1>2, <1>3, <2>3 DEF Records, PrefixEnds, Alike
<1>4. CASE r.prefix = 2
  <2>1. s = [r EXCEPT !.at = "switch"] \/ s = Over
    BY <1>1, <1>4 DEF AfterPrefix
  <2>2. CASE s = [r EXCEPT !.at = "switch"]
    BY <1>2, <1>4, <2>2 DEF Records, PrefixEnds, Alike
  <2> QED
    BY <2>1, <2>2, BlankIsPlaced
<1> QED
  BY <1>1, <1>3, <1>4

\* A new place between two prefixes fits what the command was.
LEMMA PrefixEndsPlaced ==
    ASSUME NEW r \in Records, NEW s \in Records, PrefixEnds(r, s), r.cmd = "migrate",
           r.from \in Stores, r.to \in Stores \ {r.from},
           \A i, j \in DOMAIN r.plan : r.plan[i] = r.plan[j] => i = j
    PROVE  Placed(s)
BY TransferAssumption DEF TransferAssumption, Kinds, Placed, AtKey, PrefixEnds, Alike

LEMMA MigratedIs ==
    ASSUME NEW r \in Records, Placed(r), r.cmd = "migrate", r.at \in {"write", "check", "add"},
           NEW what \in Sayings, NEW s, s = Migrated(r, what)
    PROVE  /\ s \in Records /\ Placed(s)
           /\ s = Over \/ Says(r, s, what)
           /\ \/ s.at = "write" /\ s.i = r.i + 1 /\ s.i \in DOMAIN r.plan /\ s.prefix = r.prefix
              \/ Ahead(r) = {} /\ r.prefix = 1 /\ s.at = "resolve" /\ s.prefix = 2
              \/ Ahead(r) = {} /\ r.prefix = 2 /\ s.at = "switch"
              \/ s = Over
<1>1. PICK t : t = Say(r, what)
  OBVIOUS
<1>2. t \in Records /\ Says(r, t, what) /\ t.at = r.at /\ t.i = r.i /\ t.prefix = r.prefix
  BY <1>1, SayIs
<1>3. s = Onward(t, "write", AfterPrefix(t))
  BY <1>1 DEF Migrated
<1>4. t.i \in DOMAIN t.plan /\ Ahead(t) = Ahead(r)
  BY <1>2 DEF Placed, Says, Alike, Ahead, AtKey
<1>5. "write" \in Places
  BY DEF Places
<1>6. \/ s \in Records /\ Same(t, s) /\ s.at = "write" /\ s.i = t.i + 1 /\ s.i \in DOMAIN t.plan
      \/ s = AfterPrefix(t) /\ Ahead(t) = {}
  BY <1>2, <1>3, <1>4, <1>5, OnwardIs
<1>7. CASE Same(t, s) /\ s \in Records /\ s.at = "write" /\ s.i = t.i + 1 /\ s.i \in DOMAIN t.plan
  <2>1. Says(r, s, what) /\ s.i = r.i + 1 /\ s.i \in DOMAIN r.plan /\ s.prefix = r.prefix
    BY <1>2, <1>7 DEF Says, Same, Alike
  <2>2. Alike(r, s)
    BY <2>1 DEF Says
  <2>3. Placed(s)
    BY <1>7, <2>1, <2>2 DEF Placed, Alike, AtKey
  <2> QED
    BY <1>7, <2>1, <2>3
<1>8. CASE s = AfterPrefix(t) /\ Ahead(t) = {}
  <2>1. s \in Records /\ (s = Over \/ PrefixEnds(t, s))
    BY <1>2, <1>8, AfterPrefixIs
  <2>2. CASE PrefixEnds(t, s)
    <3>1. /\ t.cmd = "migrate" /\ t.from \in Stores /\ t.to \in Stores \ {t.from}
          /\ \A i, j \in DOMAIN t.plan : t.plan[i] = t.plan[j] => i = j
      BY <1>2 DEF Says, Alike, Placed
    <3>2. Placed(s)
      BY <1>2, <2>1, <2>2, <3>1, PrefixEndsPlaced
    <3>3. Says(r, s, what)
      BY <1>2, <2>2 DEF Says, PrefixEnds, Alike
    <3> QED
      BY <1>2, <1>4, <1>8, <2>1, <2>2, <3>2, <3>3 DEF PrefixEnds
  <2> QED
    BY <2>1, <2>2, BlankIsPlaced
<1> QED
  BY <1>6, <1>7, <1>8

\* A sync has both values of its key, and says what it does about it.
LEMMA DecideIs ==
    ASSUME NEW r \in Records, Placed(r), r.cmd = "sync", r.at \in AtKey, r.vals[Key(r)] # None,
           NEW local, NEW s, s = Decide(r, local)
    PROVE  /\ s \in Records /\ Placed(s)
           /\ \/ \E what \in Sayings :
                    /\ Says(r, s, what) /\ GoesOn(r, s, "read", "report")
                    /\ what \in {"unchanged", "conflict", "create", "update"}
                    /\ what = "unchanged" => local = r.vals[Key(r)]
                    /\ what = "conflict" => local # None
                    /\ what \in {"create", "update"} => r.dry /\ local # r.vals[Key(r)]
              \/ /\ \E what \in {"create", "update"} : Says(r, s, what)
                 /\ s.at = "write" /\ s.i = r.i /\ ~r.dry /\ (r.force \/ local = None)
<1> DEFINE action == IF local = None THEN "create" ELSE "update"
<1>1. action \in {"create", "update"} /\ {"create", "update", "unchanged", "conflict"} \subseteq Sayings
  BY DEF Sayings
<1>2. s = IF local = r.vals[Key(r)] THEN SyncSaid(r, "unchanged")
          ELSE IF local # None /\ ~r.force THEN SyncSaid(r, "conflict")
          ELSE IF r.dry THEN SyncSaid(r, action)
          ELSE [Say(r, action) EXCEPT !.at = "write"]
  BY DEF Decide
<1> HIDE DEF action
<1>3. CASE s = SyncSaid(r, "unchanged") /\ local = r.vals[Key(r)]
  <2>1. s \in Records /\ Placed(s) /\ Says(r, s, "unchanged") /\ GoesOn(r, s, "read", "report")
    BY <1>1, <1>3, SyncSaidIs
  <2> QED
    BY <1>1, <1>3, <2>1
<1>4. CASE s = SyncSaid(r, "conflict") /\ local # None
  <2>1. s \in Records /\ Placed(s) /\ Says(r, s, "conflict") /\ GoesOn(r, s, "read", "report")
    BY <1>1, <1>4, SyncSaidIs
  <2> QED
    BY <1>1, <1>4, <2>1
<1>5. CASE s = SyncSaid(r, action) /\ r.dry /\ local # r.vals[Key(r)]
  <2>1. action \in Sayings
    BY <1>1
  <2>2. s \in Records /\ Placed(s) /\ Says(r, s, action) /\ GoesOn(r, s, "read", "report")
    BY <1>5, <2>1, SyncSaidIs
  <2> QED
    BY <1>1, <1>5, <2>1, <2>2
<1>6. CASE s = [Say(r, action) EXCEPT !.at = "write"] /\ ~r.dry /\ (r.force \/ local = None)
  <2>1. PICK t : t = Say(r, action)
    OBVIOUS
  <2>2. t \in Records /\ Says(r, t, action) /\ t.i = r.i
    BY <1>1, <2>1, SayIs
  <2>3. s \in Records /\ Same(t, s) /\ s.at = "write" /\ s.i = t.i
    BY <1>6, <2>1, <2>2, ToIs DEF Places
  <2>4. Says(r, s, action) /\ Alike(r, s) /\ s.i \in DOMAIN r.plan
    BY <2>2, <2>3 DEF Says, Same, Alike, Placed
  <2>5. Placed(s)
    BY <2>3, <2>4 DEF Placed, Alike, AtKey
  <2> QED
    BY <1>1, <1>6, <2>2, <2>3, <2>4, <2>5
<1> QED
  BY <1>2, <1>3, <1>4, <1>5, <1>6

\* A value has arrived.
Reads(r, s, v) ==
    /\ Alike(r, s) /\ s.said = r.said /\ s.wrote = r.wrote /\ s.strayed = r.strayed /\ s.i = r.i
    /\ s.vals = [r.vals EXCEPT ![Key(r)] = v]

LEMMA ReadsIs ==
    ASSUME NEW r \in Records, Placed(r), r.at \in AtKey, NEW v \in Values,
           NEW s, s = [r EXCEPT !.vals[Key(r)] = v]
    PROVE  s \in Records /\ Placed(s) /\ Reads(r, s, v) /\ s.at = r.at /\ Key(s) = Key(r)
<1>1. s \in Records /\ Reads(r, s, v) /\ s.at = r.at /\ Key(s) = Key(r)
  BY DEF Records, Reads, Alike, Key
<1> QED
  BY <1>1 DEF Placed, Reads, Alike

LEMMA SyncGot ==
    ASSUME NEW r \in Records, Placed(r), r.cmd = "sync", r.at \in {"read", "fetch"}, NEW v \in Values,
           NEW s, s = Got(r, v)
    PROVE  /\ s \in Records /\ Placed(s)
           /\ \/ /\ v = None /\ GoesOn(r, s, "read", "report")
                 /\ Says(r, s, IF Key(r) \in r.stored THEN "local-only" ELSE "not-found")
              \/ v # None /\ Key(r) \in r.stored /\ Reads(r, s, v) /\ s.at = "compare"
              \/ /\ v # None /\ Key(r) \notin r.stored
                 /\ \E t \in Records : Placed(t) /\ Reads(r, t, v) /\ t.at = r.at /\ s = Decide(t, None)
<1>1. PICK t : t = [r EXCEPT !.vals[Key(r)] = v]
  OBVIOUS
<1>2. t \in Records /\ Placed(t) /\ Reads(r, t, v) /\ t.at = r.at
  BY <1>1, ReadsIs DEF AtKey
<1>3. s = IF v = None THEN SyncSaid(r, IF Key(r) \in r.stored THEN "local-only" ELSE "not-found")
          ELSE IF Key(r) \in r.stored THEN [t EXCEPT !.at = "compare"] ELSE Decide(t, None)
  BY <1>1 DEF Got
<1>4. CASE v = None
  <2>1. (IF Key(r) \in r.stored THEN "local-only" ELSE "not-found") \in Sayings /\ r.at \in AtKey
    BY DEF Sayings, AtKey
  <2> QED
    BY <1>3, <1>4, <2>1, SyncSaidIs
<1>5. CASE v # None /\ Key(r) \in r.stored
  <2>1. s = [t EXCEPT !.at = "compare"]
    BY <1>3, <1>5
  <2>2. s \in Records /\ Same(t, s) /\ s.at = "compare" /\ s.i = t.i
    BY <1>2, <2>1, ToIs DEF Places
  <2>3. Reads(r, s, v) /\ Alike(r, s) /\ s.i \in DOMAIN r.plan
    BY <1>2, <2>2 DEF Reads, Same, Alike, Placed, AtKey
  <2>4. Placed(s)
    BY <2>2, <2>3 DEF Placed, Alike, AtKey
  <2> QED
    BY <1>5, <2>2, <2>3, <2>4
<1>6. CASE v # None /\ Key(r) \notin r.stored
  <2>1. s = Decide(t, None)
    BY <1>3, <1>6
  <2>2. t.cmd = "sync" /\ t.at \in AtKey /\ t.vals[Key(t)] # None
    <3>1. Key(r) \in Keys /\ Key(t) = Key(r) /\ t.vals = [r.vals EXCEPT ![Key(r)] = v] /\ r.vals \in [Keys -> Values]
      BY <1>2, AheadIs DEF Reads, Alike, Records, Placed, AtKey, Key
    <3> QED
      BY <1>2, <1>6, <3>1 DEF Reads, Alike, AtKey
  <2>3. s \in Records /\ Placed(s)
    BY <1>2, <2>1, <2>2, DecideIs
  <2> QED
    BY <1>2, <1>6, <2>1, <2>3
<1> QED
  BY <1>4, <1>5, <1>6

LEMMA PushGot ==
    ASSUME NEW r \in Records, Placed(r), r.cmd = "push", r.at \in {"read", "fetch"}, NEW v \in Values,
           NEW s, s = Got(r, v)
    PROVE  /\ s \in Records /\ Placed(s) /\ Alike(r, s) /\ s.wrote = r.wrote /\ s.strayed = r.strayed
           /\ \/ s.said = r.said /\ s.at = "read"
              \/ s.said = r.said /\ s.at = "write" /\ s.i = 1
              \/ s.said = Nothing /\ s.at = "report"
<1>1. PICK t : t = [r EXCEPT !.vals[Key(r)] = v]
  OBVIOUS
<1>2. t \in Records /\ Placed(t) /\ Reads(r, t, v) /\ t.at = r.at
  BY <1>1, ReadsIs DEF AtKey
<1>3. s = IF v = None THEN Thrown(r) ELSE PushGoesOn(t)
  BY <1>1 DEF Got
<1>4. CASE s = Thrown(r)
  <2>1. s # Over
    BY <1>4 DEF Thrown, Over, Blank, Records
  <2> QED
    BY <1>4, <2>1, ThrownIs
<1>5. CASE s = PushGoesOn(t)
  <2>1. t.cmd = "push"
    BY <1>2 DEF Reads, Alike
  <2>2. s \in Records /\ Placed(s) /\ Same(t, s) /\ (s.at = "read" \/ (s.at = "write" /\ s.i = 1))
    BY <1>2, <1>5, <2>1, PushReadsOn
  <2> QED
    BY <1>2, <2>2 DEF Reads, Same, Alike
<1> QED
  BY <1>3, <1>4, <1>5

LEMMA WrittenIs ==
    ASSUME NEW r \in Records, Placed(r), r.at \in {"write", "check", "add"}, NEW ok \in BOOLEAN,
           r.cmd = "sync" => r.said[Key(r)] \in Sayings,
           NEW s, s = Written(r, ok)
    PROVE  /\ s \in Records /\ Placed(s)
           /\ s.strayed => r.strayed
           /\ s.at \notin {"fetch", "add", "erase"}
           /\ s = Over \/ s.cmd = r.cmd
<1>1. r.at \in AtKey /\ "failed" \in Sayings /\ "migrated" \in Sayings
  BY DEF AtKey, Sayings
<1>2. CASE r.cmd = "migrate"
  <2>1. s = Migrated(r, IF ok THEN "migrated" ELSE "failed")
    BY <1>2 DEF Written
  <2>2. PICK what \in Sayings : s = Migrated(r, what)
    BY <1>1, <2>1
  <2>3. /\ s \in Records /\ Placed(s) /\ (s = Over \/ Says(r, s, what))
        /\ s.at \in {"write", "resolve", "switch"} \/ s = Over
    BY <1>2, <2>2, MigratedIs
  <2>4. Over.strayed = FALSE /\ Over.at = "over"
    BY DEF Over, Blank
  <2> QED
    BY <2>3, <2>4 DEF Says, Alike
<1>3. CASE r.cmd = "sync"
  <2>1. PICK what \in Sayings : s = SyncSaid(r, what)
    BY <1>1, <1>3 DEF Written
  <2>2. s \in Records /\ Placed(s) /\ Says(r, s, what) /\ GoesOn(r, s, "read", "report")
    BY <1>1, <1>3, <2>1, SyncSaidIs
  <2> QED
    BY <2>2 DEF Says, GoesOn, Alike
<1>4. CASE r.cmd = "push" /\ ok
  <2>1. s = PushGoesOn(r)
    BY <1>4 DEF Written
  <2>2. s \in Records /\ Placed(s) /\ Says(r, s, "pushed") /\ GoesOn(r, s, "write", "report")
    BY <1>4, <2>1, PushWritesOn
  <2> QED
    BY <2>2 DEF Says, GoesOn, Alike
<1>5. CASE r.cmd = "push" /\ ~ok
  <2>1. s = PushStopped(r, "failed")
    BY <1>5 DEF Written
  <2> QED
    BY <1>1, <1>5, <2>1, PushStoppedIs DEF Alike
<1>6. CASE r.cmd \notin {"migrate", "sync", "push"}
  <2>1. s = Over
    BY <1>6 DEF Written
  <2> QED
    BY <2>1, BlankIsPlaced DEF Over, Blank
<1> QED
  BY <1>2, <1>3, <1>4, <1>5, <1>6

LEMMA GotIs ==
    ASSUME NEW r \in Records, Placed(r), r.at \in {"read", "fetch"}, NEW v \in Values,
           NEW s, s = Got(r, v)
    PROVE  /\ s \in Records /\ Placed(s)
           /\ s.strayed => r.strayed
           /\ s.at \notin {"fetch", "add", "erase"}
           /\ s = Over \/ s.cmd = r.cmd
<1>1. r.at \in AtKey /\ r.cmd \in {"sync", "push"}
  BY DEF AtKey, Placed
<1>2. CASE r.cmd = "push"
  BY <1>2, PushGot DEF Alike
<1>3. CASE r.cmd = "sync"
  <2>1. /\ s \in Records /\ Placed(s)
        /\ \/ GoesOn(r, s, "read", "report") /\ \E what : Says(r, s, what)
           \/ Reads(r, s, v) /\ s.at = "compare"
           \/ /\ v # None
              /\ \E t \in Records : Placed(t) /\ Reads(r, t, v) /\ t.at = r.at /\ s = Decide(t, None)
    BY <1>3, SyncGot
  <2>2. ASSUME NEW t \in Records, Placed(t), Reads(r, t, v), t.at = r.at, s = Decide(t, None), v # None
        PROVE  (s.strayed => r.strayed) /\ s.at \notin {"fetch", "add", "erase"} /\ s.cmd = r.cmd
    <3>1. t.cmd = "sync" /\ t.at \in AtKey /\ t.strayed = r.strayed /\ t.vals[Key(t)] # None
      <4>1. Key(t) = Key(r) /\ t.vals = [r.vals EXCEPT ![Key(r)] = v] /\ r.vals \in [Keys -> Values] /\ Key(r) \in Keys
        BY <1>1, <2>2, AheadIs DEF Reads, Alike, Key, Records, Placed
      <4> QED
        BY <1>1, <1>3, <2>2, <4>1 DEF Reads, Alike
    <3>2. \E what : Says(t, s, what) /\ s.at \in {"read", "report", "write"}
      BY <2>2, <3>1, DecideIs DEF GoesOn
    <3> QED
      BY <1>3, <3>1, <3>2 DEF Says, Alike
  <2> QED
    BY <2>1, <2>2 DEF Says, GoesOn, Reads, Alike
<1> QED
  BY <1>1, <1>2, <1>3

LEMMA ReadFailedIs ==
    ASSUME NEW r \in Records, Placed(r), r.at \in {"read", "fetch"}, NEW s, s = ReadFailed(r)
    PROVE  /\ s \in Records /\ Placed(s)
           /\ s.strayed => r.strayed
           /\ s.at \notin {"fetch", "add", "erase"}
           /\ s = Over \/ s.cmd = r.cmd
<1>1. r.at \in AtKey /\ r.cmd \in {"sync", "push"} /\ "failed" \in Sayings
  BY DEF AtKey, Placed, Sayings
<1>2. CASE r.cmd = "push"
  <2>1. s = Thrown(r)
    BY <1>2 DEF ReadFailed
  <2> QED
    <3>1. \/ s = Over
          \/ s.at = "report" /\ s.strayed = r.strayed /\ s.cmd = r.cmd
      BY <2>1, ThrownIs DEF Alike
    <3>2. s \in Records /\ Placed(s) /\ Over.at = "over" /\ ~Over.strayed
      BY <2>1, ThrownIs DEF Over, Blank
    <3> QED
      BY <3>1, <3>2
<1>3. CASE r.cmd = "sync"
  <2>1. s = SyncSaid(r, "failed")
    BY <1>3 DEF ReadFailed
  <2>2. s \in Records /\ Placed(s) /\ Says(r, s, "failed") /\ GoesOn(r, s, "read", "report")
    BY <1>1, <1>3, <2>1, SyncSaidIs
  <2> QED
    BY <2>2 DEF Says, GoesOn, Alike
<1> QED
  BY <1>1, <1>2, <1>3

-----------------------------------------------------------------------------
(* Where each action takes its process.                                    *)

LEMMA AskedIs ==
    ASSUME NEW r \in Records, Placed(r), r.cmd = "push", r.at = "ask", NEW what \in Sayings,
           NEW s, s = Onward(Say(r, what), "ask", Report(Say(r, what)))
    PROVE  s \in Records /\ Placed(s) /\ Says(r, s, what) /\ GoesOn(r, s, "ask", "report")
<1>1. PICK t : t = Say(r, what)
  OBVIOUS
<1>2. t \in Records /\ Says(r, t, what) /\ t.at = r.at /\ t.i = r.i
  BY <1>1, SayIs
<1>3. s = Onward(t, "ask", Report(t)) /\ Report(t) = [t EXCEPT !.at = "report"]
  BY <1>1 DEF Report
<1>4. t.i \in DOMAIN t.plan /\ Ahead(t) = Ahead(r)
  BY <1>2 DEF Placed, Says, Alike, Ahead, AtKey
<1>5. "ask" \in Places /\ "report" \in Places
  BY DEF Places
<1>6. \/ s \in Records /\ Same(t, s) /\ s.at = "ask" /\ s.i = t.i + 1 /\ s.i \in DOMAIN t.plan
      \/ s = Report(t) /\ Ahead(t) = {}
  BY <1>2, <1>3, <1>4, <1>5, OnwardIs
<1>7. s = Report(t) => s \in Records /\ Same(t, s) /\ s.at = "report" /\ s.i = t.i
  BY <1>2, <1>3, <1>5, ToIs
<1>8. s \in Records /\ Says(r, s, what) /\ GoesOn(r, s, "ask", "report")
  BY <1>2, <1>4, <1>6, <1>7 DEF Says, Same, Alike, GoesOn
<1>9. Placed(s)
  BY <1>8 DEF Placed, Says, Alike, GoesOn, AtKey
<1> QED
  BY <1>8, <1>9

\* A secret is used that is the key's own, or was made after the command looked.
LEMMA UsedIs ==
    ASSUME NEW p \in Runs, run[p] \in Records, ~run[p].strayed,
           p \in remade \/ Reaches(Key(run[p])), NEW s, s = Used(p)
    PROVE  s \in Records /\ Same(run[p], s) /\ s.at = run[p].at /\ s.i = run[p].i
<1>1. s = [run[p] EXCEPT !.strayed = FALSE]
  BY DEF Used
<1> QED
  BY <1>1 DEF Records, Same, Alike

LEMMA SlotIs ==
    ASSUME product \in Products, NEW k \in Keys
    PROVE  Slot(k) \in Keys /\ (product # "gcp-sm" => Slot(k) = k)
BY TransferAssumption DEF TransferAssumption, Slot

LEMMA BecomeIs ==
    ASSUME run \in [Runs -> Records], NEW p \in Runs, NEW s, Become(p, s)
    PROVE  run'[p] = s /\ (\A q \in Runs \ {p} : run'[q] = run[q]) /\ (s \in Records => run' \in [Runs -> Records])
BY DEF Become

\* What KindInv asks of a process and its record.
Knows(p, r) ==
    r.at \in {"fetch", "add", "erase"} =>
        p \in remade \/ shared[Slot(Key(r))] = None \/ Reaches(Key(r))

Arrives(p) == \E s \in Records : Become(p, s) /\ Placed(s) /\ ~s.strayed /\ Knows(p, s)'

LEMMA OverArrives ==
    ASSUME NEW p \in Runs, Become(p, Over)
    PROVE  Arrives(p)
<1>1. Over.at = "over" /\ ~Over.strayed
  BY DEF Over, Blank
<1> QED
  BY <1>1, BlankIsPlaced DEF Arrives, Knows

LEMMA BeginArrives ==
    ASSUME TypeOK, NEW p \in Runs, Begin(p)
    PROVE  Arrives(p)
<1>1. Nothing \in [Keys -> Values] /\ Nothing \in [Keys -> Sayings \union {None}]
  BY DEF Nothing, Values
<1>2. Ordered[Plain] \in Seq(Keys) /\ 1 \in DOMAIN Ordered[Plain]
      /\ \A i, j \in DOMAIN Ordered[Plain] : Ordered[Plain][i] = Ordered[Plain][j] => i = j
  BY OrderedIs, TransferAssumption DEF TransferAssumption, Keys
<1>3. ASSUME NEW k \in Keys, BeginSet(p, k)
      PROVE  Arrives(p)
  <2> DEFINE s == [Blank EXCEPT !.cmd = "set", !.at = "write", !.to = configured,
                                !.plan = <<k>>, !.vals[k] = next]
  <2>1. next \in Values /\ configured \in Stores
    BY <1>3 DEF BeginSet, TypeOK, Values
  <2>2. <<k>> \in Seq(Keys)
    OBVIOUS
  <2>3. s \in Records
    BY BlankIsPlaced, <1>1, <2>1, <2>2 DEF Records, Places, Kinds, Stores
  <2>4. Placed(s)
    BY <2>1, TransferAssumption DEF TransferAssumption, Kinds, Placed, Blank, AtKey, Stores
  <2>5. s.at = "write" /\ ~s.strayed
    BY DEF Blank
  <2>6. Become(p, s)
    BY <1>3 DEF BeginSet, Starts
  <2> HIDE DEF s
  <2> QED
    BY <2>3, <2>4, <2>5, <2>6 DEF Arrives, Knows
<1>4. ASSUME NEW k \in Keys, BeginRemove(p, k)
      PROVE  Arrives(p)
  <2> DEFINE s == [Blank EXCEPT !.cmd = "remove", !.at = "delete", !.to = configured, !.plan = <<k>>]
  <2>1. configured \in Stores
    BY DEF TypeOK
  <2>2. <<k>> \in Seq(Keys)
    OBVIOUS
  <2>3. s \in Records
    BY BlankIsPlaced, <1>1, <2>1, <2>2 DEF Records, Places, Kinds, Stores
  <2>4. Placed(s)
    BY <2>1, TransferAssumption DEF TransferAssumption, Kinds, Placed, Blank, AtKey, Stores
  <2>5. s.at = "delete" /\ ~s.strayed
    BY DEF Blank
  <2>6. Become(p, s)
    BY <1>4 DEF BeginRemove, Starts
  <2> HIDE DEF s
  <2> QED
    BY <2>3, <2>4, <2>5, <2>6 DEF Arrives, Knows
<1>5. ASSUME NEW force \in BOOLEAN, NEW dry \in BOOLEAN, BeginSync(p, force, dry)
      PROVE  Arrives(p)
  <2> DEFINE s == [Blank EXCEPT !.cmd = "sync", !.at = "list", !.from = "shared", !.to = "here",
                                !.force = force, !.dry = dry, !.plan = Ordered[Plain]]
  <2>1. s \in Records
    BY BlankIsPlaced, <1>1, <1>2 DEF Records, Places, Kinds, Stores
  <2>2. Placed(s)
    BY <1>2, TransferAssumption DEF TransferAssumption, Kinds, Placed, Blank, AtKey, Stores
  <2>3. s.at = "list" /\ ~s.strayed
    BY DEF Blank
  <2>4. Become(p, s)
    BY <1>5 DEF BeginSync, Starts
  <2> HIDE DEF s
  <2> QED
    BY <2>1, <2>2, <2>3, <2>4 DEF Arrives, Knows
<1>6. ASSUME NEW dry \in BOOLEAN, BeginPush(p, dry)
      PROVE  Arrives(p)
  <2> DEFINE s == [Blank EXCEPT !.cmd = "push", !.at = "list", !.from = configured, !.to = "shared",
                                !.dry = dry, !.plan = Ordered[Plain]]
  <2>1. configured \in Stores
    BY DEF TypeOK
  <2>2. s \in Records
    BY BlankIsPlaced, <1>1, <1>2, <2>1 DEF Records, Places, Kinds, Stores
  <2>3. Placed(s)
    BY <1>2, <2>1, TransferAssumption DEF TransferAssumption, Kinds, Placed, Blank, AtKey, Stores
  <2>4. s.at = "list" /\ ~s.strayed
    BY DEF Blank
  <2>5. Become(p, s)
    BY <1>6 DEF BeginPush, Starts
  <2> HIDE DEF s
  <2> QED
    BY <2>2, <2>3, <2>4, <2>5 DEF Arrives, Knows
<1>7. ASSUME NEW to \in {"here", "shared"}, BeginMigrate(p, to)
      PROVE  Arrives(p)
  <2> DEFINE s == [Blank EXCEPT !.cmd = "migrate", !.at = "resolve",
                                !.from = IF to = "here" THEN "shared" ELSE "here", !.to = to]
  <2>1. s \in Records
    BY BlankIsPlaced, <1>1 DEF Records, Places, Kinds, Stores
  <2>2. Placed(s)
    BY TransferAssumption DEF TransferAssumption, Kinds, Placed, Blank, AtKey, Stores
  <2>3. s.at = "resolve" /\ ~s.strayed
    BY DEF Blank
  <2>4. Become(p, s)
    BY <1>7 DEF BeginMigrate, Starts
  <2> HIDE DEF s
  <2> QED
    BY <2>1, <2>2, <2>3, <2>4 DEF Arrives, Knows
<1>8. ASSUME BeginPurge(p)
      PROVE  Arrives(p)
  <2> DEFINE s == [Blank EXCEPT !.cmd = "purge", !.at = "list", !.from = configured, !.to = configured]
  <2>1. configured \in Stores
    BY DEF TypeOK
  <2>2. s \in Records
    BY BlankIsPlaced, <1>1, <2>1 DEF Records, Places, Kinds, Stores
  <2>3. Placed(s)
    BY <2>1, TransferAssumption DEF TransferAssumption, Kinds, Placed, Blank, AtKey, Stores
  <2>4. s.at = "list" /\ ~s.strayed
    BY DEF Blank
  <2>5. Become(p, s)
    BY <1>8 DEF BeginPurge, Starts
  <2> HIDE DEF s
  <2> QED
    BY <2>2, <2>3, <2>4, <2>5 DEF Arrives, Knows
<1>9. ASSUME NEW s, UseBackend(p, s)
      PROVE  Arrives(p)
  BY <1>9, OverArrives DEF UseBackend
<1> QED
  BY <1>3, <1>4, <1>5, <1>6, <1>7, <1>8, <1>9 DEF Begin

\* The action leaves its command at a place where it needs to know nothing of a secret.
LEMMA QuietArrives ==
    ASSUME NEW p \in Runs, NEW s \in Records, Become(p, s), Placed(s), ~s.strayed,
           s.at \notin {"fetch", "add", "erase"}
    PROVE  Arrives(p)
BY DEF Arrives, Knows

LEMMA ThrowsArrives ==
    ASSUME TypeOK, PlacesInv, KindInv, NEW p \in Runs, NEW places, Throws(p, places)
    PROVE  Arrives(p)
<1>1. PICK s : s = Thrown(run[p])
  OBVIOUS
<1>2. run[p] \in Records /\ Placed(run[p]) /\ ~run[p].strayed
  BY DEF TypeOK, PlacesInv, KindInv
<1>3. s \in Records /\ Placed(s) /\ ~s.strayed /\ s.at \in {"over", "report"}
  BY <1>1, <1>2, ThrownIs DEF Over, Blank
<1> QED
  BY <1>1, <1>3, QuietArrives DEF Throws

LEMMA ListsArrive ==
    ASSUME TypeOK, PlacesInv, KindInv, NEW p \in Runs,
           ListToSync(p) \/ ListToPush(p) \/ ListToPurge(p)
    PROVE  Arrives(p)
<1> DEFINE r == run[p]
<1>1. r \in Records /\ Placed(r) /\ ~r.strayed
  BY DEF TypeOK, PlacesInv, KindInv
<1>2. r.at = "list" /\ r.i = 1
  BY <1>1 DEF ListToSync, ListToPush, ListToPurge, At, Placed
<1>3. 1 \in DOMAIN Ordered[Plain] /\ Plain \in SUBSET Keys /\ Whole \in SUBSET Keys
  BY OrderedIs, TransferAssumption DEF TransferAssumption, Keys
<1>4. CASE ListToSync(p)
  <2>1. PICK s : s = [r EXCEPT !.at = "read", !.stored = {k \in Plain : here[k] # None}]
    OBVIOUS
  <2>2. Become(p, s) /\ r.cmd = "sync"
    BY <1>4, <2>1 DEF ListToSync
  <2>3. s \in Records /\ s.at = "read" /\ ~s.strayed /\ s.cmd = r.cmd /\ s.i = r.i /\ s.plan = r.plan
        /\ s.from = r.from /\ s.to = r.to
    BY <1>1, <1>3, <2>1 DEF Records, Places
  <2>4. Placed(s)
    BY <1>1, <1>2, <1>3, <2>2, <2>3 DEF Placed, AtKey
  <2> QED
    BY <2>2, <2>3, <2>4, QuietArrives
<1>5. CASE ListToPush(p)
  <2>1. PICK s : /\ Become(p, s)
                 /\ s = Thrown(r) \/ s = [r EXCEPT !.at = IF r.dry THEN "ask" ELSE "read"]
    BY <1>5 DEF ListToPush
  <2>2. CASE s = Thrown(r)
    <3>1. s \in Records /\ Placed(s) /\ ~s.strayed /\ s.at \in {"over", "report"}
      BY <1>1, <2>2, ThrownIs DEF Over, Blank
    <3> QED
      BY <2>1, <3>1, QuietArrives
  <2>3. CASE s = [r EXCEPT !.at = IF r.dry THEN "ask" ELSE "read"]
    <3>1. /\ s \in Records /\ s.at = IF r.dry THEN "ask" ELSE "read"
          /\ ~s.strayed /\ s.i = r.i /\ Alike(r, s)
      BY <1>1, <2>3 DEF Records, Places, Alike
    <3>2. Placed(s)
      <4>1. r.cmd = "push"
        BY <1>5 DEF ListToPush
      <4>2. CASE r.dry
        BY <1>1, <1>2, <1>3, <3>1, <4>1, <4>2 DEF Placed, AtKey, Alike
      <4>3. CASE ~r.dry
        BY <1>1, <1>2, <1>3, <3>1, <4>1, <4>3 DEF Placed, AtKey, Alike
      <4> QED
        BY <4>2, <4>3
    <3>3. s.at \notin {"fetch", "add", "erase"}
      BY <3>1
    <3> QED
      BY <2>1, <3>1, <3>2, <3>3, QuietArrives
  <2> QED
    BY <2>1, <2>2, <2>3
<1>6. CASE ListToPurge(p)
  <2>1. PICK listed \in Listings(r.from, Keys) :
           Become(p, IF listed = {} THEN Over ELSE [r EXCEPT !.at = "delete", !.plan = Ordered[listed]])
    BY <1>6 DEF ListToPurge
  <2>2. listed \in SUBSET Keys
    BY <2>1 DEF Listings
  <2>3. CASE listed # {}
    <3>1. PICK s : s = [r EXCEPT !.at = "delete", !.plan = Ordered[listed]]
      OBVIOUS
    <3>2. /\ Ordered[listed] \in Seq(Keys) /\ 1 \in DOMAIN Ordered[listed]
          /\ \A i, j \in DOMAIN Ordered[listed] : Ordered[listed][i] = Ordered[listed][j] => i = j
      BY <2>2, <2>3, OrderedIs
    <3>3. /\ s \in Records /\ s.at = "delete" /\ ~s.strayed /\ s.cmd = r.cmd /\ s.i = 1
          /\ s.plan = Ordered[listed] /\ s.from = r.from /\ s.to = r.to
      BY <1>1, <1>2, <3>1, <3>2 DEF Records, Places
    <3>4. Placed(s)
      <4>1. r.cmd = "purge" /\ r.from \in Stores /\ r.to \in Stores
        BY <1>1, <1>6 DEF ListToPurge, Placed
      <4>2. s.i \in DOMAIN s.plan /\ \A i, j \in DOMAIN s.plan : s.plan[i] = s.plan[j] => i = j
        BY <3>2, <3>3
      <4> QED
        BY <3>3, <4>1, <4>2, TransferAssumption DEF TransferAssumption, Kinds, Placed, AtKey
    <3> QED
      BY <2>1, <2>3, <3>1, <3>3, <3>4, QuietArrives
  <2> QED
    BY <2>1, <2>3, OverArrives
<1> QED
  BY <1>4, <1>5, <1>6

LEMMA ResolveArrives ==
    ASSUME TypeOK, PlacesInv, KindInv, NEW p \in Runs, Resolve(p)
    PROVE  Arrives(p)
<1> DEFINE r == run[p]
           ks == Prefixes[r.prefix]
<1>1. r \in Records /\ Placed(r) /\ ~r.strayed /\ r.at = "resolve" /\ r.cmd = "migrate"
  BY DEF TypeOK, PlacesInv, KindInv, Resolve, At, Placed
<1>2. PICK found, read :
         /\ found \in Listings(r.from, ks)
         /\ read = [r EXCEPT !.plan = Ordered[found], !.i = 1, !.at = "write",
                !.vals = [k \in Keys |-> IF k \in found THEN Value(r.from, k) ELSE @[k]],
                !.skipped = @ \union {k \in ks \ found : Lists(r.from, k) /\ Value(r.from, k) # None},
                !.base = [k \in Keys |->
                      IF \E i \in 1..r.prefix - 1 : k \in Prefixes[i] THEN @[k] ELSE Value(r.from, k)]]
         /\ Become(p, IF found = {} THEN AfterPrefix(read) ELSE read)
  BY DEF Resolve
<1>3. found \in SUBSET Keys /\ ks \in SUBSET Keys
  <2>1. r.prefix \in {1, 2}
    <3>1. r.prefix \in 1..2
      BY <1>1 DEF Records
    <3> QED
      BY <3>1
  <2>2. ks \subseteq Keys
    BY <2>1 DEF Prefixes, Keys
  <2> QED
    BY <1>2, <2>2 DEF Listings
<1>4. /\ Ordered[found] \in Seq(Keys) /\ (found # {} => 1 \in DOMAIN Ordered[found])
      /\ \A i, j \in DOMAIN Ordered[found] : Ordered[found][i] = Ordered[found][j] => i = j
  BY <1>3, OrderedIs
<1>5. \A k \in Keys : Value(r.from, k) \in Values
  BY SlotIs DEF Value, TypeOK, Values, Reaches
<1>6. read.vals \in [Keys -> Values] /\ read.base \in [Keys -> Values]
  <2>1. /\ read.vals = [k \in Keys |-> IF k \in found THEN Value(r.from, k) ELSE r.vals[k]]
        /\ read.base = [k \in Keys |->
               IF \E i \in 1..r.prefix - 1 : k \in Prefixes[i] THEN r.base[k] ELSE Value(r.from, k)]
    BY <1>1, <1>2 DEF Records
  <2>2. r.vals \in [Keys -> Values] /\ r.base \in [Keys -> Values]
    BY <1>1 DEF Records
  <2> QED
    BY <1>5, <2>1, <2>2
<1>7. /\ read \in Records /\ read.at = "write" /\ ~read.strayed /\ read.i = 1 /\ read.plan = Ordered[found]
      /\ read.cmd = r.cmd /\ read.from = r.from /\ read.to = r.to
  BY <1>1, <1>2, <1>3, <1>4, <1>6 DEF Records, Places
<1>8. CASE found # {}
  <2>1. Placed(read)
    BY <1>1, <1>4, <1>7, <1>8 DEF Placed, AtKey
  <2> QED
    BY <1>2, <1>7, <1>8, <2>1, QuietArrives
<1>9. CASE found = {}
  <2>1. PICK s : s = AfterPrefix(read)
    OBVIOUS
  <2>2. Become(p, s)
    BY <1>2, <1>9, <2>1
  <2>3. s \in Records /\ (s = Over \/ PrefixEnds(read, s))
    BY <1>7, <2>1, AfterPrefixIs
  <2>4. CASE PrefixEnds(read, s)
    <3>1. /\ read.cmd = "migrate" /\ read.from \in Stores /\ read.to \in Stores \ {read.from}
          /\ \A i, j \in DOMAIN read.plan : read.plan[i] = read.plan[j] => i = j
      BY <1>1, <1>4, <1>7 DEF Placed
    <3>2. Placed(s)
      BY <1>7, <2>3, <2>4, <3>1, PrefixEndsPlaced
    <3> QED
      BY <1>7, <2>2, <2>3, <2>4, <3>2, QuietArrives DEF PrefixEnds
  <2> QED
    BY <2>2, <2>3, <2>4, OverArrives
<1> QED
  BY <1>8, <1>9

LEMMA AskArrives ==
    ASSUME TypeOK, PlacesInv, KindInv, NEW p \in Runs, Ask(p)
    PROVE  Arrives(p)
<1> DEFINE r == run[p]
           k == Key(r)
<1>1. /\ r \in Records /\ Placed(r) /\ ~r.strayed /\ r.at = "ask" /\ r.cmd = "push"
      /\ r.at \in AtKey /\ r.i \in DOMAIN r.plan
  BY DEF TypeOK, PlacesInv, KindInv, Ask, At, Placed, AtKey
<1>2. {"would-create", "would-add-version", "would-refuse", "failed"} \subseteq Sayings
  BY DEF Sayings
<1>3. ASSUME NEW what \in Sayings, Become(p, PushStopped(r, what)) PROVE Arrives(p)
  <2>1. PICK s : s = PushStopped(r, what)
    OBVIOUS
  <2>2. s \in Records /\ Placed(s) /\ s.at = "report" /\ s.strayed = r.strayed
    BY <1>1, <2>1, PushStoppedIs
  <2> QED
    BY <1>1, <1>3, <2>1, <2>2, QuietArrives
<1>4. ASSUME NEW what \in Sayings, Become(p, Onward(Say(r, what), "ask", Report(Say(r, what))))
      PROVE  Arrives(p)
  <2>1. PICK s : s = Onward(Say(r, what), "ask", Report(Say(r, what)))
    OBVIOUS
  <2>2. s \in Records /\ Placed(s) /\ Says(r, s, what) /\ GoesOn(r, s, "ask", "report")
    BY <1>1, <2>1, AskedIs
  <2> QED
    BY <1>1, <1>4, <2>1, <2>2, QuietArrives DEF Says, GoesOn
<1> QED
  BY <1>2, <1>3, <1>4 DEF Ask

LEMMA ReadsArrive ==
    ASSUME TypeOK, PlacesInv, KindInv, NEW p \in Runs,
           ReadAtOnce(p) \/ ReadLabel(p) \/ Fetch(p) \/ ReadRefused(p)
    PROVE  Arrives(p)
<1> DEFINE r == run[p]
           k == Key(r)
           t == Slot(k)
<1>1. /\ r \in Records /\ Placed(r) /\ ~r.strayed /\ r.at \in {"read", "fetch"} /\ k \in Keys
      /\ r.i \in DOMAIN r.plan
  <2>1. r \in Records /\ Placed(r) /\ ~r.strayed /\ r.at \in {"read", "fetch"} /\ r.i \in DOMAIN r.plan
    BY DEF TypeOK, PlacesInv, KindInv, ReadAtOnce, ReadLabel, Fetch, ReadRefused, At, Placed, AtKey
  <2> QED
    BY <2>1, AheadIs DEF Placed
<1>2. Value(r.from, k) \in Values /\ None \in Values /\ (shared[t] # None => shared[t].value \in Values)
  BY <1>1, SlotIs DEF Value, TypeOK, Values, Reaches
<1>3. ASSUME NEW v \in Values, Become(p, Got(r, v)) PROVE Arrives(p)
  <2>1. PICK s : s = Got(r, v)
    OBVIOUS
  <2>2. s \in Records /\ Placed(s) /\ (s.strayed => r.strayed) /\ s.at \notin {"fetch", "add", "erase"}
    BY <1>1, <2>1, GotIs
  <2> QED
    BY <1>1, <1>3, <2>1, <2>2, QuietArrives
<1>4. ASSUME Become(p, ReadFailed(r)) PROVE Arrives(p)
  <2>1. PICK s : s = ReadFailed(r)
    OBVIOUS
  <2>2. s \in Records /\ Placed(s) /\ (s.strayed => r.strayed) /\ s.at \notin {"fetch", "add", "erase"}
    BY <1>1, <2>1, ReadFailedIs
  <2> QED
    BY <1>1, <1>4, <2>1, <2>2, QuietArrives
<1>5. CASE ReadAtOnce(p)
  BY <1>2, <1>3, <1>5 DEF ReadAtOnce
<1>6. CASE ReadLabel(p)
  <2>1. \/ Become(p, Got(r, None)) \/ Become(p, ReadFailed(r))
        \/ Become(p, [r EXCEPT !.at = "fetch"]) /\ Reaches(k)
    BY <1>6 DEF ReadLabel
  <2>2. CASE Become(p, [r EXCEPT !.at = "fetch"]) /\ Reaches(k)
    <3>1. PICK s : s = [r EXCEPT !.at = "fetch"]
      OBVIOUS
    <3>2. "fetch" \in Places
      BY DEF Places
    <3>3. s \in Records /\ Same(r, s) /\ s.at = "fetch" /\ s.i = r.i
      BY <1>1, <3>1, <3>2, ToIs
    <3>4. Placed(s)
      <4>1. r.from = "shared" /\ product = "gcp-sm" /\ r.cmd \in {"sync", "push"}
        BY <1>1, <1>6 DEF ReadLabel, Placed
      <4> QED
        BY <1>1, <3>3, <4>1 DEF Placed, Same, Alike, AtKey
    <3>5. Key(s) = k /\ UNCHANGED <<shared, product>>
      BY <1>6, <3>3 DEF Key, Same, Alike, ReadLabel, contents
    <3>6. Reaches(Key(s))'
      BY <2>2, <3>5 DEF Reaches, Slot
    <3> QED
      BY <1>1, <2>2, <3>1, <3>3, <3>4, <3>6 DEF Arrives, Knows, Same
  <2> QED
    BY <1>2, <1>3, <1>4, <2>1, <2>2
<1>7. CASE Fetch(p)
  <2>1. CASE shared[t] = None
    BY <1>2, <1>3, <1>7, <2>1 DEF Fetch
  <2>2. CASE shared[t] # None
    <3>1. PICK u : u = Used(p)
      OBVIOUS
    <3>2. u \in Records /\ Same(r, u) /\ u.at = r.at /\ u.i = r.i
      <4>1. p \in remade \/ Reaches(k)
        BY <1>1, <1>7, <2>2 DEF KindInv, At, Fetch
      <4> QED
        BY <1>1, <2>2, <3>1, <4>1, UsedIs
    <3>3. Placed(u) /\ ~u.strayed
      BY <1>1, <3>2 DEF Placed, Same, Alike
    <3>4. PICK s : s = Got(u, shared[t].value)
      OBVIOUS
    <3>5. s \in Records /\ Placed(s) /\ (s.strayed => u.strayed) /\ s.at \notin {"fetch", "add", "erase"}
      BY <1>1, <1>2, <2>2, <3>2, <3>3, <3>4, GotIs
    <3> QED
      BY <1>7, <2>2, <3>1, <3>3, <3>4, <3>5, QuietArrives DEF Fetch
  <2> QED
    BY <2>1, <2>2
<1>8. CASE ReadRefused(p)
  BY <1>4, <1>8 DEF ReadRefused
<1> QED
  BY <1>5, <1>6, <1>7, <1>8

LEMMA CompareArrives ==
    ASSUME TypeOK, PlacesInv, KindInv, SyncInv, NEW p \in Runs, Compare(p)
    PROVE  Arrives(p)
<1> DEFINE r == run[p]
<1>1. /\ r \in Records /\ Placed(r) /\ ~r.strayed /\ r.at = "compare" /\ r.cmd = "sync"
      /\ r.at \in AtKey
  BY DEF TypeOK, PlacesInv, KindInv, Compare, At, Placed, AtKey
<1>2. r.vals[Key(r)] # None
  BY <1>1 DEF SyncInv, SyncOK
<1>3. PICK s : Become(p, s) /\ (s = Decide(r, here[Key(r)]) \/ s = SyncSaid(r, "failed"))
  BY DEF Compare
<1>4. CASE s = Decide(r, here[Key(r)])
  <2>1. s \in Records /\ Placed(s) /\ \E what : Says(r, s, what) /\ s.at \in {"read", "report", "write"}
    BY <1>1, <1>2, <1>4, DecideIs DEF GoesOn
  <2> QED
    BY <1>1, <1>3, <2>1, QuietArrives DEF Says
<1>5. CASE s = SyncSaid(r, "failed")
  <2>1. "failed" \in Sayings
    BY DEF Sayings
  <2>2. s \in Records /\ Placed(s) /\ Says(r, s, "failed") /\ GoesOn(r, s, "read", "report")
    BY <1>1, <1>5, <2>1, SyncSaidIs
  <2> QED
    BY <1>1, <1>3, <2>2, QuietArrives DEF Says, GoesOn
<1> QED
  BY <1>3, <1>4, <1>5

LEMMA NotedIs ==
    ASSUME NEW r \in Records, Key(r) \in Keys, NEW s, s = Noted(r)
    PROVE  /\ s \in Records /\ Alike(r, s) /\ s.prefix = r.prefix /\ s.vals = r.vals /\ s.said = r.said
           /\ s.strayed = r.strayed /\ s.at = r.at /\ s.i = r.i /\ s.wrote = r.wrote \union {Key(r)}
           /\ Key(s) = Key(r) /\ Ahead(s) = Ahead(r) /\ (Placed(r) => Placed(s))
<1>1. /\ s \in Records /\ Alike(r, s) /\ s.prefix = r.prefix /\ s.vals = r.vals /\ s.said = r.said
      /\ s.strayed = r.strayed /\ s.at = r.at /\ s.i = r.i /\ s.wrote = r.wrote \union {Key(r)}
  BY DEF Noted, Records, Alike
<1>2. Key(s) = Key(r) /\ Ahead(s) = Ahead(r)
  BY <1>1 DEF Key, Ahead, Alike
<1>3. Placed(r) => Placed(s)
  BY <1>1 DEF Placed, Alike
<1> QED
  BY <1>1, <1>2, <1>3

\* Where a command writes, it can say what it is about to do.
LEMMA AtWrite ==
    ASSUME TypeOK, PlacesInv, KindInv, SyncInv, NEW p \in Runs, At(p, {"write", "check", "add"})
    PROVE  /\ run[p] \in Records /\ Placed(run[p]) /\ ~run[p].strayed
           /\ run[p].at \in {"write", "check", "add"} /\ run[p].at \in AtKey
           /\ run[p].i \in DOMAIN run[p].plan /\ Key(run[p]) \in Keys
           /\ run[p].cmd = "sync" => run[p].at = "write" /\ run[p].said[Key(run[p])] \in Sayings
<1>1. /\ run[p] \in Records /\ Placed(run[p]) /\ ~run[p].strayed
      /\ run[p].at \in {"write", "check", "add"} /\ run[p].at \in AtKey
      /\ run[p].i \in DOMAIN run[p].plan
  BY DEF TypeOK, PlacesInv, KindInv, At, Placed, AtKey
<1>2. Key(run[p]) \in Keys
  BY <1>1, AheadIs DEF Placed
<1>3. run[p].cmd = "sync" => run[p].at = "write"
  BY <1>1 DEF Placed
<1>4. run[p].cmd = "sync" => run[p].said[Key(run[p])] \in Sayings
  BY <1>3 DEF SyncInv, SyncOK, Sayings
<1> QED
  BY <1>1, <1>2, <1>3, <1>4

LEMMA WrittenArrives ==
    ASSUME NEW p \in Runs, NEW r \in Records, Placed(r), ~r.strayed, r.at \in {"write", "check", "add"},
           r.cmd = "sync" => r.said[Key(r)] \in Sayings,
           NEW ok \in BOOLEAN, Become(p, Written(r, ok))
    PROVE  Arrives(p)
<1>1. PICK s : s = Written(r, ok)
  OBVIOUS
<1>2. s \in Records /\ Placed(s) /\ (s.strayed => r.strayed) /\ s.at \notin {"fetch", "add", "erase"}
  BY <1>1, WrittenIs
<1> QED
  BY <1>1, <1>2, QuietArrives

LEMMA WritesArrive ==
    ASSUME TypeOK, PlacesInv, KindInv, SyncInv, NEW p \in Runs,
           WriteHere(p) \/ WriteVault(p) \/ CreateSecret(p) \/ CheckLabel(p) \/ AddVersion(p) \/ WriteRefused(p)
    PROVE  Arrives(p)
<1> DEFINE r == run[p]
<1> PICK k, t : k = Key(run[p]) /\ t = Slot(k)
  OBVIOUS
<1>1. /\ r \in Records /\ Placed(r) /\ ~r.strayed
      /\ r.at \in {"write", "check", "add"} /\ r.i \in DOMAIN r.plan /\ k \in Keys
      /\ r.cmd = "sync" => r.said[k] \in Sayings
  <2>1. At(p, {"write", "check", "add"})
    BY DEF WriteHere, WriteVault, CreateSecret, CheckLabel, AddVersion, WriteRefused, At
  <2> QED
    BY <2>1, AtWrite
<1>2. ASSUME NEW ok \in BOOLEAN, Become(p, Written(r, ok)) PROVE Arrives(p)
  BY <1>1, <1>2, WrittenArrives
<1>3. ASSUME NEW ok \in BOOLEAN, Become(p, Written(Noted(r), ok)) PROVE Arrives(p)
  <2>1. PICK u : u = Noted(r)
    OBVIOUS
  <2>2. u \in Records /\ Placed(u) /\ ~u.strayed /\ u.at = r.at /\ (u.cmd = "sync" => u.said[Key(u)] \in Sayings)
    BY <1>1, <2>1, NotedIs DEF Alike
  <2> QED
    BY <1>1, <1>3, <2>1, <2>2, WrittenArrives
\* To the place where a version is added.
<1>4. ASSUME Become(p, [r EXCEPT !.at = "add"]), r.to = "shared" /\ product = "gcp-sm",
             UNCHANGED product, shared'[t] = None \/ Reaches(k)'
      PROVE  Arrives(p)
  <2>1. PICK s : s = [r EXCEPT !.at = "add"]
    OBVIOUS
  <2>2. "add" \in Places
    BY DEF Places
  <2>3. s \in Records /\ Same(r, s) /\ s.at = "add" /\ s.i = r.i
    BY <1>1, <2>1, <2>2, ToIs
  <2>4. Placed(s)
    BY <1>1, <1>4, <2>3 DEF Placed, Same, Alike, AtKey
  <2>5. Key(s) = k /\ Slot(k)' = t
    BY <1>4, <2>3 DEF Key, Same, Alike, Slot
  <2>6. Knows(p, s)'
    BY <1>4, <2>5 DEF Knows, Slot
  <2> QED
    BY <1>1, <1>4, <2>1, <2>3, <2>4, <2>6 DEF Arrives, Same
<1>5. CASE WriteHere(p)
  BY <1>3, <1>5 DEF WriteHere
<1>6. CASE WriteVault(p)
  BY <1>3, <1>6 DEF WriteVault
<1>7. CASE CreateSecret(p)
  <2>1. CASE shared[t] = None
    <3>1. /\ shared' = [shared EXCEPT ![t] = [held |-> k \in Whole, value |-> None]]
          /\ UNCHANGED product
          /\ Become(p, [r EXCEPT !.at = "add"]) \/ Become(p, Written(r, FALSE))
      BY <1>7, <2>1 DEF CreateSecret
    <3>2. t \in Keys /\ shared \in [Keys -> {None} \union [held : BOOLEAN, value : Values]]
      BY <1>1, SlotIs DEF TypeOK
    <3>3. shared'[t] = [held |-> k \in Whole, value |-> None] /\ Slot(k)' = t
      BY <3>1, <3>2 DEF Slot
    <3>4. shared'[t] = None \/ Reaches(k)'
      BY <3>3 DEF Reaches, Slot
    <3>5. r.to = "shared" /\ product = "gcp-sm"
      BY <1>7 DEF CreateSecret
    <3> QED
      BY <1>2, <1>4, <3>1, <3>4, <3>5
  <2>2. CASE shared[t] # None
    <3>1. PICK s : s = [r EXCEPT !.at = "check"]
      OBVIOUS
    <3>2. "check" \in Places
      BY DEF Places
    <3>3. s \in Records /\ Same(r, s) /\ s.at = "check" /\ s.i = r.i
      BY <1>1, <3>1, <3>2, ToIs
    <3>4. Placed(s)
      <4>1. r.to = "shared" /\ product = "gcp-sm"
        BY <1>7 DEF CreateSecret
      <4> QED
        BY <1>1, <3>3, <4>1 DEF Placed, Same, Alike, AtKey
    <3>5. Become(p, s)
      BY <1>7, <2>2, <3>1 DEF CreateSecret
    <3> QED
      BY <1>1, <3>3, <3>4, <3>5, QuietArrives DEF Same
  <2> QED
    BY <2>1, <2>2
<1>8. CASE CheckLabel(p)
  <2>1. CASE MayAdd(k)
    <3>1. Become(p, [r EXCEPT !.at = "add"]) /\ UNCHANGED <<shared, product>>
      BY <1>8, <2>1 DEF CheckLabel, contents
    <3>2. shared'[t] = None \/ Reaches(k)'
      BY <2>1, <3>1 DEF MayAdd, Reaches, Slot
    <3>3. r.to = "shared" /\ product = "gcp-sm"
      BY <1>1, <1>8 DEF CheckLabel, At, Placed
    <3> QED
      BY <1>4, <3>1, <3>2, <3>3
  <2>2. CASE ~MayAdd(k)
    BY <1>2, <1>8, <2>2 DEF CheckLabel
  <2> QED
    BY <2>1, <2>2
<1>9. CASE AddVersion(p)
  <2>1. CASE shared[t] = None
    BY <1>2, <1>9, <2>1 DEF AddVersion
  <2>2. CASE shared[t] # None
    <3>1. PICK u : u = Used(p)
      OBVIOUS
    <3>2. u \in Records /\ Same(r, u) /\ u.at = r.at /\ u.i = r.i
      <4>1. p \in remade \/ Reaches(k)
        BY <1>1, <1>9, <2>2 DEF KindInv, At, AddVersion
      <4> QED
        BY <1>1, <3>1, <4>1, UsedIs
    <3>3. Placed(u) /\ ~u.strayed /\ Key(u) = k
      BY <1>1, <3>2 DEF Placed, Same, Alike, Key
    <3>4. PICK w : w = Noted(u)
      OBVIOUS
    <3>5. /\ w \in Records /\ Placed(w) /\ ~w.strayed /\ w.at = r.at
          /\ w.cmd = "sync" => w.said[Key(w)] \in Sayings
      BY <1>1, <3>2, <3>3, <3>4, NotedIs DEF Alike, Same
    <3>6. PICK ok \in BOOLEAN : Become(p, Written(w, ok))
      BY <1>9, <2>2, <3>1, <3>4 DEF AddVersion
    <3> QED
      BY <1>1, <3>5, <3>6, WrittenArrives
  <2> QED
    BY <2>1, <2>2
<1>10. CASE WriteRefused(p)
  BY <1>2, <1>10 DEF WriteRefused
<1> QED
  BY <1>5, <1>6, <1>7, <1>8, <1>9, <1>10

LEMMA DeletesArrive ==
    ASSUME TypeOK, PlacesInv, KindInv, NEW p \in Runs,
           DeleteHere(p) \/ DeleteVault(p) \/ DeleteLabel(p) \/ Erase(p)
    PROVE  Arrives(p)
<1> DEFINE r == run[p]
           k == Key(r)
           t == Slot(k)
<1>1. /\ r \in Records /\ Placed(r) /\ ~r.strayed /\ r.at \in {"delete", "erase"}
      /\ r.i \in DOMAIN r.plan
  BY DEF TypeOK, PlacesInv, KindInv, DeleteHere, DeleteVault, DeleteLabel, Erase, At, Placed, AtKey
<1>2. ASSUME NEW u \in Records, Placed(u), u.at = r.at, ~u.strayed, Become(p, Deleted(u)) PROVE Arrives(p)
  <2>1. PICK s : s = Deleted(u)
    OBVIOUS
  <2>2. s \in Records /\ Placed(s) /\ (s = Over \/ (Same(u, s) /\ s.at = "delete"))
    BY <1>1, <1>2, <2>1, DeletedIs
  <2> QED
    BY <1>2, <2>1, <2>2, QuietArrives, OverArrives DEF Same
<1>3. CASE DeleteHere(p)
  BY <1>1, <1>2, <1>3 DEF DeleteHere
<1>4. CASE DeleteVault(p)
  BY <1>1, <1>2, <1>4, OverArrives DEF DeleteVault
<1>5. CASE DeleteLabel(p)
  <2>1. \/ Become(p, Over) \/ Become(p, Deleted(r))
        \/ Become(p, [r EXCEPT !.at = "erase"]) /\ Reaches(k)
    BY <1>5 DEF DeleteLabel
  <2>2. CASE Become(p, [r EXCEPT !.at = "erase"]) /\ Reaches(k)
    <3>1. PICK s : s = [r EXCEPT !.at = "erase"]
      OBVIOUS
    <3>2. "erase" \in Places
      BY DEF Places
    <3>3. s \in Records /\ Same(r, s) /\ s.at = "erase" /\ s.i = r.i
      BY <1>1, <3>1, <3>2, ToIs
    <3>4. Placed(s)
      <4>1. r.to = "shared" /\ product = "gcp-sm" /\ r.cmd \in {"remove", "purge"}
        BY <1>1, <1>5 DEF DeleteLabel, Placed
      <4> QED
        BY <1>1, <3>3, <4>1 DEF Placed, Same, Alike, AtKey
    <3>5. Key(s) = k /\ UNCHANGED <<shared, product>>
      BY <1>5, <3>3 DEF Key, Same, Alike, DeleteLabel, contents
    <3>6. Reaches(Key(s))'
      BY <2>2, <3>5 DEF Reaches, Slot
    <3> QED
      BY <1>1, <2>2, <3>1, <3>3, <3>4, <3>6 DEF Arrives, Knows, Same
  <2> QED
    BY <1>1, <1>2, <2>1, <2>2, OverArrives
<1>6. CASE Erase(p)
  <2>1. PICK u : u = IF shared[t] = None THEN r ELSE Used(p)
    OBVIOUS
  <2>2. u \in Records /\ Placed(u) /\ u.at = r.at /\ ~u.strayed
    <3>1. CASE shared[t] = None
      BY <1>1, <2>1, <3>1
    <3>2. CASE shared[t] # None
      <4>1. p \in remade \/ Reaches(k)
        BY <1>6, <3>2 DEF KindInv, At, Erase
      <4>2. u \in Records /\ Same(r, u) /\ u.at = r.at /\ u.i = r.i
        BY <1>1, <2>1, <3>2, <4>1, UsedIs
      <4> QED
        BY <1>1, <4>2 DEF Placed, Same, Alike
    <3> QED
      BY <3>1, <3>2
  <2>3. Become(p, Deleted(u)) \/ Become(p, Over)
    BY <1>6, <2>1 DEF Erase
  <2> QED
    BY <1>1, <1>2, <2>2, <2>3, OverArrives
<1> QED
  BY <1>3, <1>4, <1>5, <1>6

\* A step of a process takes it where it belongs.
LEMMA StepArrives ==
    ASSUME TypeOK, PlacesInv, KindInv, SyncInv, NEW p \in Runs, Step(p)
    PROVE  Arrives(p)
<1>1. CASE Begin(p)
  BY <1>1, BeginArrives
<1>2. CASE Throws(p, {"list", "resolve", "delete", "erase"})
  BY <1>2, ThrowsArrives
<1>3. CASE ListToSync(p) \/ ListToPush(p) \/ ListToPurge(p)
  BY <1>3, ListsArrive
<1>4. CASE Resolve(p)
  BY <1>4, ResolveArrives
<1>5. CASE Ask(p)
  BY <1>5, AskArrives
<1>6. CASE ReadAtOnce(p) \/ ReadLabel(p) \/ Fetch(p) \/ ReadRefused(p)
  BY <1>6, ReadsArrive
<1>7. CASE Compare(p)
  BY <1>7, CompareArrives
<1>8. CASE WriteHere(p) \/ WriteVault(p) \/ CreateSecret(p) \/ CheckLabel(p) \/ AddVersion(p) \/ WriteRefused(p)
  BY <1>8, WritesArrive
<1>9. CASE Switch(p) \/ Ends(p)
  BY <1>9, OverArrives DEF Switch, Ends
<1>10. CASE DeleteHere(p) \/ DeleteVault(p) \/ DeleteLabel(p) \/ Erase(p)
  BY <1>10, DeletesArrive
<1> QED
  BY <1>1, <1>2, <1>3, <1>4, <1>5, <1>6, <1>7, <1>8, <1>9, <1>10 DEF Step

\* A command that is on its way stays what it is until it is over.
LEMMA StepStays ==
    ASSUME TypeOK, PlacesInv, KindInv, SyncInv, NEW p \in Runs, Step(p)
    PROVE  run[p].cmd = None \/ run'[p] = Over \/ run'[p].cmd = run[p].cmd
<1> PICK r, k, t, s : r = run[p] /\ k = Key(r) /\ t = Slot(k) /\ s = run'[p]
  OBVIOUS
<1>1. /\ r \in Records /\ Placed(r) /\ ~r.strayed /\ run \in [Runs -> Records]
  BY DEF TypeOK, PlacesInv, KindInv
<1>2. r.at \in AtKey => k \in Keys
  BY <1>1, AheadIs DEF Placed
<1>3. CASE Begin(p)
  <2>1. r.at = "idle"
    BY <1>3 DEF Begin, BeginSet, BeginRemove, BeginSync, BeginPush, BeginMigrate, BeginPurge, UseBackend, Starts, At
  <2> QED
    BY <1>1, <2>1 DEF Placed
<1>4. CASE Throws(p, {"list", "resolve", "delete", "erase"})
  <2>1. s = Thrown(r)
    BY <1>1, <1>4, BecomeIs DEF Throws
  <2>2. s = Over \/ Alike(r, s)
    BY <1>1, <2>1, ThrownIs
  <2> QED
    BY <2>2 DEF Alike
<1>5. CASE ListToSync(p)
  <2>1. PICK stored : s = [r EXCEPT !.at = "read", !.stored = stored]
    BY <1>1, <1>5, BecomeIs DEF ListToSync
  <2> QED
    BY <1>1, <2>1 DEF Records
<1>6. CASE ListToPush(p)
  <2>1. s = [r EXCEPT !.at = IF r.dry THEN "ask" ELSE "read"] \/ s = Thrown(r)
    BY <1>1, <1>6, BecomeIs DEF ListToPush
  <2>2. [r EXCEPT !.at = IF r.dry THEN "ask" ELSE "read"].cmd = r.cmd
    BY <1>1 DEF Records
  <2> QED
    BY <1>1, <2>1, <2>2, ThrownIs DEF Alike
<1>7. CASE ListToPurge(p)
  <2>1. PICK plan : s = Over \/ s = [r EXCEPT !.at = "delete", !.plan = plan]
    BY <1>1, <1>7, BecomeIs DEF ListToPurge
  <2>2. [r EXCEPT !.at = "delete", !.plan = plan].cmd = r.cmd
    BY <1>1 DEF Records
  <2> QED
    BY <2>1, <2>2
<1>8. CASE Resolve(p)
  <2>1. PICK u, plan, vals, left, base :
           /\ u = [r EXCEPT !.plan = plan, !.i = 1, !.at = "write", !.vals = vals, !.skipped = left, !.base = base]
           /\ s = u \/ s = AfterPrefix(u)
    BY <1>1, <1>8, BecomeIs, Zenon DEF Resolve
  <2>2. u.cmd = r.cmd /\ [u EXCEPT !.at = "switch"].cmd = r.cmd
        /\ [u EXCEPT !.prefix = u.prefix + 1, !.at = "resolve"].cmd = r.cmd
    BY <1>1, <2>1 DEF Records
  <2>3. s = u \/ s = Over \/ s = [u EXCEPT !.at = "switch"]
        \/ s = [u EXCEPT !.prefix = u.prefix + 1, !.at = "resolve"]
    BY <2>1, Zenon DEF AfterPrefix
  <2> QED
    BY <2>2, <2>3
<1>9. CASE Ask(p)
  <2>1. r.cmd = "push" /\ r.at = "ask" /\ r.at \in AtKey
    BY <1>1, <1>9 DEF Ask, At, Placed, AtKey
  <2>2. ASSUME NEW what \in Sayings, s = PushStopped(r, what) PROVE s.cmd = r.cmd
    <3>1. Alike(r, s)
      BY <1>1, <2>1, <2>2, PushStoppedIs
    <3> QED
      BY <3>1 DEF Alike
  <2>3. ASSUME NEW what \in Sayings, s = Onward(Say(r, what), "ask", Report(Say(r, what))) PROVE s.cmd = r.cmd
    <3>1. Says(r, s, what)
      BY <1>1, <2>1, <2>3, AskedIs
    <3> QED
      BY <3>1 DEF Says, Alike
  <2>4. {"would-create", "would-add-version", "would-refuse", "failed"} \subseteq Sayings
    BY DEF Sayings
  <2>5. \/ s = PushStopped(r, "would-refuse") \/ s = PushStopped(r, "failed")
        \/ \E what \in {"would-create", "would-add-version"} :
              s = Onward(Say(r, what), "ask", Report(Say(r, what)))
    BY <1>1, <1>9, BecomeIs DEF Ask
  <2> QED
    BY <2>2, <2>3, <2>4, <2>5
<1>10. CASE ReadAtOnce(p) \/ ReadLabel(p) \/ Fetch(p) \/ ReadRefused(p)
  <2>1. r.at \in {"read", "fetch"} /\ k \in Keys
    BY <1>2, <1>10 DEF ReadAtOnce, ReadLabel, Fetch, ReadRefused, At, AtKey
  <2>2. Value(r.from, k) \in Values /\ None \in Values /\ (shared[t] # None => shared[t].value \in Values)
    BY <2>1, SlotIs DEF Value, TypeOK, Values, Reaches
  <2>3. ASSUME NEW v \in Values, s = Got(r, v) PROVE s = Over \/ s.cmd = r.cmd
    BY <1>1, <2>1, <2>3, GotIs
  <2>4. \/ s = ReadFailed(r) \/ s = [r EXCEPT !.at = "fetch"] \/ \E v \in Values : s = Got(r, v)
        \/ Fetch(p) /\ shared[t] # None
    BY <1>1, <1>10, <2>2, BecomeIs DEF ReadAtOnce, ReadLabel, Fetch, ReadRefused
  <2>5. CASE Fetch(p) /\ shared[t] # None
    <3>1. PICK u : u = Used(p)
      OBVIOUS
    <3>2. p \in remade \/ Reaches(k)
      BY <1>1, <2>5 DEF KindInv, At, Fetch
    <3>3. u \in Records /\ Same(r, u) /\ u.at = r.at /\ u.i = r.i
      BY <1>1, <3>1, <3>2, UsedIs
    <3>4. Placed(u) /\ u.cmd = r.cmd
      BY <1>1, <3>3 DEF Placed, Same, Alike
    <3>5. s = Got(u, shared[t].value)
      BY <1>1, <2>5, <3>1, BecomeIs DEF Fetch
    <3> QED
      BY <2>1, <2>2, <2>5, <3>3, <3>4, <3>5, GotIs
  <2>6. [r EXCEPT !.at = "fetch"].cmd = r.cmd
    BY <1>1 DEF Records
  <2> QED
    BY <1>1, <2>1, <2>3, <2>4, <2>5, <2>6, ReadFailedIs
<1>11. CASE Compare(p)
  <2>1. r.at = "compare" /\ r.at \in AtKey /\ r.cmd = "sync" /\ "failed" \in Sayings
    BY <1>1, <1>11 DEF Compare, At, Placed, AtKey, Sayings
  <2>2. r.vals[k] # None
    BY <2>1 DEF SyncInv, SyncOK
  <2>3. s = Decide(r, here[k]) \/ s = SyncSaid(r, "failed")
    BY <1>1, <1>11, BecomeIs DEF Compare
  <2>4. s = Decide(r, here[k]) => \E what : Says(r, s, what)
    BY <1>1, <2>1, <2>2, DecideIs
  <2>5. s = SyncSaid(r, "failed") => Says(r, s, "failed")
    BY <1>1, <2>1, SyncSaidIs
  <2> QED
    BY <2>3, <2>4, <2>5 DEF Says, Alike
<1>12. CASE WriteHere(p) \/ WriteVault(p) \/ CreateSecret(p) \/ CheckLabel(p) \/ AddVersion(p) \/ WriteRefused(p)
  <2>1. At(p, {"write", "check", "add"})
    BY <1>12 DEF WriteHere, WriteVault, CreateSecret, CheckLabel, AddVersion, WriteRefused, At
  <2>2. r.at \in {"write", "check", "add"} /\ k \in Keys /\ (r.cmd = "sync" => r.said[k] \in Sayings)
    BY <2>1, AtWrite
  <2>3. ASSUME NEW u \in Records, Placed(u), u.at = r.at, u.cmd = r.cmd, u.said = r.said, Key(u) = k,
               NEW ok \in BOOLEAN, s = Written(u, ok)
        PROVE  s = Over \/ s.cmd = r.cmd
    BY <2>2, <2>3, WrittenIs
  <2>4. PICK w : w = Noted(r)
    OBVIOUS
  <2>5. w \in Records /\ Placed(w) /\ w.at = r.at /\ w.cmd = r.cmd /\ w.said = r.said /\ Key(w) = k
    BY <1>1, <2>2, <2>4, NotedIs DEF Alike
  <2>6. \/ \E ok \in BOOLEAN : s = Written(r, ok) \/ s = Written(w, ok)
        \/ s = [r EXCEPT !.at = "add"] \/ s = [r EXCEPT !.at = "check"]
        \/ AddVersion(p) /\ shared[t] # None
    BY <1>1, <1>12, <2>4, BecomeIs DEF WriteHere, WriteVault, CreateSecret, CheckLabel, AddVersion, WriteRefused
  <2>7. CASE AddVersion(p) /\ shared[t] # None
    <3>1. PICK u, v : u = Used(p) /\ v = Noted(u)
      OBVIOUS
    <3>2. p \in remade \/ Reaches(k)
      BY <1>1, <2>7 DEF KindInv, At, AddVersion
    <3>3. u \in Records /\ Same(r, u) /\ u.at = r.at /\ u.i = r.i
      BY <1>1, <3>1, <3>2, UsedIs
    <3>4. Placed(u) /\ u.cmd = r.cmd /\ u.said = r.said /\ Key(u) = k
      BY <1>1, <3>3 DEF Placed, Same, Alike, Key
    <3>5. v \in Records /\ Placed(v) /\ v.at = r.at /\ v.cmd = r.cmd /\ v.said = r.said /\ Key(v) = k
      BY <2>2, <3>1, <3>3, <3>4, NotedIs DEF Alike
    <3>6. \E ok \in BOOLEAN : s = Written(v, ok)
      BY <1>1, <2>7, <3>1, BecomeIs DEF AddVersion
    <3> QED
      BY <2>3, <3>5, <3>6
  <2>8. [r EXCEPT !.at = "add"].cmd = r.cmd /\ [r EXCEPT !.at = "check"].cmd = r.cmd
    BY <1>1 DEF Records
  <2> QED
    BY <1>1, <2>3, <2>5, <2>6, <2>7, <2>8
<1>13. CASE Switch(p) \/ Ends(p)
  BY <1>1, <1>13, BecomeIs DEF Switch, Ends
<1>14. CASE DeleteHere(p) \/ DeleteVault(p) \/ DeleteLabel(p) \/ Erase(p)
  <2>1. r.at \in {"delete", "erase"}
    BY <1>14 DEF DeleteHere, DeleteVault, DeleteLabel, Erase, At
  <2>2. PICK u : u = Used(p)
    OBVIOUS
  <2>3. \/ s = Over \/ s = Deleted(r) \/ s = [r EXCEPT !.at = "erase"]
        \/ Erase(p) /\ shared[t] # None /\ s = Deleted(u)
    BY <1>1, <1>14, <2>2, BecomeIs DEF DeleteHere, DeleteVault, DeleteLabel, Erase
  <2>4. CASE Erase(p) /\ shared[t] # None /\ s = Deleted(u)
    <3>1. p \in remade \/ Reaches(k)
      BY <1>1, <2>4 DEF KindInv, At, Erase
    <3>2. u \in Records /\ Same(r, u) /\ u.at = r.at /\ u.i = r.i
      BY <1>1, <2>2, <3>1, UsedIs
    <3>3. Placed(u) /\ u.cmd = r.cmd
      BY <1>1, <3>2 DEF Placed, Same, Alike
    <3> QED
      BY <2>1, <2>4, <3>2, <3>3, DeletedIs DEF Same, Alike
  <2>5. [r EXCEPT !.at = "erase"].cmd = r.cmd
    BY <1>1 DEF Records
  <2>6. s = Deleted(r) => s = Over \/ Same(r, s)
    BY <1>1, <2>1, DeletedIs
  <2> QED
    BY <2>3, <2>4, <2>5, <2>6 DEF Same, Alike
<1> QED
  BY <1>3, <1>4, <1>5, <1>6, <1>7, <1>8, <1>9, <1>10, <1>11, <1>12, <1>13, <1>14 DEF Step

LEMMA Continues ==
    ASSUME TypeOK, PlacesInv, KindInv, SyncInv, NEW p \in Runs, Step(p), run'[p].cmd # None, ~Begin(p)
    PROVE  run'[p].cmd = run[p].cmd /\ run'[p] # Over
<1>1. Over.cmd = None
  BY DEF Over, Blank
<1>2. SUFFICES ASSUME run[p].cmd = None PROVE FALSE
  BY <1>1, StepStays
<1>3. run[p].at \in {"idle", "over"}
  BY <1>2 DEF PlacesInv, Placed
<1> QED
  BY <1>3 DEF Step, Throws, ListToSync, ListToPush, ListToPurge, Resolve, Ask, ReadAtOnce, ReadLabel, Fetch,
              ReadRefused, Compare, WriteHere, WriteVault, CreateSecret, CheckLabel, AddVersion, WriteRefused,
              Switch, DeleteHere, DeleteVault, DeleteLabel, Erase, Ends, Running, At

\* What a command is when it begins.
LEMMA BeginIs ==
    ASSUME TypeOK, NEW p \in Runs, Begin(p), NEW s, s = run'[p]
    PROVE  /\ run[p].at = "idle" /\ UNCHANGED <<contents, history>>
           /\ \/ s.cmd \in {None, "set", "remove", "purge"}
              \/ /\ s.cmd = "sync" /\ s.at = "list" /\ s.said = Nothing
              \/ /\ s.cmd = "push" /\ s.at = "list" /\ s.said = Nothing /\ s.wrote = {}
              \/ /\ s.cmd = "migrate" /\ s.at = "resolve" /\ s.prefix = 1
<1>1. run[p].at = "idle" /\ UNCHANGED <<contents, history>> /\ run \in [Runs -> Records]
  BY DEF TypeOK, Begin, BeginSet, BeginRemove, BeginSync, BeginPush, BeginMigrate, BeginPurge, UseBackend, Starts, At
<1>2. ASSUME NEW k, BeginSet(p, k) PROVE s.cmd = "set"
  <2>1. s = [Blank EXCEPT !.cmd = "set", !.at = "write", !.to = configured, !.plan = <<k>>, !.vals[k] = next]
    BY <1>1, <1>2, BecomeIs DEF BeginSet, Starts
  <2> QED
    BY <2>1 DEF Blank
<1>3. ASSUME NEW k, BeginRemove(p, k) PROVE s.cmd = "remove"
  <2>1. s = [Blank EXCEPT !.cmd = "remove", !.at = "delete", !.to = configured, !.plan = <<k>>]
    BY <1>1, <1>3, BecomeIs DEF BeginRemove, Starts
  <2> QED
    BY <2>1 DEF Blank
<1>4. ASSUME NEW force, NEW dry, BeginSync(p, force, dry)
      PROVE  s.cmd = "sync" /\ s.at = "list" /\ s.said = Nothing
  <2>1. s = [Blank EXCEPT !.cmd = "sync", !.at = "list", !.from = "shared", !.to = "here",
                          !.force = force, !.dry = dry, !.plan = Ordered[Plain]]
    BY <1>1, <1>4, BecomeIs DEF BeginSync, Starts
  <2> QED
    BY <2>1 DEF Blank
<1>5. ASSUME NEW dry, BeginPush(p, dry)
      PROVE  s.cmd = "push" /\ s.at = "list" /\ s.said = Nothing /\ s.wrote = {}
  <2>1. s = [Blank EXCEPT !.cmd = "push", !.at = "list", !.from = configured, !.to = "shared",
                          !.dry = dry, !.plan = Ordered[Plain]]
    BY <1>1, <1>5, BecomeIs DEF BeginPush, Starts
  <2> QED
    BY <2>1 DEF Blank
<1>6. ASSUME NEW to, BeginMigrate(p, to)
      PROVE  s.cmd = "migrate" /\ s.at = "resolve" /\ s.prefix = 1
  <2>1. s = [Blank EXCEPT !.cmd = "migrate", !.at = "resolve",
                          !.from = IF to = "here" THEN "shared" ELSE "here", !.to = to]
    BY <1>1, <1>6, BecomeIs DEF BeginMigrate, Starts
  <2> QED
    BY <2>1 DEF Blank
<1>7. ASSUME BeginPurge(p) PROVE s.cmd = "purge"
  <2>1. s = [Blank EXCEPT !.cmd = "purge", !.at = "list", !.from = configured, !.to = configured]
    BY <1>1, <1>7, BecomeIs DEF BeginPurge, Starts
  <2> QED
    BY <2>1 DEF Blank
<1>8. ASSUME NEW to, UseBackend(p, to) PROVE s.cmd = None
  BY <1>1, <1>8, BecomeIs DEF UseBackend, Over, Blank
<1> QED
  BY <1>1, <1>2, <1>3, <1>4, <1>5, <1>6, <1>7, <1>8 DEF Begin

-----------------------------------------------------------------------------
(* What the steps of others leave a process.                               *)

Unmoved(q) ==
    /\ run'[q] = run[q] /\ product' = product
    /\ touched[q] \subseteq touched'[q]
    /\ q \in remade => q \in remade'
    /\ run[q].cmd \in {"sync", "migrate"} => \A k \in Keys :
          /\ run[q].to = "here" /\ here'[k] # here[k] => k \in touched'[q]
          /\ run[q].to = "shared" /\ shared'[Slot(k)] # shared[Slot(k)] => Beside("shared", k) \subseteq touched'[q]
    /\ product = "gcp-sm" /\ Running(run[q]) /\ run[q].plan # <<>> =>
          \/ q \in remade'
          \/ shared'[Slot(Key(run[q]))] = None
          \/ /\ shared[Slot(Key(run[q]))] # None
             /\ shared'[Slot(Key(run[q]))].held = shared[Slot(Key(run[q]))].held

\* A secret of the place of a key is changed, or made where there was none.
LEMMA SharedMoves ==
    ASSUME TypeOK, PlacesInv, NEW q \in Runs, NEW k \in Keys, NEW x,
           shared' = [shared EXCEPT ![Slot(k)] = x],
           run'[q] = run[q], UNCHANGED <<product, here>>,
           touched'[q] = Unseen(q, "shared", k),
           q \in remade => q \in remade',
           product = "gcp-sm" =>
               \/ x = None
               \/ shared[Slot(k)] # None /\ x.held = shared[Slot(k)].held
               \/ q \in Remade(k) => q \in remade'
    PROVE  Unmoved(q)
<1>1. Slot(k) \in Keys /\ shared \in [Keys -> {None} \union [held : BOOLEAN, value : Values]]
  BY SlotIs DEF TypeOK
<1>2. touched[q] \subseteq touched'[q]
  BY DEF Unseen
<1>3. ASSUME NEW j \in Keys, shared'[Slot(j)] # shared[Slot(j)]
      PROVE  Slot(j) = Slot(k) /\ Beside("shared", j) = Beside("shared", k)
  <2>1. Slot(j) \in Keys
    BY SlotIs DEF TypeOK
  <2>2. Slot(j) = Slot(k)
    BY <1>1, <1>3, <2>1
  <2> QED
    BY <2>2 DEF Beside
<1>4. run[q].cmd \in {"sync", "migrate"} /\ run[q].to = "shared" =>
          \A j \in Keys : shared'[Slot(j)] # shared[Slot(j)] => Beside("shared", j) \subseteq touched'[q]
  BY <1>3 DEF Unseen
<1>5. ASSUME product = "gcp-sm", Running(run[q]), run[q].plan # <<>>
      PROVE  \/ q \in remade'
             \/ shared'[Slot(Key(run[q]))] = None
             \/ /\ shared[Slot(Key(run[q]))] # None
                /\ shared'[Slot(Key(run[q]))].held = shared[Slot(Key(run[q]))].held
  <2>1. PICK t : t = Slot(Key(run[q]))
    OBVIOUS
  <2>2. CASE t = Slot(k)
    <3>1. q \in Remade(k)
      BY <1>5, <2>1, <2>2 DEF Remade
    <3>2. shared'[t] = x
      BY <1>1, <2>2
    <3> QED
      BY <1>5, <2>1, <2>2, <3>1, <3>2
  <2>3. CASE t # Slot(k)
    <3>1. shared'[t] = shared[t]
      BY <1>1, <2>3
    <3> QED
      BY <2>1, <3>1
  <2> QED
    BY <2>2, <2>3
<1> QED
  BY <1>2, <1>4, <1>5 DEF Unmoved

LEMMA HereMoves ==
    ASSUME TypeOK, NEW q \in Runs, NEW k \in Keys, NEW x,
           here' = [here EXCEPT ![k] = x],
           run'[q] = run[q], UNCHANGED <<product, shared>>,
           touched'[q] = Unseen(q, "here", k),
           q \in remade => q \in remade'
    PROVE  Unmoved(q)
<1>1. \A j \in Keys : here'[j] # here[j] => j = k
  BY DEF TypeOK
<1> QED
  BY <1>1 DEF Unmoved, Unseen, Beside

LEMMA NothingMoves ==
    ASSUME NEW q \in Runs, run'[q] = run[q], UNCHANGED <<product, contents>>,
           touched[q] \subseteq touched'[q], q \in remade => q \in remade'
    PROVE  Unmoved(q)
BY DEF Unmoved, contents

LEMMA OthersUnmoved ==
    ASSUME TypeOK, PlacesInv, KindInv, SyncInv, NEW p \in Runs, Step(p), NEW q \in Runs \ {p}
    PROVE  Unmoved(q)
<1> PICK r, k, t : r = run[p] /\ k = Key(r) /\ t = Slot(k)
  OBVIOUS
<1>1. run'[q] = run[q] /\ r \in Records /\ Placed(r) /\ touched \in [Runs -> SUBSET Keys]
  <2>1. Arrives(p) /\ run \in [Runs -> Records]
    BY StepArrives DEF TypeOK
  <2> QED
    BY <2>1, BecomeIs DEF Arrives, TypeOK, PlacesInv
<1>2. r.at \in AtKey => k \in Keys
  BY <1>1, AheadIs DEF Placed
\* The steps that change no store.
<1>3. ASSUME UNCHANGED <<product, contents>>, touched' = touched \/ \E seen : Looked(p, seen),
             remade' = remade \/ remade' = remade \ {p}
      PROVE  Unmoved(q)
  <2>1. touched[q] \subseteq touched'[q] /\ (q \in remade => q \in remade')
    BY <1>1, <1>3 DEF Looked
  <2> QED
    BY <1>1, <1>3, <2>1, NothingMoves
<1>4. CASE Begin(p)
  BY <1>3, <1>4 DEF Begin, BeginSet, BeginRemove, BeginSync, BeginPush, BeginMigrate, BeginPurge, UseBackend,
                    Starts, history
<1>5. CASE Throws(p, {"list", "resolve", "delete", "erase"})
  BY <1>3, <1>5 DEF Throws, history
<1>6. CASE ListToSync(p) \/ ListToPush(p) \/ ListToPurge(p)
  BY <1>3, <1>6 DEF ListToSync, ListToPush, ListToPurge, history
<1>7. CASE Resolve(p) \/ Ask(p)
  BY <1>3, <1>7 DEF Resolve, Ask, history
<1>8. CASE ReadAtOnce(p) \/ ReadLabel(p) \/ Fetch(p) \/ ReadRefused(p)
  BY <1>3, <1>8 DEF ReadAtOnce, ReadLabel, Fetch, ReadRefused, history
<1>9. CASE Compare(p) \/ CheckLabel(p) \/ WriteRefused(p) \/ Switch(p) \/ DeleteLabel(p)
  BY <1>3, <1>9 DEF Compare, CheckLabel, WriteRefused, Switch, DeleteLabel, history
<1>10. CASE Ends(p)
  <2>1. touched'[q] = touched[q] /\ (q \in remade => q \in remade') /\ UNCHANGED <<product, contents>>
    BY <1>1, <1>10 DEF Ends
  <2> QED
    BY <1>1, <2>1, NothingMoves
\* The steps that do.
<1>11. ASSUME NEW s, NEW own, Touch(p, s, k, own) PROVE touched'[q] = Unseen(q, s, k)
  BY <1>11 DEF Touch
<1>12. CASE WriteHere(p)
  <2>1. r.at \in AtKey /\ here' = [here EXCEPT ![k] = r.vals[k]] /\ Touch(p, "here", k, TRUE)
        /\ UNCHANGED <<product, shared, remade>>
    BY <1>12 DEF WriteHere, At, AtKey
  <2> QED
    BY <1>1, <1>2, <1>11, <2>1, HereMoves
<1>13. CASE DeleteHere(p)
  <2>1. r.at \in AtKey /\ here' = [here EXCEPT ![k] = None] /\ Touch(p, "here", k, TRUE)
        /\ UNCHANGED <<product, shared, remade>>
    BY <1>13 DEF DeleteHere, At, AtKey
  <2> QED
    BY <1>1, <1>2, <1>11, <2>1, HereMoves
<1>14. CASE WriteVault(p)
  <2>1. /\ r.at \in AtKey /\ product = "vault" /\ Touch(p, "shared", k, TRUE)
        /\ shared' = [shared EXCEPT ![k] = [held |-> k \in Whole, value |-> r.vals[k]]]
        /\ UNCHANGED <<product, here, remade>>
    BY <1>14 DEF WriteVault, At, AtKey
  <2>2. Slot(k) = k
    BY <2>1 DEF Slot
  <2> QED
    BY <1>1, <1>2, <1>11, <2>1, <2>2, SharedMoves
<1>15. CASE DeleteVault(p)
  <2>1. /\ r.at \in AtKey /\ product = "vault" /\ Touch(p, "shared", k, TRUE)
        /\ shared' = [shared EXCEPT ![k] = Erased(k)]
        /\ UNCHANGED <<product, here, remade>>
    BY <1>15 DEF DeleteVault, At, AtKey
  <2>2. Slot(k) = k
    BY <2>1 DEF Slot
  <2> QED
    BY <1>1, <1>2, <1>11, <2>1, <2>2, SharedMoves
<1>16. CASE CreateSecret(p)
  <2>1. CASE shared[t] = None
    <3>1. /\ r.at \in AtKey /\ Touch(p, "shared", k, TRUE)
          /\ shared' = [shared EXCEPT ![t] = [held |-> k \in Whole, value |-> None]]
          /\ remade' = Remade(k) \ {p}
          /\ UNCHANGED <<product, here>>
      BY <1>16, <2>1 DEF CreateSecret, At, AtKey
    <3>2. /\ q \in remade => q \in remade'
          /\ q \in Remade(k) => q \in remade'
      BY <3>1 DEF Remade
    <3> QED
      BY <1>1, <1>2, <1>11, <3>1, <3>2, SharedMoves
  <2>2. CASE shared[t] # None
    BY <1>3, <1>16, <2>2 DEF CreateSecret, contents
  <2> QED
    BY <2>1, <2>2
<1>17. CASE AddVersion(p)
  <2>1. CASE shared[t] = None
    BY <1>3, <1>17, <2>1 DEF AddVersion, contents
  <2>2. CASE shared[t] # None
    <3>1. /\ r.at \in AtKey /\ Touch(p, "shared", k, Reaches(k))
          /\ shared' = [shared EXCEPT ![t].value = r.vals[k]]
          /\ remade' = remade \ {p}
          /\ UNCHANGED <<product, here>>
      BY <1>17, <2>2 DEF AddVersion, At, AtKey
    <3>2. t \in Keys /\ shared[t] \in [held : BOOLEAN, value : Values]
      BY <1>2, <2>2, <3>1, SlotIs DEF TypeOK
    <3>3. PICK x : x = [shared[t] EXCEPT !.value = r.vals[k]]
      OBVIOUS
    <3>4. shared' = [shared EXCEPT ![t] = x]
      BY <3>1, <3>3, Zenon
    <3>5. x.held = shared[t].held
      BY <3>2, <3>3
    <3>6. touched'[q] = Unseen(q, "shared", k)
      BY <1>11, <3>1
    <3>7. q \in remade => q \in remade'
      BY <3>1
    <3> QED
      BY <1>1, <1>2, <2>2, <3>1, <3>4, <3>5, <3>6, <3>7, SharedMoves, ZenonT(40)
  <2> QED
    BY <2>1, <2>2
<1>18. CASE Erase(p)
  <2>1. /\ r.at \in AtKey /\ Touch(p, "shared", k, TRUE)
        /\ shared' = [shared EXCEPT ![t] = Erased(t)]
        /\ remade' = remade \ {p}
        /\ UNCHANGED <<product, here>>
    BY <1>18 DEF Erase, At, AtKey
  <2>2. product = "gcp-sm" => Erased(t) = None
    BY DEF Erased
  <2> QED
    BY <1>1, <1>2, <1>11, <2>1, <2>2, SharedMoves
<1> QED
  BY <1>4, <1>5, <1>6, <1>7, <1>8, <1>9, <1>10, <1>12, <1>13, <1>14, <1>15, <1>16, <1>17, <1>18 DEF Step

LEMMA ElsewhereUnmoved ==
    ASSUME TypeOK, PlacesInv, NEW k \in Keys, Elsewhere(k), NEW q \in Runs
    PROVE  Unmoved(q)
<1>1. run' = run /\ UNCHANGED <<product, here>> /\ touched'[q] = Unseen(q, "shared", k)
  BY DEF Elsewhere
<1>2. CASE shared' = [shared EXCEPT ![Slot(k)] = [held |-> k \in Whole, value |-> next]]
           /\ remade' = (IF shared[Slot(k)] = None THEN Remade(k) ELSE remade)
           /\ (shared[Slot(k)] = None \/ Reaches(k))
  <2>1. shared[Slot(k)] # None => shared[Slot(k)].held = (k \in Whole)
    BY <1>2 DEF Reaches
  <2>2. q \in remade => q \in remade'
    BY <1>2 DEF Remade
  <2> QED
    BY <1>1, <1>2, <2>1, <2>2, SharedMoves
<1>3. CASE shared' = [shared EXCEPT ![Slot(k)] = Erased(Slot(k))] /\ remade' = remade
  <2>1. product = "gcp-sm" => Erased(Slot(k)) = None
    BY DEF Erased
  <2> QED
    BY <1>1, <1>3, <2>1, SharedMoves
<1> QED
  BY <1>2, <1>3 DEF Elsewhere

LEMMA KnowsKept ==
    ASSUME PlacesInv, KindInv, TypeOK, NEW q \in Runs, Unmoved(q)
    PROVE  ~run'[q].strayed /\ Knows(q, run[q])'
<1> PICK r, t : r = run[q] /\ t = Slot(Key(r))
  OBVIOUS
<1>1. run'[q] = r /\ Slot(Key(r))' = t
  BY DEF Unmoved, Slot
<1>2. ~r.strayed /\ Placed(r) /\ r \in Records
  BY DEF KindInv, PlacesInv, TypeOK
<1>3. SUFFICES ASSUME r.at \in {"fetch", "add", "erase"}
              PROVE  q \in remade' \/ shared'[t] = None \/ Reaches(Key(r))'
  BY <1>1, <1>2 DEF Knows, Reaches, Slot
<1>4. product = "gcp-sm" /\ Running(run[q]) /\ run[q].plan # <<>>
  BY <1>2, <1>3 DEF Placed, Running, AtKey
<1>5. q \in remade' \/ shared'[t] = None \/ (shared[t] # None /\ shared'[t].held = shared[t].held)
  BY <1>4 DEF Unmoved
<1>6. q \in remade \/ shared[t] = None \/ Reaches(Key(r))
  BY <1>3 DEF KindInv, At
<1>7. q \in remade => q \in remade'
  BY DEF Unmoved
<1> QED
  BY <1>1, <1>5, <1>6, <1>7 DEF Reaches

LEMMA SyncKept ==
    ASSUME TypeOK, PlacesInv, NEW q \in Runs, Unmoved(q), run[q].cmd = "sync", SyncOK(q)
    PROVE  SyncOK(q)'
<1> PICK r, k : r = run[q] /\ k = Key(r)
  OBVIOUS
<1>1. run'[q] = r /\ r \in Records /\ Placed(r) /\ touched[q] \subseteq touched'[q]
  BY DEF Unmoved, TypeOK, PlacesInv
<1>2. \A j \in Keys : here'[j] = here[j] \/ j \in touched'[q]
  BY <1>1 DEF Unmoved, Placed
<1>3. r.at \in AtKey => k \in Keys /\ Ahead(r) \subseteq Keys
  BY <1>1, AheadIs DEF Placed
<1>4. \A j \in Plain \ touched'[q] : (r.at = "write" /\ j = k) \/ Told(q, j)'
  <2>1. SUFFICES ASSUME NEW j \in Plain \ touched'[q], ~(r.at = "write" /\ j = k)
                PROVE  Told(q, j)'
    OBVIOUS
  <2>2. here'[j] = here[j] /\ Told(q, j)
    BY <1>1, <1>2, <2>1 DEF SyncOK, Keys
  <2> QED
    BY <1>1, <2>2 DEF Told
<1>5. r.at \in {"read", "fetch", "compare", "write"} => \A j \in Ahead(r) :
          r.said[j] = None /\ (j \in touched'[q] \/ (j \in r.stored <=> here'[j] # None))
  BY <1>1, <1>2, <1>3 DEF SyncOK, AtKey
<1>6. r.at \in {"read", "fetch", "compare"} =>
          r.said[k] = None /\ (k \in touched'[q] \/ (k \in r.stored <=> here'[k] # None))
  BY <1>1, <1>2, <1>3 DEF SyncOK, AtKey
<1>7. r.at = "write" =>
          /\ r.said[k] \in {"create", "update"} /\ ~r.dry /\ r.vals[k] # None
          /\ r.force \/ k \in touched'[q] \/ here'[k] = None
  BY <1>1, <1>2, <1>3 DEF SyncOK, AtKey
<1>8. (r.at = "list" => r.said = Nothing) /\ (r.at = "compare" => r.vals[k] # None)
  BY DEF SyncOK
<1> QED
  BY <1>1, <1>4, <1>5, <1>6, <1>7, <1>8 DEF SyncOK

\* A key that has been carried stays so until others write it.
LEMMA CarriedKept ==
    ASSUME TypeOK, PlacesInv, NEW q \in Runs, Unmoved(q), run[q].cmd = "migrate", NEW j \in Keys, Carried(q, j)
    PROVE  Carried(q, j)'
<1>1. run'[q] = run[q] /\ product' = product /\ touched[q] \subseteq touched'[q]
  BY DEF Unmoved
<1>2. CASE run[q].to = "here"
  <2>1. here'[j] = here[j] \/ j \in touched'[q]
    BY <1>2 DEF Unmoved
  <2> QED
    BY <1>1, <1>2, <2>1 DEF Carried, Value
<1>3. CASE run[q].to = "shared"
  <2>1. Slot(j)' = Slot(j) /\ j \in Beside("shared", j)
    BY <1>1 DEF Slot, Beside
  <2>2. shared'[Slot(j)] = shared[Slot(j)] \/ j \in touched'[q]
    BY <1>3, <2>1 DEF Unmoved
  <2>3. shared'[Slot(j)] = shared[Slot(j)] => Value("shared", j)' = Value("shared", j)
    BY <2>1 DEF Value, Reaches
  <2> QED
    BY <1>1, <1>3, <2>2, <2>3 DEF Carried
<1> QED
  BY <1>2, <1>3 DEF PlacesInv, Placed, Stores

LEMMA MoveKept ==
    ASSUME TypeOK, PlacesInv, NEW q \in Runs, Unmoved(q), run[q].cmd = "migrate", MoveOK(q)
    PROVE  MoveOK(q)'
<1> PICK r, k : r = run[q] /\ k = Key(r)
  OBVIOUS
<1>1. run'[q] = r /\ product' = product /\ r \in Records /\ Placed(r) /\ touched[q] \subseteq touched'[q]
  BY DEF Unmoved, TypeOK, PlacesInv
<1>2. \A j \in Moved(r) : j \in Keys => (Lists(r.from, j) => Carried(q, j))
  BY DEF MoveOK
<1>3. Moved(r) \subseteq Keys
  BY DEF Moved, Passed, Keys
<1>4. \A j \in Moved(r) : Lists(r.from, j)' => Carried(q, j)'
  BY <1>1, <1>2, <1>3, CarriedKept DEF Lists
<1>5. r.at = "add" => shared'[Slot(k)'] = None \/ Reaches(k)' \/ Beside("shared", k)' \subseteq touched'[q]
  <2>1. SUFFICES ASSUME r.at = "add"
                PROVE  shared'[Slot(k)'] = None \/ Reaches(k)' \/ Beside("shared", k)' \subseteq touched'[q]
    OBVIOUS
  <2>2. k \in Keys /\ r.to = "shared"
    BY <1>1, <2>1, AheadIs DEF Placed, AtKey
  <2>3. Slot(k)' = Slot(k) /\ Beside("shared", k)' = Beside("shared", k)
    BY <1>1 DEF Slot, Beside
  <2>4. shared'[Slot(k)] = shared[Slot(k)] \/ Beside("shared", k) \subseteq touched'[q]
    BY <2>2 DEF Unmoved
  <2>5. shared[Slot(k)] = None \/ Reaches(k) \/ Beside("shared", k) \subseteq touched[q]
    BY <2>1 DEF MoveOK
  <2> QED
    BY <1>1, <2>3, <2>4, <2>5 DEF Reaches
<1>6. r.at \in {"write", "check", "add"} =>
          \A j \in Ahead(r) \union {k} : j \in Prefixes[r.prefix] /\ r.vals[j] = r.base[j]
  BY DEF MoveOK
<1> QED
  BY <1>1, <1>4, <1>5, <1>6 DEF MoveOK

-----------------------------------------------------------------------------
(* The steps of a sync.                                                    *)

\* The command is what it was, and says and holds of the other keys what it did.
Elsewise(r, s) ==
    Alike(r, s) /\ \A j \in Keys \ {Key(r)} : s.said[j] = r.said[j] /\ s.vals[j] = r.vals[j]

LEMMA ElsewiseIs ==
    ASSUME NEW r \in Records, NEW s, (\E what : Says(r, s, what)) \/ (\E v : Reads(r, s, v)) \/ Same(r, s)
    PROVE  Elsewise(r, s)
BY DEF Elsewise, Says, Reads, Same, Records, Alike

LEMMA SaidIs ==
    ASSUME NEW r \in Records, NEW k \in Keys, k = Key(r), NEW s, NEW what, Says(r, s, what)
    PROVE  Elsewise(r, s) /\ s.said[k] = what /\ s.vals = r.vals
<1>1. r.said \in [Keys -> Sayings \union {None}]
  BY DEF Records
<1> QED
  BY <1>1, ElsewiseIs, ZenonT(40) DEF Says

\* A sync has read the value of its key, and goes on, compares it or stores it.
LEMMA SyncGotIs ==
    ASSUME NEW r \in Records, Placed(r), r.cmd = "sync", r.at \in {"read", "fetch"}, NEW v \in Values,
           NEW s, s = Got(r, v), NEW k, k = Key(r)
    PROVE  /\ s \in Records /\ Elsewise(r, s)
           /\ \/ /\ GoesOn(r, s, "read", "report")
                 /\ \/ s.said[k] = "local-only" /\ k \in r.stored
                    \/ s.said[k] = "not-found" /\ k \notin r.stored
                    \/ s.said[k] \in {"create", "update"} /\ k \notin r.stored /\ r.dry /\ s.vals[k] # None
              \/ s.at = "compare" /\ s.i = r.i /\ k \in r.stored /\ s.said[k] = r.said[k] /\ s.vals[k] # None
              \/ /\ s.at = "write" /\ s.i = r.i /\ k \notin r.stored
                 /\ s.said[k] \in {"create", "update"} /\ ~r.dry /\ s.vals[k] # None
<1>1. k \in Keys /\ r.said \in [Keys -> Sayings \union {None}] /\ r.vals \in [Keys -> Values]
  BY AheadIs DEF Placed, AtKey, Records
<1>2. s \in Records
  BY SyncGot
<1>3. CASE GoesOn(r, s, "read", "report") /\ Says(r, s, IF k \in r.stored THEN "local-only" ELSE "not-found")
  <2>1. Elsewise(r, s)
    BY <1>3, ElsewiseIs
  <2>2. s.said[k] = IF k \in r.stored THEN "local-only" ELSE "not-found"
    BY <1>1, <1>3 DEF Says
  <2> QED
    BY <1>2, <1>3, <2>1, <2>2
<1>4. CASE v # None /\ k \in r.stored /\ Reads(r, s, v) /\ s.at = "compare"
  <2>1. Elsewise(r, s)
    BY <1>4, ElsewiseIs
  <2>2. s.vals[k] = v /\ s.said = r.said /\ s.i = r.i
    BY <1>1, <1>4 DEF Reads
  <2> QED
    BY <1>2, <1>4, <2>1, <2>2
<1>5. ASSUME v # None, k \notin r.stored,
             NEW t \in Records, Placed(t), Reads(r, t, v), t.at = r.at, s = Decide(t, None)
      PROVE  /\ Elsewise(r, s)
             /\ \/ /\ GoesOn(r, s, "read", "report")
                   /\ s.said[k] \in {"create", "update"} /\ r.dry /\ s.vals[k] # None
                \/ s.at = "write" /\ s.i = r.i /\ s.said[k] \in {"create", "update"} /\ ~r.dry /\ s.vals[k] # None
  <2>1. Key(t) = k /\ t.vals[k] = v /\ t.cmd = "sync" /\ t.at \in AtKey /\ Elsewise(r, t) /\ t.i = r.i
        /\ t.plan = r.plan /\ t.dry = r.dry /\ t.said = r.said
    <3>1. Alike(r, t) /\ t.i = r.i /\ t.said = r.said /\ t.vals = [r.vals EXCEPT ![k] = v]
      BY <1>5 DEF Reads
    <3>2. Key(t) = k /\ t.cmd = "sync" /\ t.at \in AtKey /\ t.plan = r.plan /\ t.dry = r.dry
      BY <1>5, <3>1 DEF Alike, Key, AtKey
    <3>3. t.vals[k] = v /\ Elsewise(r, t)
      BY <1>1, <1>5, <3>1, ElsewiseIs
    <3> QED
      BY <3>1, <3>2, <3>3
  <2>2. \/ \E what \in {"create", "update"} :
               Says(t, s, what) /\ GoesOn(t, s, "read", "report") /\ t.dry
        \/ /\ \E what \in {"create", "update"} : Says(t, s, what)
           /\ s.at = "write" /\ s.i = t.i /\ ~t.dry
    BY <1>5, <2>1, DecideIs
  <2>3. PICK what \in {"create", "update"} : Says(t, s, what)
    BY <2>2
  <2>4. s.said[k] = what /\ s.vals = t.vals
    BY <1>1, <2>1, <2>3 DEF Says
  <2>5. Elsewise(t, s)
    BY <2>3, ElsewiseIs
  <2>6. Elsewise(r, s)
    BY <2>1, <2>5 DEF Elsewise, Alike
  <2>7. GoesOn(t, s, "read", "report") => GoesOn(r, s, "read", "report")
    BY <2>1 DEF GoesOn, Ahead
  <2> QED
    BY <1>5, <2>1, <2>2, <2>3, <2>4, <2>6, <2>7
<1> QED
  BY <1>2, <1>3, <1>4, <1>5, SyncGot

\* A sync is done with a key and goes on to the next name, or reports.
LEMMA SyncOn ==
    ASSUME TypeOK, PlacesInv, NEW p \in Runs, run[p].cmd = "sync",
           run[p].at \in {"read", "fetch", "compare", "write"}, SyncOK(p),
           NEW k, k = Key(run[p]), NEW s \in Records, run'[p] = s,
           Elsewise(run[p], s), GoesOn(run[p], s, "read", "report"),
           \A j \in Keys \ {k} : here'[j] = here[j],
           touched[p] \ {k} \subseteq touched'[p],
           k \in touched'[p] \/ Told(p, k)'
    PROVE  SyncOK(p)'
<1> PICK r : r = run[p]
  OBVIOUS
<1>1. r \in Records /\ Placed(r) /\ r.at \in AtKey /\ r.i \in DOMAIN r.plan
  BY DEF TypeOK, PlacesInv, Placed, AtKey
<1>2. k \in Keys /\ k \notin Ahead(r) /\ Ahead(r) \subseteq Keys
  BY <1>1, AheadIs DEF Placed
<1>3. \A j \in Plain \ touched'[p] : Told(p, j)'
  <2>1. SUFFICES ASSUME NEW j \in Plain \ touched'[p], j # k PROVE Told(p, j)'
    OBVIOUS
  <2>2. Told(p, j) /\ here'[j] = here[j] /\ s.said[j] = r.said[j] /\ s.vals[j] = r.vals[j] /\ s.dry = r.dry
    BY <2>1 DEF SyncOK, Keys, Elsewise, Alike
  <2> QED
    BY <2>2 DEF Told
<1>4. \A j \in Ahead(r) :
          s.said[j] = None /\ (j \in touched'[p] \/ (j \in s.stored <=> here'[j] # None))
  BY <1>2 DEF SyncOK, Elsewise, Alike
<1>5. CASE s.at = "report"
  BY <1>3, <1>5 DEF SyncOK
<1>6. CASE s.at = "read" /\ s.i = r.i + 1 /\ s.i \in DOMAIN r.plan
  <2>1. Ahead(r) = Ahead(s) \union {Key(s)}
    BY <1>1, <1>6, AheadIs DEF Placed, Elsewise, Alike
  <2> QED
    BY <1>3, <1>4, <1>6, <2>1 DEF SyncOK
<1> QED
  BY <1>5, <1>6 DEF GoesOn

\* A sync compares, or stores, the value it has read.
LEMMA SyncStays ==
    ASSUME TypeOK, PlacesInv, NEW p \in Runs, run[p].cmd = "sync",
           run[p].at \in {"read", "fetch", "compare"}, SyncOK(p),
           NEW k, k = Key(run[p]), NEW s \in Records, run'[p] = s,
           Elsewise(run[p], s), s.i = run[p].i, s.vals[k] # None, UNCHANGED here,
           touched[p] \ {k} \subseteq touched'[p],
           \/ /\ s.at = "compare" /\ s.said[k] = None
              /\ k \in touched'[p] \/ (k \in s.stored <=> here[k] # None)
           \/ /\ s.at = "write" /\ s.said[k] \in {"create", "update"} /\ ~s.dry
              /\ s.force \/ k \in touched'[p] \/ here[k] = None
    PROVE  SyncOK(p)'
<1> PICK r : r = run[p]
  OBVIOUS
<1>1. r \in Records /\ Placed(r) /\ r.at \in AtKey /\ r.i \in DOMAIN r.plan
  BY DEF TypeOK, PlacesInv, Placed, AtKey
<1>2. k \in Keys /\ k \notin Ahead(r) /\ Ahead(r) \subseteq Keys
  BY <1>1, AheadIs DEF Placed
<1>3. Key(s) = k /\ Ahead(s) = Ahead(r)
  BY DEF Elsewise, Alike, Key, Ahead
<1>4. ASSUME NEW j \in Plain \ touched'[p], j # k PROVE Told(p, j)'
  <2>1. Told(p, j) /\ s.said[j] = r.said[j] /\ s.vals[j] = r.vals[j] /\ s.dry = r.dry
    BY <1>4 DEF SyncOK, Keys, Elsewise, Alike
  <2> QED
    BY <2>1 DEF Told
<1>5. s.said[k] = None => Told(p, k)'
  BY TransferAssumption DEF TransferAssumption, Sayings, Told
<1>6. \A j \in Ahead(s) :
          s.said[j] = None /\ (j \in touched'[p] \/ (j \in s.stored <=> here'[j] # None))
  BY <1>2, <1>3 DEF SyncOK, Elsewise, Alike
<1>7. \A j \in Plain \ touched'[p] : (s.at = "write" /\ j = k) \/ Told(p, j)'
  BY <1>4, <1>5
<1> QED
  BY <1>3, <1>6, <1>7 DEF SyncOK

LEMMA SyncReads ==
    ASSUME TypeOK, PlacesInv, KindInv, SyncInv, NEW p \in Runs, run[p].cmd = "sync",
           ReadAtOnce(p) \/ ReadLabel(p) \/ Fetch(p) \/ ReadRefused(p)
    PROVE  SyncOK(p)'
<1> PICK r, k, t, s : r = run[p] /\ k = Key(r) /\ t = Slot(k) /\ s = run'[p]
  OBVIOUS
<1>1. /\ r \in Records /\ Placed(r) /\ ~r.strayed /\ r.at \in {"read", "fetch"} /\ r.at \in AtKey /\ k \in Keys
      /\ SyncOK(p) /\ touched \in [Runs -> SUBSET Keys] /\ run \in [Runs -> Records]
  <2>1. /\ r \in Records /\ Placed(r) /\ ~r.strayed /\ r.at \in {"read", "fetch"} /\ r.i \in DOMAIN r.plan
        /\ r.at \in AtKey /\ SyncOK(p) /\ touched \in [Runs -> SUBSET Keys] /\ run \in [Runs -> Records]
    BY DEF TypeOK, PlacesInv, KindInv, SyncInv, ReadAtOnce, ReadLabel, Fetch, ReadRefused, At, Placed, AtKey
  <2> QED
    BY <2>1, AheadIs DEF Placed
<1>2. Value(r.from, k) \in Values /\ None \in Values /\ (shared[t] # None => shared[t].value \in Values)
  BY <1>1, SlotIs DEF Value, TypeOK, Values, Reaches
<1>3. UNCHANGED here /\ touched'[p] = touched[p]
  BY DEF ReadAtOnce, ReadLabel, Fetch, ReadRefused, contents, history
<1>4. ASSUME NEW u \in Records, Same(r, u), u.at = r.at, u.i = r.i, NEW v \in Values, Become(p, Got(u, v))
      PROVE  SyncOK(p)'
  <2>1. s = Got(u, v)
    BY <1>1, <1>4, BecomeIs
  <2>2. Placed(u) /\ u.cmd = "sync" /\ Key(u) = k /\ u.stored = r.stored /\ u.dry = r.dry
    BY <1>1, <1>4 DEF Placed, Same, Alike, Key
  <2>3. /\ s \in Records /\ Elsewise(u, s)
        /\ \/ /\ GoesOn(u, s, "read", "report")
              /\ \/ s.said[k] = "local-only" /\ k \in u.stored
                 \/ s.said[k] = "not-found" /\ k \notin u.stored
                 \/ s.said[k] \in {"create", "update"} /\ k \notin u.stored /\ u.dry /\ s.vals[k] # None
           \/ s.at = "compare" /\ s.i = u.i /\ k \in u.stored /\ s.said[k] = u.said[k] /\ s.vals[k] # None
           \/ /\ s.at = "write" /\ s.i = u.i /\ k \notin u.stored
              /\ s.said[k] \in {"create", "update"} /\ ~u.dry /\ s.vals[k] # None
    BY <1>1, <1>4, <2>1, <2>2, SyncGotIs
  <2>4. Elsewise(r, s) /\ s.stored = r.stored /\ s.dry = r.dry
    BY <1>4, <2>2, <2>3 DEF Elsewise, Same, Alike
  <2>5. r.said[k] = None /\ (k \in touched[p] \/ (k \in r.stored <=> here[k] # None))
    BY <1>1 DEF SyncOK
  <2>6. CASE GoesOn(u, s, "read", "report")
            /\ \/ s.said[k] = "local-only" /\ k \in u.stored
               \/ s.said[k] = "not-found" /\ k \notin u.stored
               \/ s.said[k] \in {"create", "update"} /\ k \notin u.stored /\ u.dry /\ s.vals[k] # None
    <3>1. GoesOn(r, s, "read", "report")
      BY <1>4, <2>6 DEF GoesOn, Same, Alike, Ahead
    <3>2. k \in touched'[p] \/ Told(p, k)'
      <4>1. SUFFICES ASSUME k \in r.stored <=> here[k] # None PROVE Told(p, k)'
        BY <1>3, <2>5
      <4>2. CASE s.said[k] = "local-only" /\ k \in r.stored
        BY <1>3, <4>1, <4>2 DEF Told
      <4>3. CASE s.said[k] = "not-found" /\ k \notin r.stored
        BY <1>3, <4>1, <4>3 DEF Told
      <4>4. CASE s.said[k] \in {"create", "update"} /\ k \notin r.stored /\ r.dry /\ s.vals[k] # None
        BY <1>3, <2>4, <4>1, <4>4 DEF Told
      <4> QED
        BY <2>2, <2>6, <4>2, <4>3, <4>4
    <3> QED
      BY <1>1, <1>3, <2>3, <2>4, <3>1, <3>2, SyncOn
  <2>7. CASE s.at = "compare" /\ s.i = u.i /\ k \in u.stored /\ s.said[k] = u.said[k] /\ s.vals[k] # None
    <3>1. s.i = r.i /\ s.said[k] = None
      BY <1>4, <2>5, <2>7 DEF Same
    <3> QED
      BY <1>1, <1>3, <2>3, <2>4, <2>5, <2>7, <3>1, SyncStays
  <2>8. CASE s.at = "write" /\ s.i = u.i /\ k \notin u.stored
             /\ s.said[k] \in {"create", "update"} /\ ~u.dry /\ s.vals[k] # None
    <3>1. s.i = r.i /\ ~s.dry /\ (k \in touched'[p] \/ here[k] = None)
      BY <1>3, <1>4, <2>2, <2>4, <2>5, <2>8
    <3> QED
      BY <1>1, <1>3, <2>3, <2>4, <2>8, <3>1, SyncStays
  <2> QED
    BY <2>3, <2>6, <2>7, <2>8
<1>5. Same(r, r)
  BY DEF Same, Alike
<1>6. ASSUME Become(p, ReadFailed(r)) PROVE SyncOK(p)'
  <2>1. s = SyncSaid(r, "failed") /\ "failed" \in Sayings
    BY <1>1, <1>6, BecomeIs DEF ReadFailed, Sayings
  <2>2. s \in Records /\ Says(r, s, "failed") /\ GoesOn(r, s, "read", "report")
    BY <1>1, <2>1, SyncSaidIs
  <2>3. Elsewise(r, s) /\ s.said[k] = "failed"
    BY <1>1, <2>2, SaidIs
  <2>4. Told(p, k)'
    BY <2>3 DEF Told
  <2> QED
    BY <1>1, <1>3, <2>2, <2>3, <2>4, SyncOn
<1>7. CASE ReadAtOnce(p)
  BY <1>1, <1>2, <1>4, <1>5, <1>7 DEF ReadAtOnce
<1>8. CASE ReadLabel(p)
  <2>1. CASE Become(p, [r EXCEPT !.at = "fetch"])
    <3>1. s = [r EXCEPT !.at = "fetch"] /\ "fetch" \in Places
      BY <1>1, <2>1, BecomeIs DEF Places
    <3>2. s \in Records /\ Same(r, s) /\ s.at = "fetch" /\ s.i = r.i
      BY <1>1, <3>1, ToIs
    <3>3. Key(s) = k /\ Ahead(s) = Ahead(r)
      BY <3>2 DEF Key, Ahead, Same, Alike
    <3>4. r.at = "read" /\ \A j : Told(p, j) => Told(p, j)'
      BY <1>3, <1>8, <3>2 DEF ReadLabel, At, Told, Same, Alike
    <3> QED
      BY <1>1, <1>3, <3>2, <3>3, <3>4 DEF SyncOK, Same, Alike
  <2> QED
    BY <1>1, <1>2, <1>4, <1>5, <1>6, <1>8, <2>1 DEF ReadLabel
<1>9. CASE Fetch(p)
  <2>1. CASE shared[t] = None
    BY <1>1, <1>2, <1>4, <1>5, <1>9, <2>1 DEF Fetch
  <2>2. CASE shared[t] # None
    <3>1. PICK u : u = Used(p)
      OBVIOUS
    <3>2. u \in Records /\ Same(r, u) /\ u.at = r.at /\ u.i = r.i
      <4>1. p \in remade \/ Reaches(k)
        BY <1>1, <1>9, <2>2 DEF KindInv, At, Fetch
      <4> QED
        BY <1>1, <2>2, <3>1, <4>1, UsedIs
    <3> QED
      BY <1>2, <1>4, <1>9, <2>2, <3>1, <3>2 DEF Fetch
  <2> QED
    BY <2>1, <2>2
<1>10. CASE ReadRefused(p)
  BY <1>6, <1>10 DEF ReadRefused
<1> QED
  BY <1>7, <1>8, <1>9, <1>10

LEMMA SyncCompares ==
    ASSUME TypeOK, PlacesInv, SyncInv, NEW p \in Runs, run[p].cmd = "sync", Compare(p)
    PROVE  SyncOK(p)'
<1> PICK r, k, s : r = run[p] /\ k = Key(r) /\ s = run'[p]
  OBVIOUS
<1>1. /\ r \in Records /\ Placed(r) /\ r.at = "compare" /\ r.at \in AtKey /\ r.i \in DOMAIN r.plan /\ k \in Keys
      /\ SyncOK(p) /\ touched \in [Runs -> SUBSET Keys] /\ run \in [Runs -> Records] /\ UNCHANGED here
  <2>1. /\ r \in Records /\ Placed(r) /\ r.at = "compare" /\ r.i \in DOMAIN r.plan
        /\ r.at \in AtKey /\ SyncOK(p) /\ touched \in [Runs -> SUBSET Keys] /\ run \in [Runs -> Records]
        /\ UNCHANGED here
    BY DEF TypeOK, PlacesInv, SyncInv, Compare, At, Placed, AtKey, contents
  <2> QED
    BY <2>1, AheadIs DEF Placed
<1>2. r.vals[k] # None
  BY <1>1 DEF SyncOK
<1>3. CASE Become(p, Decide(r, here[k])) /\ Looked(p, {k})
  <2>1. s = Decide(r, here[k]) /\ touched'[p] = touched[p] \ {k}
    BY <1>1, <1>3, BecomeIs DEF Looked
  <2>2. s \in Records
    BY <1>1, <1>2, <2>1, DecideIs
  <2>3. PICK what \in Sayings :
           /\ Says(r, s, what)
           /\ \/ /\ GoesOn(r, s, "read", "report")
                 /\ what \in {"unchanged", "conflict", "create", "update"}
                 /\ what = "unchanged" => here[k] = r.vals[k]
                 /\ what = "conflict" => here[k] # None
                 /\ what \in {"create", "update"} => r.dry /\ here[k] # r.vals[k]
              \/ /\ what \in {"create", "update"}
                 /\ s.at = "write" /\ s.i = r.i /\ ~r.dry /\ (r.force \/ here[k] = None)
    <3>1. {"create", "update"} \subseteq Sayings
      BY DEF Sayings
    <3> QED
      BY <1>1, <1>2, <2>1, <3>1, DecideIs
  <2>4. Elsewise(r, s) /\ s.said[k] = what /\ s.vals = r.vals /\ s.dry = r.dry /\ s.force = r.force
    BY <1>1, <2>3, SaidIs DEF Elsewise, Alike
  <2>5. CASE /\ GoesOn(r, s, "read", "report")
             /\ what \in {"unchanged", "conflict", "create", "update"}
             /\ what = "unchanged" => here[k] = r.vals[k]
             /\ what = "conflict" => here[k] # None
             /\ what \in {"create", "update"} => r.dry /\ here[k] # r.vals[k]
    <3>1. Told(p, k)'
      BY <1>1, <2>4, <2>5 DEF Told
    <3> QED
      BY <1>1, <2>1, <2>2, <2>4, <2>5, <3>1, SyncOn
  <2>6. CASE /\ what \in {"create", "update"}
             /\ s.at = "write" /\ s.i = r.i /\ ~r.dry /\ (r.force \/ here[k] = None)
    BY <1>1, <1>2, <2>1, <2>2, <2>4, <2>6, SyncStays
  <2> QED
    BY <2>3, <2>5, <2>6
<1>4. CASE Become(p, SyncSaid(r, "failed")) /\ UNCHANGED touched
  <2>1. s = SyncSaid(r, "failed") /\ "failed" \in Sayings
    BY <1>1, <1>4, BecomeIs DEF Sayings
  <2>2. s \in Records /\ Says(r, s, "failed") /\ GoesOn(r, s, "read", "report")
    BY <1>1, <2>1, SyncSaidIs
  <2>3. Elsewise(r, s) /\ s.said[k] = "failed"
    BY <1>1, <2>2, SaidIs
  <2>4. Told(p, k)'
    BY <2>3 DEF Told
  <2> QED
    BY <1>1, <1>4, <2>2, <2>3, <2>4, SyncOn
<1> QED
  BY <1>3, <1>4 DEF Compare

LEMMA SyncWrites ==
    ASSUME TypeOK, PlacesInv, SyncInv, NEW p \in Runs, run[p].cmd = "sync", WriteHere(p) \/ WriteRefused(p)
    PROVE  SyncOK(p)'
<1> PICK r, k, s : r = run[p] /\ k = Key(r) /\ s = run'[p]
  OBVIOUS
<1>1. /\ r \in Records /\ Placed(r) /\ r.at = "write" /\ r.at \in AtKey /\ k \in Keys
      /\ SyncOK(p) /\ touched \in [Runs -> SUBSET Keys] /\ run \in [Runs -> Records] /\ here \in [Keys -> Values]
  <2>1. /\ r \in Records /\ Placed(r) /\ r.at \in {"write", "check", "add"} /\ r.i \in DOMAIN r.plan
        /\ r.at \in AtKey /\ SyncOK(p) /\ touched \in [Runs -> SUBSET Keys] /\ run \in [Runs -> Records]
        /\ here \in [Keys -> Values]
    BY DEF TypeOK, PlacesInv, SyncInv, WriteHere, WriteRefused, At, Placed, AtKey
  <2>2. r.at = "write"
    BY <2>1 DEF Placed
  <2> QED
    BY <2>1, <2>2, AheadIs DEF Placed
<1>2. r.said[k] \in {"create", "update"} /\ ~r.dry /\ r.vals[k] # None
  BY <1>1 DEF SyncOK
<1>3. "failed" \in Sayings /\ r.said[k] \in Sayings
  BY <1>2 DEF Sayings
<1>4. CASE WriteHere(p)
  <2>1. /\ here'[k] = r.vals[k] /\ \A j \in Keys \ {k} : here'[j] = here[j]
        /\ touched'[p] = touched[p] \ {k}
    BY <1>1, <1>4 DEF WriteHere, Touch
  <2>2. PICK u : u = Noted(r)
    OBVIOUS
  <2>3. u \in Records /\ Alike(r, u) /\ u.vals = r.vals /\ u.said = r.said /\ u.at = r.at /\ u.i = r.i
        /\ Key(u) = k /\ Placed(u) /\ Ahead(u) = Ahead(r)
    BY <1>1, <2>2, NotedIs
  <2>4. PICK what \in Sayings : s = SyncSaid(u, what) /\ what \in {r.said[k], "failed"}
    <3>1. PICK ok \in BOOLEAN : Become(p, Written(u, ok))
      BY <1>4, <2>2 DEF WriteHere
    <3>2. s = Written(u, ok) /\ u.cmd = "sync"
      BY <1>1, <2>3, <3>1, BecomeIs DEF Alike
    <3> QED
      BY <1>3, <2>3, <3>2 DEF Written
  <2>5. s \in Records /\ Says(u, s, what) /\ GoesOn(u, s, "read", "report") /\ u.cmd = "sync"
    BY <1>1, <2>3, <2>4, SyncSaidIs DEF Alike
  <2>6. Elsewise(u, s) /\ s.said[k] = what /\ s.vals = u.vals
    BY <1>1, <2>3, <2>5, SaidIs
  <2>7. Elsewise(r, s) /\ GoesOn(r, s, "read", "report")
    BY <2>3, <2>5, <2>6 DEF Elsewise, Alike, GoesOn
  <2>8. Told(p, k)'
    BY <1>2, <2>1, <2>3, <2>4, <2>6, <2>7 DEF Told, Elsewise, Alike
  <2> QED
    BY <1>1, <2>1, <2>5, <2>7, <2>8, SyncOn
<1>5. CASE WriteRefused(p)
  <2>1. s = SyncSaid(r, "failed") /\ UNCHANGED <<here, touched>>
    BY <1>1, <1>5, BecomeIs DEF WriteRefused, Written, contents, history
  <2>2. s \in Records /\ Says(r, s, "failed") /\ GoesOn(r, s, "read", "report")
    BY <1>1, <1>3, <2>1, SyncSaidIs
  <2>3. Elsewise(r, s) /\ s.said[k] = "failed"
    BY <1>1, <2>2, SaidIs
  <2>4. Told(p, k)'
    BY <2>3 DEF Told
  <2> QED
    BY <1>1, <2>1, <2>2, <2>3, <2>4, SyncOn
<1> QED
  BY <1>4, <1>5

\* A step by which a process becomes, or stays, a sync.
LEMMA SyncSteps ==
    ASSUME TypeOK, PlacesInv, KindInv, SyncInv, NEW p \in Runs, Step(p), run'[p].cmd = "sync"
    PROVE  SyncOK(p)'
<1> PICK r, s : r = run[p] /\ s = run'[p]
  OBVIOUS
<1>1. /\ r \in Records /\ Placed(r) /\ run \in [Runs -> Records] /\ touched \in [Runs -> SUBSET Keys]
      /\ r.cmd = "sync" => SyncOK(p)
  BY DEF TypeOK, PlacesInv, SyncInv
<1>2. s.cmd = "sync" /\ (~Begin(p) => r.cmd = "sync" /\ s # Over)
  BY Continues, TransferAssumption DEF TransferAssumption, Kinds
<1>3. CASE Begin(p)
  <2>1. s.at = "list" /\ s.said = Nothing
    BY <1>2, <1>3, BeginIs, TransferAssumption DEF TransferAssumption, Kinds
  <2>2. \A j \in Plain : Told(p, j)'
    BY <2>1, TransferAssumption DEF TransferAssumption, Sayings, Told, Nothing, Keys
  <2> QED
    BY <2>1, <2>2 DEF SyncOK
<1>4. CASE Throws(p, {"list", "resolve", "delete", "erase"})
  <2>1. s = Thrown(r)
    BY <1>1, <1>4, BecomeIs DEF Throws
  <2>2. s.at = "report" /\ s.said = Nothing
    <3>1. Over.cmd # "sync"
      BY TransferAssumption DEF TransferAssumption, Kinds, Over, Blank
    <3> QED
      BY <1>1, <1>2, <2>1, <3>1, ThrownIs
  <2>3. \A j \in Plain : Told(p, j)'
    BY <2>2, TransferAssumption DEF TransferAssumption, Sayings, Told, Nothing, Keys
  <2> QED
    BY <2>2, <2>3 DEF SyncOK
<1>5. CASE ListToSync(p)
  <2>1. /\ s = [r EXCEPT !.at = "read", !.stored = {k \in Plain : here[k] # None}]
        /\ r.at = "list" /\ r.cmd = "sync" /\ UNCHANGED here
    BY <1>1, <1>5, BecomeIs DEF ListToSync, At, contents
  <2>2. s.at = "read" /\ s.said = Nothing /\ s.stored = {k \in Plain : here[k] # None} /\ s.plan = Ordered[Plain]
        /\ s.i = 1
    BY <1>1, <2>1 DEF SyncOK, Records, Placed
  <2>3. ASSUME NEW j \in Plain PROVE s.said[j] = None /\ (j \in s.stored <=> here'[j] # None)
    BY <2>1, <2>2 DEF Nothing, Keys
  <2>4. \A j \in Plain : Told(p, j)'
    BY <2>3, TransferAssumption DEF TransferAssumption, Sayings, Told
  <2>5. Key(s) \in Plain /\ Ahead(s) \subseteq Plain
    <3>1. Plain \in SUBSET Keys /\ Plain # {}
      BY TransferAssumption DEF TransferAssumption, Keys
    <3> QED
      BY <2>2, <3>1, OrderedIs DEF Key, Ahead
  <2> QED
    BY <2>2, <2>3, <2>4, <2>5 DEF SyncOK
<1>6. CASE ReadAtOnce(p) \/ ReadLabel(p) \/ Fetch(p) \/ ReadRefused(p)
  <2>1. r.at \in {"read", "fetch"}
    BY <1>6 DEF ReadAtOnce, ReadLabel, Fetch, ReadRefused, At
  <2>2. r.cmd = "sync"
    BY <1>2, <2>1, BeginIs
  <2> QED
    BY <1>6, <2>2, SyncReads
<1>7. CASE Compare(p)
  <2>1. r.cmd = "sync"
    BY <1>1, <1>7 DEF Compare, At, Placed
  <2> QED
    BY <1>7, <2>1, SyncCompares
<1>8. CASE (WriteHere(p) \/ WriteRefused(p)) /\ ~Begin(p)
  BY <1>2, <1>8, SyncWrites
\* No other action is a sync's.
<1>9. CASE ~Begin(p) /\ (ListToPush(p) \/ ListToPurge(p) \/ Resolve(p) \/ Ask(p) \/ WriteVault(p) \/ CreateSecret(p)
                        \/ CheckLabel(p) \/ AddVersion(p) \/ Switch(p) \/ Ends(p)
                        \/ DeleteHere(p) \/ DeleteVault(p) \/ DeleteLabel(p) \/ Erase(p))
  <2>1. r.cmd = "sync" /\ s # Over
    BY <1>2, <1>9
  <2> QED
    BY <1>1, <1>9, <2>1, BecomeIs DEF Placed, At, ListToPush, ListToPurge, Resolve, Ask, WriteVault, CreateSecret,
       CheckLabel, AddVersion, Switch, Ends, DeleteHere, DeleteVault, DeleteLabel, Erase
<1> QED
  BY <1>3, <1>4, <1>5, <1>6, <1>7, <1>8, <1>9 DEF Step

-----------------------------------------------------------------------------
(* The steps of a push.                                                    *)

\* A push has written its key, or has not; it goes on with the next or stops.
LEMMA PushWrote ==
    ASSUME NEW r \in Records, Placed(r), r.cmd = "push", r.at \in {"write", "check", "add"}, PushOK(r),
           NEW k, k = Key(r), NEW w \in Records, Placed(w), Alike(r, w), w.said = r.said, w.at = r.at, w.i = r.i,
           w.wrote = r.wrote \/ w.wrote = r.wrote \union {k},
           NEW ok \in BOOLEAN, ok => k \in w.wrote, NEW s, s = Written(w, ok)
    PROVE  PushOK(s)
<1>1. r.at \in AtKey /\ r.i \in DOMAIN r.plan /\ r.plan = Ordered[Plain] /\ "failed" \in Sayings
  BY DEF Placed, AtKey, Sayings
<1>2. k \in Plain /\ Plain \subseteq Keys
  <2>1. Plain \in SUBSET Keys
    BY DEF Keys
  <2> QED
    BY <1>1, <2>1, OrderedIs DEF Key
<1>3. k \notin Ahead(r) /\ Ahead(r) \subseteq Keys
  BY <1>1, AheadIs DEF Placed
<1>4. Key(w) = k /\ Ahead(w) = Ahead(r) /\ w.cmd = "push" /\ w.at \in AtKey /\ ~r.dry /\ ~w.dry
  BY <1>1 DEF Key, Ahead, Alike, PushOK
<1>5. \A j \in Keys : IF j \in r.wrote THEN j \in Plain \ (Ahead(r) \union {k}) /\ r.said[j] = "pushed"
                      ELSE r.said[j] = None
  BY DEF PushOK
<1>6. None \notin {"pushed", "failed", "skipped"}
  BY TransferAssumption DEF TransferAssumption, Sayings
<1>7. w.wrote \subseteq Keys /\ r.wrote \subseteq Keys
  BY DEF Records
<1>8. CASE ok
  <2>1. s = PushGoesOn(w)
    BY <1>4, <1>8 DEF Written
  <2>2. s \in Records /\ Says(w, s, "pushed") /\ GoesOn(w, s, "write", "report")
    BY <1>4, <2>1, PushWritesOn
  <2>3. s.said[k] = "pushed" /\ (\A j \in Keys \ {k} : s.said[j] = r.said[j]) /\ s.wrote = w.wrote /\ ~s.dry
        /\ s.plan = r.plan
    BY <1>2, <1>4, <2>2, SaidIs DEF Elsewise, Says, Alike
  <2>4. CASE s.at = "write" /\ s.i = r.i + 1 /\ s.i \in DOMAIN r.plan
    <3>1. Ahead(r) = Ahead(s) \union {Key(s)}
      BY <1>1, <2>2, <2>3, <2>4, AheadIs DEF Placed
    <3>2. ASSUME NEW j \in Keys
          PROVE  IF j \in s.wrote THEN j \in Plain \ (Ahead(s) \union {Key(s)}) /\ s.said[j] = "pushed"
                 ELSE s.said[j] = None
      <4>1. CASE j = k
        BY <1>2, <1>3, <1>8, <2>3, <3>1, <4>1
      <4>2. CASE j # k
        BY <1>5, <2>3, <3>1, <4>2
      <4> QED
        BY <4>1, <4>2
    <3> QED
      BY <2>3, <2>4, <3>2 DEF PushOK
  <2>5. CASE s.at = "report"
    <3>1. \A j \in Keys : j \in s.wrote => s.said[j] \in {"pushed", "failed"}
      BY <1>5, <2>3
    <3>2. \A j \in Keys : s.said[j] = "pushed" => j \in s.wrote
      BY <1>5, <1>6, <1>8, <2>3
    <3>3. \A j \in Keys : s.said[j] # "failed"
      BY <1>5, <1>6, <2>3
    <3>4. ~((\A j \in Plain : s.said[j] = None) \/ s.dry)
      BY <1>2, <1>6, <2>3
    <3> QED
      BY <2>5, <3>1, <3>2, <3>3, <3>4 DEF PushOK
  <2> QED
    BY <2>2, <2>4, <2>5 DEF GoesOn, Alike
<1>9. CASE ~ok
  <2>1. s = PushStopped(w, "failed")
    BY <1>4, <1>9 DEF Written
  <2>2. /\ s.at = "report" /\ s.wrote = w.wrote /\ s.dry = w.dry
        /\ \A j \in Keys : s.said[j] = IF j = k THEN "failed" ELSE IF j \in Ahead(r) THEN "skipped" ELSE r.said[j]
    BY <1>1, <1>4, <2>1, PushStoppedIs DEF Alike
  <2>3. \A j \in Keys : j \in s.wrote => s.said[j] \in {"pushed", "failed"}
    BY <1>5, <2>2
  <2>4. \A j \in Keys : s.said[j] = "pushed" => j \in s.wrote
    BY <1>5, <1>6, <2>2
  <2>5. \A j \in Keys : s.said[j] = "failed" => j = k
    BY <1>5, <1>6, <2>2
  <2>6. ~((\A j \in Plain : s.said[j] = None) \/ s.dry)
    BY <1>2, <1>4, <1>6, <2>2
  <2> QED
    BY <2>2, <2>3, <2>4, <2>5, <2>6 DEF PushOK
<1> QED
  BY <1>8, <1>9

\* A push that has written nothing reports on no key.
LEMMA PushCutShort ==
    ASSUME NEW s, s.at = "report", s.said = Nothing, s.wrote = {}
    PROVE  PushOK(s)
<1>1. \A j \in Keys : s.said[j] = None
  BY DEF Nothing
<1>2. None \notin {"pushed", "failed"}
  BY TransferAssumption DEF TransferAssumption, Sayings
<1> QED
  BY <1>1, <1>2 DEF PushOK

LEMMA PushThrown ==
    ASSUME NEW r \in Records, Placed(r), r.cmd = "push", r.wrote = {}, NEW s, s = Thrown(r)
    PROVE  PushOK(s)
<1>1. s = [r EXCEPT !.at = "report", !.said = Nothing]
  BY DEF Thrown
<1>2. s.at = "report" /\ s.said = Nothing /\ s.wrote = {}
  BY <1>1 DEF Records
<1> QED
  BY <1>2, PushCutShort

LEMMA PushAsks ==
    ASSUME TypeOK, PlacesInv, PushInv, NEW p \in Runs, run[p].cmd = "push", Ask(p)
    PROVE  PushOK(run'[p])
<1> PICK r, k, s : r = run[p] /\ k = Key(r) /\ s = run'[p]
  OBVIOUS
<1>1. /\ r \in Records /\ Placed(r) /\ r.at = "ask" /\ r.at \in AtKey /\ r.dry /\ r.i \in DOMAIN r.plan
      /\ run \in [Runs -> Records] /\ PushOK(r)
  BY DEF TypeOK, PlacesInv, PushInv, Ask, At, Placed, AtKey
<1>2. k \in Keys
  BY <1>1, AheadIs DEF Placed
<1>3. r.wrote = {} /\ \A j \in Keys : r.said[j] \in {None, "would-create", "would-add-version"}
  BY <1>1 DEF PushOK
<1>4. {"would-create", "would-add-version", "would-refuse", "failed"} \subseteq Sayings
      /\ None \notin {"pushed", "failed"}
  BY TransferAssumption DEF TransferAssumption, Sayings
<1>5. ASSUME NEW what \in {"would-refuse", "failed"}, s = PushStopped(r, what)
      PROVE  PushOK(s)
  <2>1. /\ s.at = "report" /\ s.wrote = {}
        /\ \A j \in Keys : s.said[j] = IF j = k THEN what ELSE IF j \in Ahead(r) THEN "skipped" ELSE r.said[j]
    BY <1>1, <1>3, <1>4, <1>5, PushStoppedIs
  <2>2. \A j \in Keys : s.said[j] # "pushed" /\ (s.said[j] = "failed" => j = k)
    BY <1>3, <1>4, <1>5, <2>1
  <2> QED
    BY <2>1, <2>2 DEF PushOK
<1>6. ASSUME NEW what \in {"would-create", "would-add-version"},
             s = Onward(Say(r, what), "ask", Report(Say(r, what)))
      PROVE  PushOK(s)
  <2>1. s \in Records /\ Says(r, s, what) /\ GoesOn(r, s, "ask", "report")
    BY <1>1, <1>4, <1>6, AskedIs
  <2>2. s.wrote = {} /\ s.said[k] = what /\ \A j \in Keys \ {k} : s.said[j] = r.said[j]
    <3>1. Elsewise(r, s) /\ s.said[k] = what
      BY <1>1, <1>2, <2>1, SaidIs
    <3> QED
      BY <1>3, <2>1, <3>1 DEF Elsewise, Says
  <2>3. \A j \in Keys : s.said[j] \in {None, "would-create", "would-add-version"}
    BY <1>3, <1>6, <2>2
  <2> QED
    BY <1>4, <2>1, <2>2, <2>3 DEF PushOK, GoesOn
<1>7. \/ s = PushStopped(r, "would-refuse") \/ s = PushStopped(r, "failed")
      \/ \E what \in {"would-create", "would-add-version"} :
            s = Onward(Say(r, what), "ask", Report(Say(r, what)))
  BY <1>1, BecomeIs DEF Ask
<1> QED
  BY <1>5, <1>6, <1>7

LEMMA PushReads ==
    ASSUME TypeOK, PlacesInv, KindInv, PushInv, NEW p \in Runs, run[p].cmd = "push",
           ReadAtOnce(p) \/ ReadLabel(p) \/ Fetch(p) \/ ReadRefused(p)
    PROVE  PushOK(run'[p])
<1> PICK r, k, t, s : r = run[p] /\ k = Key(r) /\ t = Slot(k) /\ s = run'[p]
  OBVIOUS
<1>1. /\ r \in Records /\ Placed(r) /\ ~r.strayed /\ r.at \in {"read", "fetch"} /\ r.i \in DOMAIN r.plan
      /\ run \in [Runs -> Records] /\ PushOK(r)
  BY DEF TypeOK, PlacesInv, KindInv, PushInv, ReadAtOnce, ReadLabel, Fetch, ReadRefused, At, Placed, AtKey
<1>2. k \in Keys /\ r.said = Nothing /\ r.wrote = {} /\ ~r.dry
  BY <1>1, AheadIs DEF Placed, PushOK
<1>3. Value(r.from, k) \in Values /\ None \in Values /\ (shared[t] # None => shared[t].value \in Values)
  BY <1>2, SlotIs DEF Value, TypeOK, Values, Reaches
<1>4. ASSUME NEW u \in Records, Same(r, u), u.at = r.at, u.i = r.i, NEW v \in Values, s = Got(u, v)
      PROVE  PushOK(s)
  <2>1. Placed(u) /\ u.cmd = "push" /\ u.said = Nothing /\ u.wrote = {} /\ ~u.dry
    BY <1>1, <1>2, <1>4 DEF Placed, Same, Alike
  <2>2. /\ Alike(u, s) /\ s.wrote = {} /\ s \in Records
        /\ s.said = Nothing /\ s.at \in {"read", "write", "report"}
    BY <1>1, <1>4, <2>1, PushGot
  <2>3. CASE s.at = "report"
    BY <2>2, <2>3, PushCutShort
  <2>4. CASE s.at \in {"read", "write"}
    <3>1. ~s.dry /\ \A j \in Keys : s.said[j] = None
      BY <2>1, <2>2 DEF Alike, Nothing
    <3> QED
      BY <2>2, <2>4, <3>1 DEF PushOK
  <2> QED
    BY <2>2, <2>3, <2>4
<1>5. Same(r, r)
  BY DEF Same, Alike
<1>6. CASE s = ReadFailed(r)
  BY <1>1, <1>2, <1>6, PushThrown DEF ReadFailed
<1>7. CASE s = [r EXCEPT !.at = "fetch"]
  <2>1. s.at = "fetch" /\ s.said = Nothing /\ s.wrote = {} /\ ~s.dry
    BY <1>1, <1>2, <1>7 DEF Records
  <2> QED
    BY <2>1 DEF PushOK
<1>8. CASE \E v \in Values : s = Got(r, v)
  BY <1>1, <1>4, <1>5, <1>8
<1>9. CASE Fetch(p) /\ shared[t] # None
  <2>1. PICK u : u = Used(p)
    OBVIOUS
  <2>2. p \in remade \/ Reaches(k)
    BY <1>1, <1>9 DEF KindInv, At, Fetch
  <2>3. u \in Records /\ Same(r, u) /\ u.at = r.at /\ u.i = r.i
    BY <1>1, <2>1, <2>2, UsedIs
  <2>4. s = Got(u, shared[t].value)
    BY <1>1, <1>9, <2>1, BecomeIs DEF Fetch
  <2> QED
    BY <1>3, <1>4, <1>9, <2>3, <2>4
<1>10. \/ s = ReadFailed(r) \/ s = [r EXCEPT !.at = "fetch"] \/ \E v \in Values : s = Got(r, v)
       \/ Fetch(p) /\ shared[t] # None
  BY <1>1, <1>3, BecomeIs DEF ReadAtOnce, ReadLabel, Fetch, ReadRefused
<1> QED
  BY <1>6, <1>7, <1>8, <1>9, <1>10

LEMMA PushWrites ==
    ASSUME TypeOK, PlacesInv, KindInv, SyncInv, PushInv, NEW p \in Runs, run[p].cmd = "push",
           WriteHere(p) \/ WriteVault(p) \/ CreateSecret(p) \/ CheckLabel(p) \/ AddVersion(p) \/ WriteRefused(p)
    PROVE  PushOK(run'[p])
<1> PICK r, k, t, s : r = run[p] /\ k = Key(r) /\ t = Slot(k) /\ s = run'[p]
  OBVIOUS
<1>1. /\ r \in Records /\ Placed(r) /\ ~r.strayed /\ r.at \in {"write", "check", "add"} /\ k \in Keys
      /\ run \in [Runs -> Records] /\ PushOK(r)
  <2>1. At(p, {"write", "check", "add"})
    BY DEF WriteHere, WriteVault, CreateSecret, CheckLabel, AddVersion, WriteRefused, At
  <2> QED
    BY <2>1, AtWrite DEF TypeOK, PushInv
<1>2. Alike(r, r)
  BY DEF Alike
<1>3. CASE s = Written(r, FALSE)
  BY <1>1, <1>2, <1>3, PushWrote
<1>4. CASE s = [r EXCEPT !.at = "add"] \/ s = [r EXCEPT !.at = "check"]
  <2>1. s.at \in {"add", "check"} /\ Same(r, s) /\ s.i = r.i
    BY <1>1, <1>4 DEF Records, Same, Alike
  <2>2. Key(s) = k /\ Ahead(s) = Ahead(r)
    BY <2>1 DEF Key, Ahead, Same, Alike
  <2> QED
    BY <1>1, <2>1, <2>2 DEF PushOK, Same, Alike
<1>5. ASSUME NEW u \in Records, Same(r, u), u.at = r.at, u.i = r.i, NEW ok \in BOOLEAN, s = Written(Noted(u), ok)
      PROVE  PushOK(s)
  <2>1. PICK w : w = Noted(u)
    OBVIOUS
  <2>2. Placed(u) /\ Key(u) = k
    BY <1>1, <1>5 DEF Placed, Same, Alike, Key
  <2>3. w \in Records /\ Placed(w) /\ Alike(u, w) /\ w.said = u.said /\ w.at = u.at /\ w.i = u.i
        /\ w.wrote = u.wrote \union {k}
    BY <1>1, <2>1, <2>2, NotedIs
  <2>4. Alike(r, w) /\ w.said = r.said /\ w.at = r.at /\ w.i = r.i /\ w.wrote = r.wrote \union {k}
    BY <1>5, <2>3 DEF Same, Alike
  <2> QED
    BY <1>1, <1>5, <2>1, <2>3, <2>4, PushWrote
<1>6. CASE WriteVault(p)
  <2>1. Same(r, r)
    BY DEF Same, Alike
  <2>2. \E ok \in BOOLEAN : s = Written(Noted(r), ok)
    BY <1>1, <1>6, BecomeIs DEF WriteVault
  <2> QED
    BY <1>1, <1>5, <2>1, <2>2
<1>7. CASE AddVersion(p) /\ shared[t] # None
  <2>1. PICK u : u = Used(p)
    OBVIOUS
  <2>2. p \in remade \/ Reaches(k)
    BY <1>1, <1>7 DEF KindInv, At, AddVersion
  <2>3. u \in Records /\ Same(r, u) /\ u.at = r.at /\ u.i = r.i
    BY <1>1, <2>1, <2>2, UsedIs
  <2>4. \E ok \in BOOLEAN : s = Written(Noted(u), ok)
    BY <1>1, <1>7, <2>1, BecomeIs DEF AddVersion
  <2> QED
    BY <1>5, <2>3, <2>4
<1>8. ~WriteHere(p)
  BY <1>1 DEF WriteHere, Placed
<1> QED
  BY <1>1, <1>3, <1>4, <1>6, <1>7, <1>8, BecomeIs DEF CreateSecret, CheckLabel, AddVersion, WriteRefused

\* A step by which a process becomes, or stays, a push.
LEMMA PushSteps ==
    ASSUME TypeOK, PlacesInv, KindInv, SyncInv, PushInv, NEW p \in Runs, Step(p), run'[p].cmd = "push"
    PROVE  PushOK(run'[p])
<1> PICK r, s : r = run[p] /\ s = run'[p]
  OBVIOUS
<1>1. /\ r \in Records /\ Placed(r) /\ run \in [Runs -> Records]
      /\ r.cmd = "push" => PushOK(r)
  BY DEF TypeOK, PlacesInv, PushInv
<1>2. s.cmd = "push" /\ (~Begin(p) => r.cmd = "push" /\ s # Over)
  BY Continues, TransferAssumption DEF TransferAssumption, Kinds
<1>3. CASE Begin(p)
  <2>1. s.at = "list" /\ s.said = Nothing /\ s.wrote = {}
    BY <1>2, <1>3, BeginIs, TransferAssumption DEF TransferAssumption, Kinds
  <2> QED
    BY <2>1 DEF PushOK
<1>4. SUFFICES ASSUME ~Begin(p) PROVE PushOK(s)
  BY <1>3
<1>5. r.cmd = "push" /\ s # Over /\ PushOK(r)
  BY <1>1, <1>2, <1>4
<1>6. CASE Throws(p, {"list", "resolve", "delete", "erase"})
  <2>1. s = Thrown(r) /\ r.wrote = {}
    BY <1>1, <1>5, <1>6, BecomeIs DEF Throws, At, Placed, PushOK
  <2> QED
    BY <1>1, <1>5, <2>1, PushThrown
<1>7. CASE ListToPush(p)
  <2>1. r.at = "list" /\ r.said = Nothing /\ r.wrote = {}
    BY <1>5, <1>7 DEF ListToPush, At, PushOK
  <2>2. CASE s = Thrown(r)
    BY <1>1, <1>5, <2>1, <2>2, PushThrown
  <2>3. CASE s = [r EXCEPT !.at = IF r.dry THEN "ask" ELSE "read"]
    <3>1. s.at = (IF r.dry THEN "ask" ELSE "read") /\ s.dry = r.dry /\ s.said = Nothing /\ s.wrote = {}
      BY <1>1, <2>1, <2>3 DEF Records
    <3>2. \A j \in Keys : s.said[j] = None
      BY <3>1 DEF Nothing
    <3> QED
      BY <3>1, <3>2 DEF PushOK
  <2> QED
    BY <1>1, <1>7, <2>2, <2>3, BecomeIs DEF ListToPush
<1>8. CASE Ask(p)
  BY <1>5, <1>8, PushAsks
<1>9. CASE ReadAtOnce(p) \/ ReadLabel(p) \/ Fetch(p) \/ ReadRefused(p)
  BY <1>5, <1>9, PushReads
<1>10. CASE WriteHere(p) \/ WriteVault(p) \/ CreateSecret(p) \/ CheckLabel(p) \/ AddVersion(p) \/ WriteRefused(p)
  BY <1>5, <1>10, PushWrites
\* No other action is a push's.
<1>11. CASE Switch(p) \/ Ends(p)
  BY <1>1, <1>5, <1>11, BecomeIs DEF Switch, Ends
<1>12. CASE ListToSync(p) \/ ListToPurge(p) \/ Resolve(p) \/ Compare(p)
  BY <1>1, <1>5, <1>12 DEF Placed, At, ListToSync, ListToPurge, Resolve, Compare
<1>13. CASE DeleteHere(p) \/ DeleteVault(p) \/ DeleteLabel(p) \/ Erase(p)
  BY <1>1, <1>5, <1>13 DEF Placed, At, DeleteHere, DeleteVault, DeleteLabel, Erase
<1> QED
  BY <1>4, <1>6, <1>7, <1>8, <1>9, <1>10, <1>11, <1>12, <1>13 DEF Step

-----------------------------------------------------------------------------
(* The steps of a migration.                                               *)

\* Where a migration comes to after a key.
AfterKey(r, s) ==
    \/ s.at = "write" /\ s.i = r.i + 1 /\ s.i \in DOMAIN r.plan /\ s.prefix = r.prefix
    \/ Ahead(r) = {} /\ r.prefix = 1 /\ s.at = "resolve" /\ s.prefix = 2
    \/ Ahead(r) = {} /\ r.prefix = 2 /\ s.at = "switch"

\* The command after the write of its key, whether the write succeeded or not.
LEMMA MigratedOn ==
    ASSUME NEW r \in Records, Placed(r), r.cmd = "migrate", r.at \in {"write", "check", "add"},
           NEW k, k = Key(r), NEW w \in Records, Placed(w), Alike(r, w), w.vals = r.vals, w.said = r.said,
           w.at = r.at, w.i = r.i, w.prefix = r.prefix,
           NEW ok \in BOOLEAN, NEW s, s = Written(w, ok), s # Over
    PROVE  /\ s \in Records /\ Elsewise(r, s) /\ s.vals = r.vals /\ AfterKey(r, s)
           /\ s.said[k] = IF ok THEN "migrated" ELSE "failed"
<1>1. k \in Keys /\ Key(w) = k /\ Ahead(w) = Ahead(r) /\ w.cmd = "migrate"
  BY AheadIs DEF Key, Ahead, Alike, Placed, AtKey
<1>2. PICK what : what = IF ok THEN "migrated" ELSE "failed"
  OBVIOUS
<1>3. what \in Sayings /\ s = Migrated(w, what)
  BY <1>1, <1>2 DEF Sayings, Written
<1>4. s \in Records /\ Says(w, s, what) /\ AfterKey(w, s)
  BY <1>1, <1>3, MigratedIs DEF AfterKey
<1>5. Elsewise(w, s) /\ s.said[k] = what /\ s.vals = w.vals
  BY <1>1, <1>4, SaidIs
<1>6. Elsewise(r, s)
  BY <1>1, <1>5 DEF Elsewise, Alike
<1>7. AfterKey(r, s)
  BY <1>1, <1>4 DEF AfterKey, Alike
<1> QED
  BY <1>2, <1>4, <1>5, <1>6, <1>7

LEMMA MovedIs ==
    ASSUME NEW r \in Records, Placed(r), r.cmd = "migrate", r.at \in {"write", "check", "add"},
           NEW k, k = Key(r), k \in Prefixes[r.prefix]
    PROVE  /\ k \notin Moved(r) /\ Moved(r) \subseteq Keys
           /\ \A s \in Records : Alike(r, s) /\ AfterKey(r, s) =>
                 /\ Moved(s) \subseteq Moved(r) \union {k}
                 /\ s.at = "write" => Ahead(s) \union {Key(s)} = Ahead(r)
<1>1. r.prefix \in {1, 2} /\ Prefixes[1] = Plain /\ Prefixes[2] = Whole /\ Plain \intersect Whole = {}
  <2>1. r.prefix \in 1..2
    BY DEF Records
  <2> QED
    BY <2>1, TransferAssumption DEF TransferAssumption, Prefixes
<1>2. k \notin Moved(r) /\ Moved(r) \subseteq Keys
  BY <1>1 DEF Moved, Passed, Keys
<1>3. ASSUME NEW s \in Records, Alike(r, s), AfterKey(r, s)
      PROVE  /\ Moved(s) \subseteq Moved(r) \union {k}
             /\ s.at = "write" => Ahead(s) \union {Key(s)} = Ahead(r)
  <2>1. s.skipped = r.skipped
    BY <1>3 DEF Alike
  <2>2. CASE s.at = "write" /\ s.i = r.i + 1 /\ s.i \in DOMAIN r.plan /\ s.prefix = r.prefix
    <3>1. Ahead(r) = Ahead(s) \union {Key(s)}
      BY <1>3, <2>2, AheadIs DEF Placed, AtKey, Alike
    <3> QED
      BY <2>2, <2>1, <3>1 DEF Moved, Passed
  <2>3. CASE Ahead(r) = {} /\ r.prefix = 1 /\ s.at = "resolve" /\ s.prefix = 2
    BY <2>3, <2>1 DEF Moved, Passed
  <2>4. CASE Ahead(r) = {} /\ r.prefix = 2 /\ s.at = "switch"
    BY <2>4, <2>1 DEF Moved, Passed, Keys
  <2> QED
    BY <1>3, <2>2, <2>3, <2>4 DEF AfterKey
<1> QED
  BY <1>2, <1>3

\* What has been carried stays, where the step changes no value of the destination.
LEMMA CarriedOn ==
    ASSUME NEW p \in Runs, NEW r, r = run[p], NEW s, s = run'[p], NEW j, Carried(p, j),
           s.base = r.base, s.to = r.to, s.said[j] = r.said[j],
           j \in touched[p] => j \in touched'[p],
           j \in touched'[p] \/ Value(r.to, j)' = Value(r.to, j)
    PROVE  Carried(p, j)'
<1>1. Value(run[p].to, j)' = Value(r.to, j)'
  BY DEF Value, Reaches, Slot
<1> QED
  BY <1>1 DEF Carried

\* A migration is done with a key.
LEMMA MoveOn ==
    ASSUME TypeOK, PlacesInv, NEW p \in Runs, MoveOK(p), NEW r, r = run[p],
           r.cmd = "migrate", r.at \in {"write", "check", "add"},
           NEW k, k = Key(r), NEW s \in Records, s = run'[p],
           Elsewise(r, s), s.vals = r.vals, AfterKey(r, s), UNCHANGED product,
           touched[p] \ {k} \subseteq touched'[p],
           \A j \in Keys \ {k} : j \in touched'[p] \/ Value(r.to, j)' = Value(r.to, j),
           Carried(p, k)'
    PROVE  MoveOK(p)'
<1>1. r \in Records /\ Placed(r)
  BY DEF TypeOK, PlacesInv
<1>2. \A j \in Ahead(r) \union {k} : j \in Prefixes[r.prefix] /\ r.vals[j] = r.base[j]
  BY DEF MoveOK
<1>3. /\ Moved(r) \subseteq Keys /\ Moved(s) \subseteq Moved(r) \union {k}
      /\ s.at = "write" => Ahead(s) \union {Key(s)} = Ahead(r)
  BY <1>1, <1>2, MovedIs DEF Elsewise
<1>4. ASSUME NEW j \in Moved(s), Lists(s.from, j)' PROVE Carried(p, j)'
  <2>1. CASE j = k
    BY <2>1
  <2>2. CASE j # k
    <3>1. j \in Moved(r) /\ j \in Keys /\ Lists(r.from, j)
      BY <1>3, <1>4, <2>2 DEF Lists, Elsewise, Alike
    <3>2. Carried(p, j)
      BY <3>1 DEF MoveOK
    <3>3. s.base = r.base /\ s.to = r.to /\ s.said[j] = r.said[j]
      BY <2>2, <3>1 DEF Elsewise, Alike
    <3> QED
      BY <2>2, <3>1, <3>2, <3>3, CarriedOn
  <2> QED
    BY <2>1, <2>2
<1>5. s.at \in {"write", "resolve", "switch"}
  BY DEF AfterKey
<1>6. s.at = "write" => \A j \in Ahead(s) \union {Key(s)} : j \in Prefixes[s.prefix] /\ s.vals[j] = s.base[j]
  BY <1>2, <1>3 DEF AfterKey, Elsewise, Alike
<1> QED
  BY <1>4, <1>5, <1>6 DEF MoveOK

\* A migration goes on with the same key.
LEMMA MoveStays ==
    ASSUME TypeOK, PlacesInv, NEW p \in Runs, MoveOK(p), NEW r, r = run[p],
           r.cmd = "migrate", r.at \in {"write", "check", "add"},
           NEW k, k = Key(r), NEW s \in Records, s = run'[p],
           Same(r, s), s.i = r.i, s.at \in {"check", "add"}, UNCHANGED product,
           touched[p] \ {k} \subseteq touched'[p],
           \A j \in Keys \ {k} : Value(r.to, j)' = Value(r.to, j),
           s.at = "add" => shared'[Slot(k)] = None \/ Reaches(k)'
    PROVE  MoveOK(p)'
<1>1. r \in Records /\ Placed(r)
  BY DEF TypeOK, PlacesInv
<1>2. \A j \in Ahead(r) \union {k} : j \in Prefixes[r.prefix] /\ r.vals[j] = r.base[j]
  BY DEF MoveOK
<1>3. k \notin Moved(r) /\ Moved(r) \subseteq Keys
  BY <1>1, <1>2, MovedIs
<1>4. Key(s) = k /\ Ahead(s) = Ahead(r)
  BY DEF Key, Ahead, Same, Alike
<1>5. Moved(s) = Moved(r)
  BY <1>4 DEF Moved, Passed, Same, Alike
<1>6. ASSUME NEW j \in Moved(s), Lists(s.from, j)' PROVE Carried(p, j)'
  <2>1. j \in Moved(r) /\ j \in Keys \ {k} /\ Lists(r.from, j)
    BY <1>3, <1>5, <1>6 DEF Lists, Same, Alike
  <2>2. Carried(p, j)
    BY <2>1 DEF MoveOK
  <2>3. s.base = r.base /\ s.to = r.to /\ s.said[j] = r.said[j]
    BY DEF Same, Alike
  <2> QED
    BY <2>1, <2>2, <2>3, CarriedOn
<1>7. Slot(k)' = Slot(k)
  BY DEF Slot
<1>8. s.at = "add" => shared'[Slot(Key(s))'] = None \/ Reaches(Key(s))'
  BY <1>4, <1>7 DEF Reaches, Slot
<1> QED
  BY <1>2, <1>4, <1>6, <1>8 DEF MoveOK, Same, Alike, Slot, Reaches

\* A new secret has no value yet.
LEMMA CreatedHolds ==
    ASSUME TypeOK, NEW k \in Keys, NEW held, shared[Slot(k)] = None, UNCHANGED product,
           shared' = [shared EXCEPT ![Slot(k)] = [held |-> held, value |-> None]], NEW j \in Keys
    PROVE  Value("shared", j)' = Value("shared", j)
<1>1. Slot(j)' = Slot(j) /\ Slot(j) \in Keys /\ Slot(k) \in Keys
  BY SlotIs DEF TypeOK, Slot
<1>2. shared'[Slot(j)] = IF Slot(j) = Slot(k) THEN [held |-> held, value |-> None] ELSE shared[Slot(j)]
  BY <1>1 DEF TypeOK
<1>3. CASE Slot(j) = Slot(k)
  <2>1. Value("shared", j) = None
    BY <1>3 DEF Value, Reaches
  <2>2. Value("shared", j)' = None
    BY <1>1, <1>2, <1>3 DEF Value, Reaches
  <2> QED
    BY <2>1, <2>2
<1>4. CASE Slot(j) # Slot(k)
  BY <1>1, <1>2, <1>4 DEF Value, Reaches
<1> QED
  BY <1>3, <1>4

\* A version changes the value of the key whose secret it is, and of no other.
LEMMA AddedHolds ==
    ASSUME TypeOK, product = "gcp-sm", NEW k \in Keys, NEW v \in Values, Reaches(k), UNCHANGED product,
           shared' = [shared EXCEPT ![Slot(k)].value = v]
    PROVE  /\ Value("shared", k)' = v
           /\ \A j \in Keys \ {k} : Value("shared", j)' = Value("shared", j)
<1>1. \A j \in Keys : Slot(j)' = Slot(j) /\ Slot(j) \in Keys
  BY SlotIs DEF TypeOK, Slot
<1>2. shared[Slot(k)] \in [held : BOOLEAN, value : Values] /\ shared[Slot(k)].held = (k \in Whole)
      /\ shared \in [Keys -> {None} \union [held : BOOLEAN, value : Values]]
  BY <1>1 DEF TypeOK, Reaches
<1>3. PICK x : x = [shared[Slot(k)] EXCEPT !.value = v]
  OBVIOUS
<1>4. shared' = [shared EXCEPT ![Slot(k)] = x]
  BY <1>3, Zenon
<1>5. shared'[Slot(k)] = x /\ \A j \in Keys : Slot(j) # Slot(k) => shared'[Slot(j)] = shared[Slot(j)]
  BY <1>1, <1>2, <1>4
<1>6. x.held = (k \in Whole) /\ x.value = v
  BY <1>2, <1>3
<1>7. x # None
  <2>1. x \in [held : BOOLEAN, value : Values]
    BY <1>2, <1>3
  <2> QED
    BY <2>1, TransferAssumption DEF TransferAssumption, Values
<1>8. Value("shared", k)' = v
  BY <1>1, <1>5, <1>6, <1>7 DEF Value, Reaches
<1>9. ASSUME NEW j \in Keys \ {k} PROVE Value("shared", j)' = Value("shared", j)
  <2>1. CASE Slot(j) = Slot(k)
    <3>1. ~(j \in Whole <=> k \in Whole)
      <4>1. NameOf[j] = NameOf[k]
        BY <2>1 DEF Slot
      <4> QED
        BY <1>9, <4>1, TransferAssumption DEF TransferAssumption, Keys
    <3>2. Value("shared", j) = None
      BY <1>2, <2>1, <3>1 DEF Value, Reaches
    <3>3. Value("shared", j)' = None
      BY <1>1, <1>5, <1>6, <2>1, <3>1 DEF Value, Reaches
    <3> QED
      BY <3>2, <3>3
  <2>2. CASE Slot(j) # Slot(k)
    BY <1>1, <1>5, <2>2 DEF Value, Reaches
  <2> QED
    BY <2>1, <2>2
<1> QED
  BY <1>8, <1>9

LEMMA MoveWrites ==
    ASSUME TypeOK, PlacesInv, KindInv, SyncInv, NEW p \in Runs, run[p].cmd = "migrate", MoveOK(p), run'[p] # Over,
           WriteHere(p) \/ WriteVault(p) \/ CreateSecret(p) \/ CheckLabel(p) \/ AddVersion(p) \/ WriteRefused(p)
    PROVE  MoveOK(p)'
<1> PICK r, k, t, s : r = run[p] /\ k = Key(r) /\ t = Slot(k) /\ s = run'[p]
  OBVIOUS
<1>1. /\ r \in Records /\ Placed(r) /\ ~r.strayed /\ r.at \in {"write", "check", "add"} /\ k \in Keys
      /\ run \in [Runs -> Records] /\ touched \in [Runs -> SUBSET Keys] /\ r.vals \in [Keys -> Values]
  <2>1. At(p, {"write", "check", "add"})
    BY DEF WriteHere, WriteVault, CreateSecret, CheckLabel, AddVersion, WriteRefused, At
  <2> QED
    BY <2>1, AtWrite DEF TypeOK, Records
<1>2. r.vals[k] = r.base[k] /\ k \in Prefixes[r.prefix]
  BY <1>1 DEF MoveOK
<1>3. UNCHANGED product
  BY DEF WriteHere, WriteVault, CreateSecret, CheckLabel, AddVersion, WriteRefused
\* What the command says of the key decides whether it must have been carried.
<1>4. ASSUME NEW w \in Records, Placed(w), Alike(r, w), w.vals = r.vals, w.said = r.said,
             w.at = r.at, w.i = r.i, w.prefix = r.prefix, NEW ok \in BOOLEAN, s = Written(w, ok),
             touched[p] \ {k} \subseteq touched'[p],
             \A j \in Keys \ {k} : j \in touched'[p] \/ Value(r.to, j)' = Value(r.to, j),
             ok => k \in touched'[p] \/ Value(r.to, k)' = r.base[k]
      PROVE  MoveOK(p)'
  <2>1. /\ s \in Records /\ Elsewise(r, s) /\ s.vals = r.vals /\ AfterKey(r, s)
        /\ s.said[k] = IF ok THEN "migrated" ELSE "failed"
    BY <1>1, <1>4, MigratedOn
  <2>2. s.base = r.base /\ s.to = r.to
    BY <2>1 DEF Elsewise, Alike
  <2>3. Value(run[p].to, k)' = Value(r.to, k)'
    BY <2>2 DEF Value, Reaches, Slot
  <2>4. Carried(p, k)'
    BY <1>4, <2>1, <2>2, <2>3 DEF Carried
  <2> QED
    BY <1>1, <1>3, <1>4, <2>1, <2>4, MoveOn
<1>5. Alike(r, r)
  BY DEF Alike
<1>6. ASSUME NEW u \in Records, Same(r, u), u.at = r.at, u.i = r.i, NEW w, w = Noted(u)
      PROVE  /\ w \in Records /\ Placed(w) /\ Alike(r, w) /\ w.vals = r.vals /\ w.said = r.said
             /\ w.at = r.at /\ w.i = r.i /\ w.prefix = r.prefix
  <2>1. Placed(u) /\ Key(u) = k
    BY <1>1, <1>6 DEF Placed, Same, Alike, Key
  <2>2. /\ w \in Records /\ Placed(w) /\ Alike(u, w) /\ w.vals = u.vals /\ w.said = u.said
        /\ w.at = u.at /\ w.i = u.i /\ w.prefix = u.prefix
    BY <1>1, <1>6, <2>1, NotedIs
  <2> QED
    BY <1>6, <2>2 DEF Same, Alike
<1>7. Same(r, r)
  BY DEF Same, Alike
<1>8. UNCHANGED <<here, shared>> => \A j : Value(r.to, j)' = Value(r.to, j)
  BY <1>3 DEF Value, Reaches, Slot
<1>9. CASE WriteHere(p)
  <2>1. r.to = "here" /\ here' = [here EXCEPT ![k] = r.vals[k]] /\ touched'[p] = touched[p] \ {k}
        /\ s = Written(Noted(r), TRUE)
    BY <1>1, <1>9, BecomeIs DEF WriteHere, Touch
  <2>2. Value(r.to, k)' = r.base[k] /\ \A j \in Keys \ {k} : Value(r.to, j)' = Value(r.to, j)
    BY <1>1, <1>2, <2>1 DEF Value, TypeOK
  <2>3. PICK w : w = Noted(r)
    OBVIOUS
  <2> QED
    BY <1>1, <1>4, <1>6, <1>7, <2>1, <2>2, <2>3
<1>10. CASE WriteVault(p)
  <2>1. /\ r.to = "shared" /\ product = "vault" /\ touched'[p] = touched[p] \ {k}
        /\ shared' = [shared EXCEPT ![k] = [held |-> k \in Whole, value |-> r.vals[k]]]
    BY <1>1, <1>10 DEF WriteVault, Touch
  <2>2. [held |-> k \in Whole, value |-> r.vals[k]] # None
    <3>1. [held |-> k \in Whole, value |-> r.vals[k]] \in [held : BOOLEAN, value : Values]
      BY <1>1
    <3> QED
      BY <3>1, TransferAssumption DEF TransferAssumption, Values
  <2>3. \A j \in Keys : Slot(j) = j /\ Slot(j)' = j
    BY <1>3, <2>1 DEF Slot
  <2>4. Value(r.to, k)' = r.base[k] /\ \A j \in Keys \ {k} : Value(r.to, j)' = Value(r.to, j)
    BY <1>1, <1>2, <2>1, <2>2, <2>3 DEF Value, Reaches, TypeOK
  <2>5. PICK w, ok : w = Noted(r) /\ ok \in BOOLEAN /\ s = Written(w, ok)
    BY <1>1, <1>10, BecomeIs DEF WriteVault
  <2> QED
    BY <1>1, <1>4, <1>6, <1>7, <2>1, <2>4, <2>5
<1>11. CASE CreateSecret(p)
  <2>1. r.to = "shared" /\ product = "gcp-sm"
    BY <1>11 DEF CreateSecret
  <2>2. CASE shared[t] = None
    <3>1. /\ shared' = [shared EXCEPT ![t] = [held |-> k \in Whole, value |-> None]]
          /\ touched'[p] = touched[p] \ {k}
          /\ s = [r EXCEPT !.at = "add"] \/ s = Written(r, FALSE)
      BY <1>1, <1>11, <2>2, BecomeIs DEF CreateSecret, Touch
    <3>2. \A j \in Keys : Value(r.to, j)' = Value(r.to, j)
      BY <1>1, <1>3, <2>1, <2>2, <3>1, CreatedHolds
    <3>3. CASE s = Written(r, FALSE)
      BY <1>1, <1>4, <1>5, <3>1, <3>2, <3>3
    <3>4. CASE s = [r EXCEPT !.at = "add"]
      <4>1. s \in Records /\ Same(r, s) /\ s.at = "add" /\ s.i = r.i
        BY <1>1, <3>4, ToIs DEF Places
      <4>2. shared'[Slot(k)] = [held |-> k \in Whole, value |-> None]
        BY <1>1, <3>1, SlotIs DEF TypeOK
      <4>3. shared'[Slot(k)] = None \/ Reaches(k)'
        BY <1>3, <4>2 DEF Reaches, Slot
      <4> QED
        BY <1>1, <1>3, <3>1, <3>2, <4>1, <4>3, MoveStays
    <3> QED
      BY <3>1, <3>3, <3>4
  <2>3. CASE shared[t] # None
    <3>1. s = [r EXCEPT !.at = "check"] /\ UNCHANGED <<here, shared, touched>>
      BY <1>1, <1>11, <2>3, BecomeIs DEF CreateSecret
    <3>2. s \in Records /\ Same(r, s) /\ s.at = "check" /\ s.i = r.i
      BY <1>1, <3>1, ToIs DEF Places
    <3> QED
      BY <1>1, <1>3, <1>8, <3>1, <3>2, MoveStays
  <2> QED
    BY <2>2, <2>3
<1>12. CASE CheckLabel(p)
  <2>1. UNCHANGED <<here, shared, touched>>
    BY <1>12 DEF CheckLabel, contents, history
  <2>2. CASE MayAdd(k)
    <3>1. s = [r EXCEPT !.at = "add"]
      BY <1>1, <1>12, <2>2, BecomeIs DEF CheckLabel
    <3>2. s \in Records /\ Same(r, s) /\ s.at = "add" /\ s.i = r.i
      BY <1>1, <3>1, ToIs DEF Places
    <3>3. shared'[Slot(k)] = None \/ Reaches(k)'
      BY <1>3, <2>1, <2>2 DEF MayAdd, Reaches, Slot
    <3> QED
      BY <1>1, <1>3, <1>8, <2>1, <3>2, <3>3, MoveStays
  <2>3. CASE ~MayAdd(k)
    <3>1. s = Written(r, FALSE)
      BY <1>1, <1>12, <2>3, BecomeIs DEF CheckLabel
    <3> QED
      BY <1>1, <1>4, <1>5, <1>8, <2>1, <3>1
  <2> QED
    BY <2>2, <2>3
<1>13. CASE WriteRefused(p)
  <2>1. UNCHANGED <<here, shared, touched>> /\ s = Written(r, FALSE)
    BY <1>1, <1>13, BecomeIs DEF WriteRefused, contents, history
  <2> QED
    BY <1>1, <1>4, <1>5, <1>8, <2>1
<1>14. CASE AddVersion(p)
  <2>1. r.at = "add" /\ r.to = "shared" /\ product = "gcp-sm"
    BY <1>1, <1>14 DEF AddVersion, At, Placed
  <2>2. CASE shared[t] = None
    <3>1. UNCHANGED <<here, shared, touched>> /\ s = Written(r, FALSE)
      BY <1>1, <1>14, <2>2, BecomeIs DEF AddVersion
    <3> QED
      BY <1>1, <1>4, <1>5, <1>8, <3>1
  <2>3. CASE shared[t] # None
    <3>1. PICK u, w, ok : u = Used(p) /\ w = Noted(u) /\ ok \in BOOLEAN /\ s = Written(w, ok)
      BY <1>1, <1>14, <2>3, BecomeIs DEF AddVersion
    <3>2. p \in remade \/ Reaches(k)
      BY <1>1, <1>14, <2>3 DEF KindInv, At, AddVersion
    <3>3. u \in Records /\ Same(r, u) /\ u.at = r.at /\ u.i = r.i
      BY <1>1, <3>1, <3>2, UsedIs
    <3>4. /\ shared' = [shared EXCEPT ![t].value = r.vals[k]]
          /\ touched'[p] = IF Reaches(k) THEN touched[p] \ {k} ELSE touched[p]
      BY <1>1, <1>14, <2>3 DEF AddVersion, Touch
    <3>5. CASE Reaches(k)
      <4>1. Value(r.to, k)' = r.base[k] /\ \A j \in Keys \ {k} : Value(r.to, j)' = Value(r.to, j)
        BY <1>1, <1>2, <1>3, <2>1, <3>4, <3>5, AddedHolds
      <4> QED
        BY <1>1, <1>4, <1>6, <3>1, <3>3, <3>4, <3>5, <4>1
    \* The secret is of the other kind: others have made it, and so every key in its place is touched.
    <3>6. CASE ~Reaches(k)
      <4>1. Beside("shared", k) \subseteq touched[p] /\ k \in Beside("shared", k)
        BY <1>1, <2>1, <2>3, <3>6 DEF MoveOK, Beside
      <4>2. ASSUME NEW j \in Keys \ touched'[p] PROVE Value(r.to, j)' = Value(r.to, j)
        <5>1. Slot(j) # t /\ Slot(j) \in Keys /\ t \in Keys /\ Slot(j)' = Slot(j)
          BY <1>1, <1>3, <3>4, <3>6, <4>1, <4>2, SlotIs DEF Beside, TypeOK, Slot
        <5>2. shared'[Slot(j)] = shared[Slot(j)]
          BY <3>4, <5>1 DEF TypeOK
        <5> QED
          BY <2>1, <5>1, <5>2 DEF Value, Reaches
      <4> QED
        BY <1>1, <1>4, <1>6, <3>1, <3>3, <3>4, <3>6, <4>1, <4>2
    <3> QED
      BY <3>5, <3>6
  <2> QED
    BY <2>2, <2>3
<1> QED
  BY <1>9, <1>10, <1>11, <1>12, <1>13, <1>14

\* A migration reads the keys of a prefix that its source lists.
LEMMA MoveResolves ==
    ASSUME TypeOK, PlacesInv, NEW p \in Runs, run[p].cmd = "migrate", MoveOK(p), Resolve(p),
           run'[p] # Over
    PROVE  MoveOK(p)'
<1> PICK r, ks, s : r = run[p] /\ ks = Prefixes[r.prefix] /\ s = run'[p]
  OBVIOUS
<1>1. /\ r \in Records /\ Placed(r) /\ r.at = "resolve" /\ run \in [Runs -> Records]
      /\ UNCHANGED <<product, here, shared, touched>>
  BY DEF TypeOK, PlacesInv, Resolve, At, contents, history
<1>2. /\ r.prefix \in {1, 2} /\ Prefixes[1] = Plain /\ Prefixes[2] = Whole /\ Plain \intersect Whole = {}
      /\ ks \in SUBSET Keys
  <2>1. r.prefix \in 1..2
    BY <1>1 DEF Records
  <2>2. r.prefix \in {1, 2} /\ Prefixes[1] = Plain /\ Prefixes[2] = Whole /\ Plain \intersect Whole = {}
    BY <2>1, TransferAssumption DEF TransferAssumption, Prefixes
  <2> QED
    BY <2>2 DEF Keys
<1>3. PICK found, vals, left, base, u :
         /\ found \in Listings(r.from, ks)
         /\ vals = [k \in Keys |-> IF k \in found THEN Value(r.from, k) ELSE r.vals[k]]
         /\ left = r.skipped \union {k \in ks \ found : Lists(r.from, k) /\ Value(r.from, k) # None}
         /\ base = [k \in Keys |-> IF \E i \in 1..r.prefix - 1 : k \in Prefixes[i] THEN r.base[k]
                                   ELSE Value(r.from, k)]
         /\ u = [r EXCEPT !.plan = Ordered[found], !.i = 1, !.at = "write", !.vals = vals, !.skipped = left,
                          !.base = base]
         /\ Become(p, IF found = {} THEN AfterPrefix(u) ELSE u)
  BY ZenonT(40) DEF Resolve
<1>4. found \subseteq ks
  BY <1>3 DEF Listings
<1>5. left \in SUBSET Keys
  BY <1>1, <1>2, <1>3 DEF Records
<1>6. \A j \in ks \ (found \union left) : Lists(r.from, j) => Value(r.from, j) = None
  BY <1>3
<1>7. s = IF found = {} THEN AfterPrefix(u) ELSE u
  BY <1>1, <1>3, BecomeIs
<1>8. \A k \in Keys : base[k] = IF r.prefix = 2 /\ k \in Plain THEN r.base[k] ELSE Value(r.from, k)
  <2>1. r.prefix = 1 => ~\E i \in 1..r.prefix - 1 : TRUE
    OBVIOUS
  <2>2. r.prefix = 2 => 1..r.prefix - 1 = {1}
    OBVIOUS
  <2> QED
    BY <1>2, <1>3, <2>1, <2>2
<1>9. \A k \in Keys : Value(r.to, k)' = Value(r.to, k) /\ Lists(r.from, k)' = Lists(r.from, k)
  BY <1>1 DEF Value, Reaches, Slot, Lists
<1>10. /\ u.at = "write" /\ u.i = 1 /\ u.plan = Ordered[found] /\ u.vals = vals /\ u.base = base /\ u.skipped = left
      /\ u.prefix = r.prefix /\ u.said = r.said /\ u.to = r.to /\ u.from = r.from
  BY <1>1, <1>3 DEF Records
\* What is not found, or was carried before, is carried.
<1>11. ASSUME NEW j \in Keys, j \in Plain \/ r.prefix = 2, j \notin found, j \notin left, Lists(r.from, j),
             s.base = base, s.said = r.said, s.to = r.to
      PROVE  Carried(p, j)'
  <2>1. CASE r.prefix = 2 /\ j \in Plain
    <3>1. Carried(p, j)
      <4>1. j \in Moved(r)
        BY <1>1, <1>3, <1>11, <2>1 DEF Moved, Passed
      <4> QED
        BY <1>11, <4>1 DEF MoveOK
    <3>2. base[j] = r.base[j] /\ Value(s.to, j)' = Value(r.to, j)
      BY <1>8, <1>9, <1>11, <2>1
    <3>3. Value(run[p].to, j)' = Value(s.to, j)'
      BY DEF Value, Reaches, Slot
    <3> QED
      BY <1>1, <1>11, <3>1, <3>2, <3>3 DEF Carried
  <2>2. CASE ~(r.prefix = 2 /\ j \in Plain)
    <3>1. j \in ks
      BY <1>2, <1>11, <2>2 DEF Keys
    <3>2. Value(r.from, j) = None /\ base[j] = Value(r.from, j)
      BY <1>6, <1>8, <1>11, <2>2, <3>1
    <3> QED
      BY <1>11, <3>2 DEF Carried
  <2> QED
    BY <2>1, <2>2
<1>12. CASE found = {}
  <2>1. s = AfterPrefix(u)
    BY <1>7, <1>12
  <2>2. /\ s.base = base /\ s.skipped = left /\ s.said = r.said /\ s.to = r.to /\ s.from = r.from
        /\ \/ s.at = "resolve" /\ r.prefix = 1 /\ s.prefix = 2
           \/ s.at = "switch" /\ r.prefix = 2
    <3>1. Len(Prefixes) = 2
      BY DEF Prefixes
    <3>2. r.prefix = 1 => s = [u EXCEPT !.prefix = u.prefix + 1, !.at = "resolve"]
      BY <1>10, <2>1, <3>1 DEF AfterPrefix
    <3>3. r.prefix = 2 => s = [u EXCEPT !.at = "switch"]
      BY <1>10, <2>1, <3>1 DEF AfterPrefix
    <3>4. u \in Records
      <4>1. \A k \in Keys : Value(r.from, k) \in Values
        <5>1. /\ here \in [Keys -> Values] /\ shared \in [Keys -> {None} \union [held : BOOLEAN, value : Values]]
              /\ \A k \in Keys : Slot(k) \in Keys
          BY SlotIs DEF TypeOK
        <5> QED
          BY <5>1 DEF Value, Values, Reaches
      <4>2. /\ vals \in [Keys -> Values] /\ base \in [Keys -> Values] /\ found \in SUBSET Keys
        <5>1. r.vals \in [Keys -> Values] /\ r.base \in [Keys -> Values]
          BY <1>1 DEF Records
        <5>2. found \in SUBSET Keys
          BY <1>2, <1>4
        <5>3. vals \in [Keys -> Values]
          BY <1>3, <4>1, <5>1
        <5>4. base \in [Keys -> Values]
          BY <1>3, <4>1, <5>1
        <5> QED
          BY <5>2, <5>3, <5>4
      <4>3. Ordered[found] \in Seq(Keys) /\ "write" \in Places
        BY <4>2, OrderedIs DEF Places
      <4> QED
        BY <1>1, <1>3, <1>5, <4>2, <4>3, ZenonT(40) DEF Records
    <3>5. CASE r.prefix = 1
      <4>1. s = [u EXCEPT !.prefix = u.prefix + 1, !.at = "resolve"]
        BY <3>2, <3>5
      <4>2. s.base = u.base /\ s.skipped = u.skipped /\ s.said = u.said /\ s.to = u.to /\ s.from = u.from /\ s.at = "resolve"
        BY <3>4, <4>1, Zenon DEF Records
      <4>3. s.prefix = u.prefix + 1
        BY <3>4, <4>1, Zenon DEF Records
      <4>4. s.prefix = 2
        BY <1>10, <3>5, <4>3
      <4> QED
        BY <1>10, <3>5, <4>2, <4>4
    <3>6. CASE r.prefix = 2
      BY <1>10, <3>3, <3>4, <3>6 DEF Records
    <3> QED
      BY <1>2, <3>5, <3>6
  <2>3. \A j \in Moved(s) : j \in Keys /\ j \notin left /\ (j \in Plain \/ r.prefix = 2)
    BY <2>2 DEF Moved, Passed, Keys
  <2>4. ASSUME NEW j \in Moved(s), Lists(s.from, j)' PROVE Carried(p, j)'
    BY <1>9, <1>11, <1>12, <2>2, <2>3, <2>4
  <2> QED
    BY <2>2, <2>4 DEF MoveOK
<1>13. CASE found # {}
  <2>1. s = u
    BY <1>7, <1>13
  <2>2. Ahead(s) \union {Key(s)} = found
    <3>1. /\ Ordered[found] \in Seq(Keys) /\ 1 \in DOMAIN Ordered[found]
          /\ \A i \in DOMAIN Ordered[found] : Ordered[found][i] \in found
          /\ \A k \in found : \E i \in DOMAIN Ordered[found] : Ordered[found][i] = k
      <4>1. found \in SUBSET Keys
        BY <1>2, <1>4
      <4> QED
        BY <1>13, <4>1, OrderedIs
    <3>2. s.plan = Ordered[found] /\ s.i = 1
      BY <1>10, <2>1
    <3>3. \A i \in DOMAIN Ordered[found] : i = 1 \/ i > 1
      BY <3>1
    <3>4. Ahead(s) = {Ordered[found][i] : i \in {i \in DOMAIN Ordered[found] : i > 1}} /\ Key(s) = Ordered[found][1]
      BY <3>2 DEF Ahead, Key
    <3>5. Ahead(s) \union {Key(s)} \subseteq found
      BY <3>1, <3>4
    <3>6. ASSUME NEW k \in found PROVE k \in Ahead(s) \union {Key(s)}
      <4>1. PICK i \in DOMAIN Ordered[found] : Ordered[found][i] = k
        BY <3>1
      <4> QED
        BY <3>3, <3>4, <4>1
    <3> QED
      BY <3>5, <3>6
  <2>3. \A j \in Moved(s) : j \in Keys /\ j \notin found /\ j \notin left /\ (j \in Plain \/ r.prefix = 2)
    <3>1. found \subseteq ks /\ s.at = "write" /\ s.prefix = r.prefix /\ s.skipped = left
      BY <1>4, <1>10, <2>1
    <3>2. CASE r.prefix = 1
      BY <2>2, <3>1, <3>2 DEF Moved, Passed, Keys
    <3>3. CASE r.prefix = 2
      <4>1. found \subseteq Whole
        BY <1>2, <3>1, <3>3
      <4>2. Moved(s) = (Plain \union (Whole \ found)) \ left
        BY <2>2, <3>1, <3>3 DEF Moved, Passed
      <4> QED
        BY <1>2, <3>3, <4>1, <4>2 DEF Keys
    <3> QED
      BY <1>2, <3>2, <3>3
  <2>4. ASSUME NEW j \in Moved(s), Lists(s.from, j)' PROVE Carried(p, j)'
    BY <1>9, <1>10, <1>11, <2>1, <2>3, <2>4
  <2>5. \A j \in found : j \in Prefixes[s.prefix] /\ s.vals[j] = s.base[j]
    <3>1. ASSUME NEW j \in found PROVE vals[j] = base[j] /\ j \in ks
      <4>1. j \in ks /\ j \in Keys
        BY <1>2, <1>4, <3>1
      <4>2. vals[j] = Value(r.from, j)
        BY <1>3, <3>1, <4>1
      <4> QED
        BY <1>2, <1>8, <4>1, <4>2
    <3> QED
      BY <1>10, <2>1, <3>1
  <2> QED
    BY <1>10, <2>1, <2>2, <2>4, <2>5 DEF MoveOK
<1> QED
  BY <1>12, <1>13

\* A step by which a process becomes, or stays, a migration.
LEMMA MoveSteps ==
    ASSUME TypeOK, PlacesInv, KindInv, SyncInv, MoveInv,
           NEW p \in Runs, Step(p), run'[p].cmd = "migrate"
    PROVE  MoveOK(p)'
<1> PICK r, s : r = run[p] /\ s = run'[p]
  OBVIOUS
<1>1. /\ r \in Records /\ Placed(r) /\ run \in [Runs -> Records]
      /\ r.cmd = "migrate" => MoveOK(p)
  BY DEF TypeOK, PlacesInv, MoveInv
<1>2. s.cmd = "migrate" /\ (~Begin(p) => r.cmd = "migrate" /\ s # Over)
  BY Continues, TransferAssumption DEF TransferAssumption, Kinds
<1>3. CASE Begin(p)
  <2>1. s.at = "resolve" /\ s.prefix = 1
    BY <1>2, <1>3, BeginIs, TransferAssumption DEF TransferAssumption, Kinds
  <2>2. Moved(s) = {}
    BY <2>1 DEF Moved, Passed
  <2> QED
    BY <2>1, <2>2 DEF MoveOK
<1>4. SUFFICES ASSUME ~Begin(p) PROVE MoveOK(p)'
  BY <1>3
<1>5. r.cmd = "migrate" /\ s # Over /\ MoveOK(p)
  BY <1>1, <1>2, <1>4
<1>6. CASE Throws(p, {"list", "resolve", "delete", "erase"})
  BY <1>1, <1>5, <1>6, BecomeIs DEF Throws, Thrown
<1>7. CASE Resolve(p)
  BY <1>5, <1>7, MoveResolves
<1>8. CASE WriteHere(p) \/ WriteVault(p) \/ CreateSecret(p) \/ CheckLabel(p) \/ AddVersion(p) \/ WriteRefused(p)
  BY <1>5, <1>8, MoveWrites
\* No other action leaves a migration on its way.
<1>9. CASE Switch(p) \/ Ends(p)
  BY <1>1, <1>5, <1>9, BecomeIs DEF Switch, Ends
<1>10. CASE ListToSync(p) \/ ListToPush(p) \/ ListToPurge(p) \/ Ask(p) \/ Compare(p)
  BY <1>1, <1>5, <1>10 DEF Placed, At, ListToSync, ListToPush, ListToPurge, Ask, Compare
<1>11. CASE ReadAtOnce(p) \/ ReadLabel(p) \/ Fetch(p) \/ ReadRefused(p)
  BY <1>1, <1>5, <1>11 DEF Placed, At, ReadAtOnce, ReadLabel, Fetch, ReadRefused
<1>12. CASE DeleteHere(p) \/ DeleteVault(p) \/ DeleteLabel(p) \/ Erase(p)
  BY <1>1, <1>5, <1>12 DEF Placed, At, DeleteHere, DeleteVault, DeleteLabel, Erase
<1> QED
  BY <1>4, <1>6, <1>7, <1>8, <1>9, <1>10, <1>11, <1>12 DEF Step

-----------------------------------------------------------------------------
(* The variables keep their types.                                         *)

Faults == faults' \in 0..MaxFaults

LEMMA FaultIs ==
    ASSUME TypeOK, NEW ok, Fault \/ Answered(ok) \/ UNCHANGED faults
    PROVE  Faults
BY TransferAssumption DEF TransferAssumption, TypeOK, Fault, Answered, Faults

LEMMA HistoryTyped ==
    ASSUME TypeOK, NEW p \in Runs, NEW k \in Keys, NEW s, NEW own
    PROVE  /\ Touch(p, s, k, own) => touched' \in [Runs -> SUBSET Keys]
           /\ \A seen : Looked(p, seen) => touched' \in [Runs -> SUBSET Keys]
           /\ \A q \in Runs : Unseen(q, s, k) \in SUBSET Keys
           /\ Remade(k) \subseteq Runs
<1>1. touched \in [Runs -> SUBSET Keys] /\ remade \subseteq Runs
  BY DEF TypeOK
<1>2. Beside(s, k) \in SUBSET Keys
  BY DEF Beside
<1>3. \A q \in Runs : Unseen(q, s, k) \in SUBSET Keys
  BY <1>1, <1>2 DEF Unseen
<1>4. Touch(p, s, k, own) => touched' \in [Runs -> SUBSET Keys]
  BY <1>1, <1>3 DEF Touch
<1>5. \A seen : Looked(p, seen) => touched' \in [Runs -> SUBSET Keys]
  BY <1>1 DEF Looked
<1> QED
  BY <1>1, <1>3, <1>4, <1>5 DEF Remade

LEMMA StepTyped ==
    ASSUME TypeOK, PlacesInv, KindInv, SyncInv, NEW p \in Runs, Step(p)
    PROVE  TypeOK'
<1> PICK r, k, t : r = run[p] /\ k = Key(r) /\ t = Slot(k)
  OBVIOUS
<1>1. /\ r \in Records /\ Placed(r)
      /\ here \in [Keys -> Values] /\ shared \in [Keys -> {None} \union [held : BOOLEAN, value : Values]]
      /\ touched \in [Runs -> SUBSET Keys] /\ remade \subseteq Runs /\ product \in Products
      /\ configured \in Stores /\ next \in 3..MaxValue + 1 /\ faults \in 0..MaxFaults
  BY DEF TypeOK, PlacesInv
<1>2. r.at \in AtKey => k \in Keys /\ t \in Keys /\ r.vals[k] \in Values
  <2>1. r.at \in AtKey => k \in Keys
    BY <1>1, AheadIs DEF Placed
  <2> QED
    BY <1>1, <2>1, SlotIs DEF Records
<1>3. run' \in [Runs -> Records]
  <2>1. Arrives(p) /\ run \in [Runs -> Records]
    BY StepArrives DEF TypeOK
  <2> QED
    BY <2>1, BecomeIs DEF Arrives
<1>4. None \in Values
  BY DEF Values
\* The steps that change neither store.
<1>5. ASSUME UNCHANGED <<product, contents>>, configured' \in Stores, next' \in 3..MaxValue + 1, Faults,
             touched' \in [Runs -> SUBSET Keys], remade' \subseteq Runs
      PROVE  TypeOK'
  BY <1>1, <1>3, <1>5 DEF TypeOK, contents, Faults, Values, Stores, Records, Places
<1>6. CASE Begin(p)
  <2>1. UNCHANGED <<product, contents, faults, touched, remade>> /\ configured' \in Stores
        /\ next' \in {next} \union {n \in {next + 1} : next <= MaxValue}
    BY <1>1, <1>6 DEF Begin, BeginSet, BeginRemove, BeginSync, BeginPush, BeginMigrate, BeginPurge, UseBackend,
                      Starts, Stores, history
  <2>2. next' \in 3..MaxValue + 1
    BY <1>1, <2>1, TransferAssumption DEF TransferAssumption
  <2> QED
    BY <1>1, <1>5, <2>1, <2>2, FaultIs
<1>7. ASSUME UNCHANGED <<product, configured, contents, next>>,
             Fault \/ UNCHANGED faults,
             touched' = touched \/ (\E seen : Looked(p, seen) /\ Keys # {}),
             remade' = remade \/ remade' = remade \ {p}
      PROVE  TypeOK'
  <2>1. Faults
    BY <1>7, FaultIs
  <2>2. touched' \in [Runs -> SUBSET Keys]
    BY <1>1, <1>7, HistoryTyped
  <2> QED
    BY <1>1, <1>5, <1>7, <2>1, <2>2
<1>8. Keys # {}
  BY TransferAssumption DEF TransferAssumption, Keys
<1>9. CASE Throws(p, {"list", "resolve", "delete", "erase"})
  BY <1>7, <1>9 DEF Throws, history
<1>10. CASE ListToSync(p) \/ ListToPush(p) \/ ListToPurge(p)
  BY <1>7, <1>8, <1>10 DEF ListToSync, ListToPush, ListToPurge, history
<1>11. CASE Resolve(p)
  BY <1>7, <1>11 DEF Resolve, history
<1>12. CASE Ask(p)
  <2>1. UNCHANGED <<product, configured, contents, next, history>> /\ (Fault \/ UNCHANGED faults)
    BY <1>12 DEF Ask
  <2> QED
    BY <1>7, <2>1 DEF history
<1>13. CASE ReadAtOnce(p) \/ ReadLabel(p) \/ Fetch(p) \/ ReadRefused(p)
  BY <1>7, <1>13 DEF ReadAtOnce, ReadLabel, Fetch, ReadRefused, history
<1>14. CASE Compare(p)
  BY <1>7, <1>8, <1>14 DEF Compare
<1>15. CASE CheckLabel(p) \/ WriteRefused(p) \/ DeleteLabel(p)
  BY <1>7, <1>15 DEF CheckLabel, WriteRefused, DeleteLabel, history
<1>16. CASE Switch(p)
  <2>1. UNCHANGED <<product, contents, next, faults, touched, remade>> /\ configured' = r.to /\ r.at = "switch"
    BY <1>16 DEF Switch, At, history
  <2>2. r.to \in Stores
    BY <1>1, <2>1 DEF Placed
  <2> QED
    BY <1>1, <1>5, <2>1, <2>2, FaultIs
<1>17. CASE Ends(p)
  <2>1. UNCHANGED <<product, configured, contents, next, faults>> /\ touched' = [touched EXCEPT ![p] = {}]
        /\ remade' = remade \ {p}
    BY <1>17 DEF Ends
  <2> QED
    BY <1>1, <1>5, <2>1, FaultIs
\* The steps that change one.
<1>18. ASSUME r.at \in AtKey, NEW v \in Values, here' = [here EXCEPT ![k] = v], NEW own, Touch(p, "here", k, own),
              UNCHANGED <<product, configured, shared, next, remade>>, NEW ok, Answered(ok) \/ UNCHANGED faults
       PROVE  TypeOK'
  <2>1. here' \in [Keys -> Values] /\ Faults /\ touched' \in [Runs -> SUBSET Keys]
    BY <1>1, <1>2, <1>18, FaultIs, HistoryTyped
  <2> QED
    BY <1>1, <1>3, <1>18, <2>1 DEF TypeOK, Faults, Values, Stores, Records, Places
<1>19. ASSUME r.at \in AtKey, NEW x \in {None} \union [held : BOOLEAN, value : Values],
              shared' = [shared EXCEPT ![t] = x], NEW own, Touch(p, "shared", k, own),
              UNCHANGED <<product, configured, here, next>>, remade' \subseteq Runs,
              NEW ok, Answered(ok) \/ UNCHANGED faults
       PROVE  TypeOK'
  <2>1. Faults /\ touched' \in [Runs -> SUBSET Keys]
    BY <1>2, <1>19, FaultIs, HistoryTyped
  <2>2. shared' \in [Keys -> {None} \union [held : BOOLEAN, value : Values]]
    BY <1>1, <1>2, <1>19
  <2> QED
    BY <1>1, <1>3, <1>19, <2>1, <2>2 DEF TypeOK, Faults, Values, Stores, Records, Places
<1>20. CASE WriteHere(p)
  <2>1. /\ r.at \in AtKey /\ here' = [here EXCEPT ![k] = r.vals[k]] /\ Touch(p, "here", k, TRUE)
        /\ \E ok \in BOOLEAN : Answered(ok)
        /\ UNCHANGED <<product, configured, shared, next, remade>>
    BY <1>20 DEF WriteHere, At, AtKey
  <2> QED
    BY <1>2, <1>18, <2>1
<1>21. CASE DeleteHere(p)
  <2>1. /\ r.at \in AtKey /\ here' = [here EXCEPT ![k] = None] /\ Touch(p, "here", k, TRUE)
        /\ UNCHANGED <<product, configured, shared, next, faults, remade>>
    BY <1>21 DEF DeleteHere, At, AtKey
  <2> QED
    BY <1>4, <1>18, <2>1
<1>22. ASSUME NEW u \in Keys PROVE Erased(u) \in {None} \union [held : BOOLEAN, value : Values]
  BY <1>1, <1>4 DEF Erased
<1>23. CASE WriteVault(p)
  <2>1. /\ r.at \in AtKey /\ product = "vault" /\ Touch(p, "shared", k, TRUE)
        /\ shared' = [shared EXCEPT ![k] = [held |-> k \in Whole, value |-> r.vals[k]]]
        /\ \E ok \in BOOLEAN : Answered(ok)
        /\ UNCHANGED <<product, configured, here, next, remade>>
    BY <1>23 DEF WriteVault, At, AtKey
  <2>2. t = k /\ [held |-> k \in Whole, value |-> r.vals[k]] \in [held : BOOLEAN, value : Values]
    BY <1>2, <2>1 DEF Slot
  <2> QED
    BY <1>1, <1>19, <2>1, <2>2
<1>24. CASE DeleteVault(p)
  <2>1. /\ r.at \in AtKey /\ product = "vault" /\ Touch(p, "shared", k, TRUE)
        /\ shared' = [shared EXCEPT ![k] = Erased(k)]
        /\ \E ok \in BOOLEAN : Answered(ok)
        /\ UNCHANGED <<product, configured, here, next, remade>>
    BY <1>24 DEF DeleteVault, At, AtKey
  <2>2. t = k
    BY <2>1 DEF Slot
  <2> QED
    BY <1>1, <1>2, <1>19, <1>22, <2>1, <2>2
<1>25. CASE Erase(p)
  <2>1. /\ r.at \in AtKey /\ Touch(p, "shared", k, TRUE)
        /\ shared' = [shared EXCEPT ![t] = Erased(t)]
        /\ \E ok \in BOOLEAN : Answered(ok)
        /\ remade' = remade \ {p}
        /\ UNCHANGED <<product, configured, here, next>>
    BY <1>25 DEF Erase, At, AtKey
  <2> QED
    BY <1>1, <1>2, <1>19, <1>22, <2>1
<1>26. CASE CreateSecret(p)
  <2>1. CASE shared[t] = None
    <3>1. /\ r.at \in AtKey /\ Touch(p, "shared", k, TRUE)
          /\ shared' = [shared EXCEPT ![t] = [held |-> k \in Whole, value |-> None]]
          /\ \E ok \in BOOLEAN : Answered(ok)
          /\ remade' = Remade(k) \ {p}
          /\ UNCHANGED <<product, configured, here, next>>
      BY <1>26, <2>1 DEF CreateSecret, At, AtKey
    <3>2. [held |-> k \in Whole, value |-> None] \in [held : BOOLEAN, value : Values]
      BY <1>4
    <3>3. remade' \subseteq Runs
      BY <1>1, <3>1 DEF Remade
    <3> QED
      BY <1>19, <3>1, <3>2, <3>3
  <2>2. CASE shared[t] # None
    BY <1>7, <1>26, <2>2 DEF CreateSecret, contents
  <2> QED
    BY <2>1, <2>2
<1>27. CASE AddVersion(p)
  <2>1. CASE shared[t] = None
    BY <1>7, <1>27, <2>1 DEF AddVersion, contents
  <2>2. CASE shared[t] # None
    <3>1. /\ r.at \in AtKey /\ Touch(p, "shared", k, Reaches(k))
          /\ shared' = [shared EXCEPT ![t].value = r.vals[k]]
          /\ \E ok \in BOOLEAN : Answered(ok)
          /\ remade' = remade \ {p}
          /\ UNCHANGED <<product, configured, here, next>>
      BY <1>27, <2>2 DEF AddVersion, At, AtKey
    <3>2. PICK x : x = [shared[t] EXCEPT !.value = r.vals[k]]
      OBVIOUS
    <3>3. shared' = [shared EXCEPT ![t] = x]
      BY <3>1, <3>2, Zenon
    <3>4. shared[t] \in [held : BOOLEAN, value : Values] /\ r.vals[k] \in Values
      BY <1>1, <1>2, <2>2, <3>1
    <3>5. x \in [held : BOOLEAN, value : Values]
      BY <3>2, <3>4
    <3> QED
      BY <1>1, <1>19, <3>1, <3>3, <3>5
  <2> QED
    BY <2>1, <2>2
<1> QED
  BY <1>6, <1>9, <1>10, <1>11, <1>12, <1>13, <1>14, <1>15, <1>16, <1>17, <1>20, <1>21, <1>23, <1>24, <1>25,
     <1>26, <1>27 DEF Step

LEMMA ElsewhereTyped ==
    ASSUME TypeOK, NEW k \in Keys, Elsewhere(k)
    PROVE  TypeOK'
<1> PICK t : t = Slot(k)
  OBVIOUS
<1>1. /\ shared \in [Keys -> {None} \union [held : BOOLEAN, value : Values]] /\ t \in Keys
      /\ next \in 3..MaxValue + 1 /\ remade \subseteq Runs
  BY SlotIs DEF TypeOK
<1>2. UNCHANGED <<product, configured, here, faults, run>> /\ touched' \in [Runs -> SUBSET Keys]
  <2>1. \A q \in Runs : Unseen(q, "shared", k) \in SUBSET Keys
    BY HistoryTyped
  <2> QED
    BY <2>1 DEF Elsewhere
<1>3. SUFFICES shared' \in [Keys -> {None} \union [held : BOOLEAN, value : Values]]
               /\ next' \in 3..MaxValue + 1 /\ remade' \subseteq Runs
  BY <1>2 DEF TypeOK, Values, Stores, Records, Places
<1>4. CASE /\ next <= MaxValue /\ next' = next + 1
           /\ shared' = [shared EXCEPT ![t] = [held |-> k \in Whole, value |-> next]]
           /\ remade' = IF shared[t] = None THEN Remade(k) ELSE remade
  <2>1. next \in 1..MaxValue /\ next' \in 3..MaxValue + 1
    BY <1>1, <1>4, TransferAssumption DEF TransferAssumption
  <2>2. [held |-> k \in Whole, value |-> next] \in [held : BOOLEAN, value : Values]
    BY <2>1 DEF Values
  <2>3. remade' \subseteq Runs
    BY <1>1, <1>4 DEF Remade
  <2> QED
    BY <1>1, <1>4, <2>1, <2>2, <2>3
<1>5. CASE shared' = [shared EXCEPT ![t] = Erased(t)] /\ UNCHANGED <<remade, next>>
  <2>1. Erased(t) \in {None} \union [held : BOOLEAN, value : Values]
    BY <1>1 DEF Erased, Values
  <2> QED
    BY <1>1, <1>5, <2>1
<1> QED
  BY <1>4, <1>5 DEF Elsewhere

-----------------------------------------------------------------------------
(* The invariant.                                                          *)

LEMMA InitInv == Init => TransferInv
<1> SUFFICES ASSUME Init PROVE TransferInv
  OBVIOUS
<1>1. run = [p \in Runs |-> Blank] /\ touched = [p \in Runs |-> {}] /\ remade = {}
  BY DEF Init
<1>2. TypeOK
  <2>1. product \in Products /\ configured \in Stores /\ next \in 3..MaxValue + 1 /\ faults \in 0..MaxFaults
    BY TransferAssumption DEF TransferAssumption, Init, Stores
  <2>2. \A held \in FirstHere \union FirstShared : held \in [Keys -> Values]
    <3>1. {1, 2, None} \subseteq Values
      BY TransferAssumption DEF TransferAssumption, Values
    <3> QED
      BY <3>1, TransferAssumption DEF TransferAssumption
  <2>3. here \in [Keys -> Values]
    BY <2>2 DEF Init
  <2>4. shared \in [Keys -> {None} \union [held : BOOLEAN, value : Values]]
    <3>1. PICK held \in FirstShared :
              shared = [t \in Keys |->
                  LET owners == {k \in Keys : Slot(k) = t /\ held[k] # None}
                  IN  IF owners = {} THEN None
                      ELSE LET k == CHOOSE k \in owners : TRUE
                           IN  [held |-> k \in Whole, value |-> held[k]]]
      BY DEF Init
    <3>2. ASSUME NEW t \in Keys PROVE shared[t] \in {None} \union [held : BOOLEAN, value : Values]
      <4>1. PICK owners, k : owners = {j \in Keys : Slot(j) = t /\ held[j] # None}
                             /\ k = CHOOSE j \in owners : TRUE
        OBVIOUS
      <4>2. shared[t] = IF owners = {} THEN None ELSE [held |-> k \in Whole, value |-> held[k]]
        BY <3>1, <4>1
      <4>3. owners # {} => k \in Keys
        BY <4>1
      <4> QED
        BY <2>2, <4>2, <4>3
    <3> QED
      BY <3>1, <3>2
  <2>5. run \in [Runs -> Records]
    BY <1>1, BlankIsPlaced
  <2> QED
    BY <1>1, <2>1, <2>3, <2>4, <2>5 DEF TypeOK
<1>3. Blank.cmd = None /\ Blank.at = "idle" /\ ~Blank.strayed
  BY DEF Blank
<1>4. PlacesInv
  BY <1>1, BlankIsPlaced DEF PlacesInv
<1>5. KindInv
  BY <1>1, <1>3 DEF KindInv, At
<1>6. SyncInv /\ PushInv /\ MoveInv
  BY <1>1, <1>3, TransferAssumption DEF TransferAssumption, Kinds, SyncInv, PushInv, MoveInv
<1> QED
  BY <1>2, <1>4, <1>5, <1>6 DEF TransferInv

\* What the invariant says of one process.
Fits(p) ==
    /\ Placed(run[p])
    /\ ~run[p].strayed /\ Knows(p, run[p])
    /\ run[p].cmd = "sync" => SyncOK(p)
    /\ run[p].cmd = "push" => PushOK(run[p])
    /\ run[p].cmd = "migrate" => MoveOK(p)

LEMMA FitsIs == TransferInv => \A p \in Runs : Fits(p)
BY DEF TransferInv, PlacesInv, KindInv, SyncInv, PushInv, MoveInv, Fits, Knows, At

\* Whatever another does, a process still fits.
LEMMA UnmovedFits ==
    ASSUME TransferInv, NEW q \in Runs, Unmoved(q)
    PROVE  Fits(q)'
<1>1. TypeOK /\ PlacesInv /\ KindInv /\ SyncInv /\ PushInv /\ MoveInv /\ Fits(q)
  BY FitsIs DEF TransferInv
<1>2. run'[q] = run[q] /\ product' = product
  BY DEF Unmoved
<1>3. Placed(run[q])'
  BY <1>1, <1>2 DEF Fits, Placed
<1>4. ~run'[q].strayed /\ Knows(q, run[q])'
  BY <1>1, KnowsKept
<1>5. run[q].cmd = "sync" => SyncOK(q)'
  BY <1>1, SyncKept DEF Fits
<1>6. run[q].cmd = "push" => PushOK(run[q])'
  BY <1>1, <1>2 DEF Fits, PushOK
<1>7. run[q].cmd = "migrate" => MoveOK(q)'
  BY <1>1, MoveKept DEF Fits
<1> QED
  BY <1>2, <1>3, <1>4, <1>5, <1>6, <1>7 DEF Fits

\* A step of a process leaves it fit.
LEMMA StepFits ==
    ASSUME TransferInv, NEW p \in Runs, Step(p)
    PROVE  Fits(p)'
<1>1. TypeOK /\ PlacesInv /\ KindInv /\ SyncInv /\ PushInv /\ MoveInv /\ run \in [Runs -> Records]
  BY DEF TransferInv, TypeOK
<1>2. PICK s \in Records : Become(p, s) /\ Placed(s) /\ ~s.strayed /\ Knows(p, s)'
  BY <1>1, StepArrives DEF Arrives
<1>3. run'[p] = s
  BY <1>1, <1>2, BecomeIs
<1>4. product' = product
  BY DEF Step, Begin, BeginSet, BeginRemove, BeginSync, BeginPush, BeginMigrate, BeginPurge, UseBackend, Starts,
         Throws, ListToSync, ListToPush, ListToPurge, Resolve, Ask, ReadAtOnce, ReadLabel, Fetch, ReadRefused,
         Compare, WriteHere, WriteVault, CreateSecret, CheckLabel, AddVersion, WriteRefused, Switch,
         DeleteHere, DeleteVault, DeleteLabel, Erase, Ends
<1>5. Placed(run[p])'
  BY <1>2, <1>3, <1>4 DEF Placed
<1>6. Knows(p, run[p])'
  BY <1>2, <1>3 DEF Knows, Reaches, Slot
<1>7. run'[p].cmd = "sync" => SyncOK(p)'
  BY <1>1, SyncSteps
<1>8. run'[p].cmd = "push" => PushOK(run[p])'
  <2>1. run'[p].cmd = "push" => PushOK(run'[p])
    BY <1>1, PushSteps
  <2> QED
    BY <2>1 DEF PushOK
<1>9. run'[p].cmd = "migrate" => MoveOK(p)'
  BY <1>1, MoveSteps
<1> QED
  BY <1>2, <1>3, <1>5, <1>6, <1>7, <1>8, <1>9 DEF Fits

LEMMA NextInv == TransferInv /\ [Next]_vars => TransferInv'
<1> SUFFICES ASSUME TransferInv, [Next]_vars PROVE TransferInv'
  OBVIOUS
<1>1. TypeOK /\ PlacesInv /\ KindInv /\ SyncInv /\ PushInv /\ MoveInv
  BY DEF TransferInv
<1>2. ASSUME TypeOK', \A q \in Runs : Fits(q)' PROVE TransferInv'
  BY <1>2 DEF TransferInv, PlacesInv, KindInv, SyncInv, PushInv, MoveInv, Fits, Knows, At
<1>3. ASSUME NEW p \in Runs, Step(p) PROVE TransferInv'
  <2>1. TypeOK'
    BY <1>1, <1>3, StepTyped
  <2>2. ASSUME NEW q \in Runs PROVE Fits(q)'
    <3>1. CASE q = p
      BY <1>3, <3>1, StepFits
    <3>2. CASE q # p
      <4>1. Unmoved(q)
        BY <1>1, <1>3, <3>2, OthersUnmoved
      <4> QED
        BY <4>1, UnmovedFits
    <3> QED
      BY <3>1, <3>2
  <2> QED
    BY <1>2, <2>1, <2>2
<1>4. ASSUME NEW k \in Keys, Elsewhere(k) PROVE TransferInv'
  <2>1. TypeOK'
    BY <1>1, <1>4, ElsewhereTyped
  <2>2. ASSUME NEW q \in Runs PROVE Fits(q)'
    BY <1>1, <1>4, ElsewhereUnmoved, UnmovedFits
  <2> QED
    BY <1>2, <2>1, <2>2
<1>5. CASE UNCHANGED vars
  <2>1. TypeOK'
    BY <1>1, <1>5 DEF TypeOK, vars, contents, history, Values, Stores, Records, Places
  <2>2. ASSUME NEW q \in Runs PROVE Fits(q)'
    <3>1. Unmoved(q)
      BY <1>5, NothingMoves DEF vars, history
    <3> QED
      BY <3>1, UnmovedFits
  <2> QED
    BY <1>2, <2>1, <2>2
<1> QED
  BY <1>3, <1>4, <1>5 DEF Next

THEOREM Invariant == Spec => []TransferInv
BY InitInv, NextInv, PTL DEF Spec

-----------------------------------------------------------------------------
(* What follows.                                                           *)

\* Every variable keeps its type.
THEOREM TypeCorrect == Spec => []TypeOK
<1>1. TransferInv => TypeOK
  BY DEF TransferInv
<1> QED
  BY <1>1, Invariant, PTL

\* No command uses a secret of the other kind that was in its key's place when it looked, for
\* any assignment of names to keys: the label is looked at before every version that is read or
\* added and every secret that is deleted (gcp-sm.ts).
THEOREM HeldKeptApart == Spec => []HeldStaysApart
<1>1. TransferInv => HeldStaysApart
  BY DEF TransferInv, KindInv, HeldStaysApart
<1> QED
  BY <1>1, Invariant, PTL

\* What sync and push report is what they have done, whichever names there are and whatever is
\* refused, late or changed by others meanwhile (secret-sync.ts, secret-push.ts).
THEOREM ReportsAreTrue == Spec => []ReportsTellTruth
<1>1. ASSUME TransferInv PROVE SyncTellsTruth
  <2>1. SUFFICES ASSUME NEW p \in Runs, run[p].at = "report", run[p].cmd = "sync", NEW k \in Plain, k \notin touched[p]
                PROVE  Told(p, k)
    BY DEF SyncTellsTruth, At, Told
  <2>2. SyncOK(p)
    BY <1>1, <2>1 DEF TransferInv, SyncInv
  <2> QED
    BY <2>1, <2>2 DEF SyncOK
<1>2. ASSUME TransferInv PROVE PushTellsTruth
  <2>1. SUFFICES ASSUME NEW p \in Runs, run[p].at = "report", run[p].cmd = "push",
                        NEW r, r = run[p]
                PROVE  /\ (\A k \in Plain : r.said[k] = None) \/ r.dry => r.wrote = {}
                       /\ {k \in Plain : r.said[k] = "pushed"} \subseteq r.wrote
                       /\ \A k \in r.wrote : r.said[k] \in {"pushed", "failed"}
                       /\ Cardinality({k \in Plain : r.said[k] = "failed"}) <= 1
    BY DEF PushTellsTruth, At
  <2>2. PushOK(r) /\ r.wrote \subseteq Keys
    BY <1>2, <2>1 DEF TransferInv, PushInv, TypeOK, Records
  <2>3. PICK failed : failed = {k \in Plain : r.said[k] = "failed"}
    OBVIOUS
  <2>4. Cardinality(failed) <= 1
    <3>1. \A j, k \in failed : j = k
      BY <2>1, <2>2, <2>3 DEF PushOK, Keys
    <3>2. CASE failed = {}
      BY <3>2, FS_EmptySet
    <3>3. CASE failed # {}
      <4>1. PICK k \in failed : TRUE
        BY <3>3
      <4>2. failed = {k}
        BY <3>1, <4>1
      <4>3. Cardinality({k}) = 1
        BY FS_Singleton
      <4> QED
        BY <4>2, <4>3
    <3> QED
      BY <3>2, <3>3
  <2> QED
    BY <2>1, <2>2, <2>3, <2>4 DEF PushOK, Keys
<1>3. TransferInv => ReportsTellTruth
  BY <1>1, <1>2 DEF ReportsTellTruth
<1> QED
  BY <1>3, Invariant, PTL

\* A migration configures its destination only when that answers, for each key a listing of the
\* source may name and has not left out, what the source held, or the key was reported as failed or
\* written by others since (commands/backend.ts, backends/migrate.ts).
THEOREM MigrationCarries == Spec => []MigrationCarriesListed
<1>1. ASSUME TransferInv PROVE MigrationCarriesListed
  <2>1. SUFFICES ASSUME NEW p \in Runs, run[p].at = "switch", NEW k \in Keys \ run[p].skipped,
                        Lists(run[p].from, k)
                PROVE  Carried(p, k)
    BY DEF MigrationCarriesListed, At
  <2>2. MoveOK(p)
    BY <1>1, <2>1 DEF TransferInv, PlacesInv, Placed, MoveInv
  <2>3. k \in Moved(run[p])
    BY <2>1 DEF Moved, Passed
  <2> QED
    BY <2>1, <2>2, <2>3 DEF MoveOK
<1>2. TransferInv => MigrationCarriesListed
  BY <1>1
<1> QED
  BY <1>2, Invariant, PTL

\* A sync that is not forced never replaces a value it has not seen to be missing, or that no
\* one else has stored since it looked, for any interleaving with other commands (secret-sync.ts).
THEOREM UnforcedKeeps == Spec => UnforcedKeepsLocal
<1>1. ASSUME TransferInv, Next, NEW p \in Runs, NEW k \in Keys, run[p].cmd = "sync", ~run[p].force, run[p] # run'[p],
             here[k] # None, here'[k] # here[k]
      PROVE  k \in touched[p]
  <2>1. TypeOK /\ PlacesInv /\ KindInv /\ SyncInv
    BY <1>1 DEF TransferInv
  <2>2. Step(p)
    <3>1. \A j \in Keys : ~Elsewhere(j)
      BY <1>1 DEF Elsewhere
    <3>2. PICK q \in Runs : Step(q)
      BY <1>1, <3>1 DEF Next
    <3>3. p # q => Unmoved(p)
      BY <2>1, <3>2, OthersUnmoved
    <3> QED
      BY <1>1, <3>2, <3>3 DEF Unmoved
  <2>3. Placed(run[p]) /\ SyncOK(p) /\ run[p] \in Records
    BY <1>1, <2>1 DEF PlacesInv, SyncInv, TypeOK
  <2>4. WriteHere(p)
    <3>1. here' # here
      BY <1>1
    <3>2. ~DeleteHere(p)
      BY <1>1, <2>3 DEF DeleteHere, At, Placed
    <3> QED
      BY <2>2, <3>1, <3>2
         DEF Step, Begin, BeginSet, BeginRemove, BeginSync, BeginPush, BeginMigrate, BeginPurge, UseBackend, Starts,
             Throws, ListToSync, ListToPush, ListToPurge, Resolve, Ask, ReadAtOnce, ReadLabel, Fetch, ReadRefused,
             Compare, WriteVault, CreateSecret, CheckLabel, AddVersion, WriteRefused, Switch,
             DeleteVault, DeleteLabel, Erase, Ends, contents
  <2>5. run[p].at = "write" /\ here' = [here EXCEPT ![Key(run[p])] = run[p].vals[Key(run[p])]]
    BY <2>4 DEF WriteHere, At
  <2>6. k = Key(run[p])
    BY <1>1, <2>1, <2>5 DEF TypeOK
  <2> QED
    BY <1>1, <2>3, <2>5, <2>6 DEF SyncOK
<1>2. TransferInv /\ [Next]_vars =>
          [\A p \in Runs : \A k \in Keys :
              /\ run[p].cmd = "sync" /\ ~run[p].force /\ run[p] # run'[p]
              /\ here[k] # None /\ here'[k] # here[k]
              => k \in touched[p]]_vars
  BY <1>1
<1> QED
  BY <1>2, Invariant, PTL DEF Spec, UnforcedKeepsLocal
=============================================================================
