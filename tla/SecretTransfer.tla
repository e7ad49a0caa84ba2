--------------------------- MODULE SecretTransfer --------------------------
(***************************************************************************)
(* How values move between this machine's own store and a store that is    *)
(* shared with other machines, a Vault or a Secret Manager project:        *)
(* secret sync (secret-sync.ts), secret push (secret-push.ts), migrate     *)
(* (backends/migrate.ts, commands/backend.ts), and the commands that write *)
(* and delete single entries of the configured store meanwhile.            *)
(*                                                                         *)
(* Each command is a process of its own.  It goes on from one await to the *)
(* next, and others run in between; it may be killed at any of them.  A    *)
(* request to the shared store may be refused, and one that is answered    *)
(* too late may have been applied all the same (boundedFetch).             *)
(*                                                                         *)
(* A Secret Manager secret is made before it has a version, and carries a  *)
(* label when it is held for an MCP server binding.  A plain key and a     *)
(* whole key may be stored under one name; the label tells whose it is.    *)
(***************************************************************************)
EXTENDS Naturals, Sequences, FiniteSets

CONSTANTS
    Products,     \* what the shared store may be: "vault", "gcp-sm"
    Runs,         \* the processes, one command each
    Plain,        \* keys secret/NAME
    Whole,        \* keys mcp/<client>/<server>/<env>
    Ordered,      \* the order in which a store lists each set of keys and commands name them
    NameOf,       \* the key whose name in Secret Manager a key is stored under
    Commands,     \* the commands each of them may run
    ListMaySkip,  \* may a listing leave out an entry it was refused to read?
    MaxValue,     \* values there are
    MaxFaults,    \* requests and reads that are refused, and answers that come too late
    FirstHere, FirstShared,  \* what the two stores may hold of each key at first: 1, 2 or None
    None

VARIABLES
    product,      \* what the shared store is
    configured,   \* the store in config.json: "here" or "shared"
    here,         \* this machine's store: the value of each key
    shared,       \* the shared store: the secret in each place, [held, value]
    next,         \* the next value nobody has stored yet
    faults,       \* how often something was refused or late so far
    run,          \* the command of each process
    touched,      \* history: the keys of its target others wrote since a process looked there
    remade        \* history: the processes in whose place others made a secret since they looked

contents == <<here, shared>>
history == <<touched, remade>>
vars == <<product, configured, contents, next, faults, run, history>>

Keys == Plain \union Whole
Nothing == [k \in Keys |-> None]

\* What sync, push and migrate say of a key.
Sayings == {"create", "update", "unchanged", "conflict", "local-only", "not-found", "failed",
            "pushed", "skipped", "would-create", "would-add-version", "would-refuse", "migrated"}

Kinds == {"set", "remove", "sync", "push", "migrate", "purge"}

\* Two plain keys never share a name, nor do two whole ones (plainName, encodeStoreKey); sync
\* and push are refused without a name.
ASSUME TransferAssumption ==
    /\ Products \subseteq {"vault", "gcp-sm"}
    /\ Plain # {} /\ Plain \intersect Whole = {}
    /\ \A ks \in SUBSET Keys :
          /\ Ordered[ks] \in Seq(ks)
          /\ \A k \in ks : \E i \in DOMAIN Ordered[ks] : Ordered[ks][i] = k
          /\ \A i, j \in DOMAIN Ordered[ks] : Ordered[ks][i] = Ordered[ks][j] => i = j
    /\ NameOf \in [Keys -> Keys]
    /\ \A j, k \in Keys : NameOf[j] = NameOf[k] /\ (j \in Plain <=> k \in Plain) => j = k
    /\ ListMaySkip \in BOOLEAN /\ MaxValue \in Nat \ {0, 1} /\ MaxFaults \in Nat
    /\ None \notin Sayings \union Kinds /\ None \notin 1..MaxValue
    /\ None \notin [held : BOOLEAN, value : 1..MaxValue \union {None}]
    /\ \A held \in FirstHere \union FirstShared : held \in [Keys -> {1, 2, None}]

\* The prefixes a migration copies, one after the other.
Prefixes == <<Plain, Whole>>

\* Where a key is in the shared store.
Slot(k) == IF product = "gcp-sm" THEN NameOf[k] ELSE k

\* Is the secret in a key's place the key's own?
Reaches(k) == shared[Slot(k)] # None /\ shared[Slot(k)].held = (k \in Whole)

\* What a store answers for a key.
Value(s, k) ==
    CASE s = "here"                -> here[k]
      [] s = "shared" /\ Reaches(k) -> shared[Slot(k)].value
      [] OTHER                     -> None

\* The keys whose value changes with that of k.
Beside(s, k) == IF s = "here" THEN {k} ELSE {j \in Keys : Slot(j) = Slot(k)}

\* Does a listing of a store name this key?  A Vault is listed one level deep, and a whole key is
\* deeper than that.
Lists(s, k) == s = "shared" /\ product = "vault" => k \in Plain

\* The keys of ks that a listing of a store may name.
Listings(s, ks) ==
    LET all == {k \in ks : Lists(s, k) /\ Value(s, k) # None}
    IN  IF ListMaySkip /\ s = "shared" THEN SUBSET all ELSE {all}

-----------------------------------------------------------------------------
(* A command: where it is, what it has read, what it reports of each key.  *)

Blank ==
    [cmd |-> None, at |-> "idle", from |-> None, to |-> None, force |-> FALSE, dry |-> FALSE,
     plan |-> <<>>, i |-> 1, prefix |-> 1, stored |-> {}, vals |-> Nothing, said |-> Nothing,
     base |-> Nothing,    \* history: what the source of a migration held when it was last listed
     skipped |-> {},      \* history: the keys of the source that a listing of a migration left out
     wrote |-> {},        \* history: the keys whose value reached the target
     strayed |-> FALSE]   \* history: did it use a secret of the other kind that was there when it looked?

Over == [Blank EXCEPT !.at = "over"]

Running(r) == r.at \notin {"idle", "over"}
Key(r) == r.plan[r.i]
At(p, places) == run[p].at \in places

Become(p, r) == run' = [run EXCEPT ![p] = r]

\* Others than process q have changed what a store holds of a key.
Unseen(q, s, k) ==
    IF run[q].cmd \in {"sync", "migrate"} /\ run[q].to = s THEN touched[q] \union Beside(s, k) ELSE touched[q]

\* Process p has changed what a store holds of a key; it knows, if it has changed its own.
Touch(p, s, k, own) ==
    touched' = [q \in Runs |-> IF q # p THEN Unseen(q, s, k)
                               ELSE IF own THEN touched[q] \ {k} ELSE touched[q]]

\* A process has looked at these keys.
Looked(p, seen) == touched' = [touched EXCEPT ![p] = @ \ seen]

\* A secret is made in the place of a key: the others there have looked at what was there before.
Remade(k) == remade \union {q \in Runs : Running(run[q]) /\ run[q].plan # <<>> /\ Slot(Key(run[q])) = Slot(k)}

\* The command after it has used what is in its key's place.
Used(p) == [run[p] EXCEPT !.strayed = @ \/ (~Reaches(Key(run[p])) /\ p \notin remade)]

Say(r, what) == [r EXCEPT !.said[Key(r)] = what]

\* To place "at" with the next key of the plan, or to what comes after the last one.
Onward(r, at, after) == IF r.i < Len(r.plan) THEN [r EXCEPT !.i = @ + 1, !.at = at] ELSE after

Report(r) == [r EXCEPT !.at = "report"]

\* An exception that leaves the command: it reports on no key.
Thrown(r) == IF r.cmd \in {"sync", "push"} THEN [r EXCEPT !.at = "report", !.said = Nothing] ELSE Over

\* sync goes on with the next name whatever happened to this one.
SyncSaid(r, what) == LET s == Say(r, what) IN Onward(s, "read", Report(s))

\* push stops at the first name that fails, and the rest is skipped.
PushStopped(r, what) ==
    Report([r EXCEPT !.said = [k \in Keys |->
        CASE k = Key(r) -> what
          [] \E j \in r.i + 1..Len(r.plan) : r.plan[j] = k -> "skipped"
          [] OTHER -> r.said[k]]])

\* push writes the first value when it has read the last one.
PushGoesOn(r) ==
    IF r.at \in {"read", "fetch"} THEN Onward(r, "read", [r EXCEPT !.at = "write", !.i = 1])
    ELSE LET s == Say(r, "pushed") IN Onward(s, "write", Report(s))

\* Mutant of AfterPrefix: the MCP servers' secrets are not migrated.
AfterPrefixMutPlainOnly(r) ==
    IF \E k \in Keys : r.said[k] # None THEN [r EXCEPT !.at = "switch"] ELSE Over

\* A migration goes on with the next prefix; after the last, it configures the destination
\* if there was anything to copy.
AfterPrefix(r) ==
    IF r.prefix < Len(Prefixes) THEN [r EXCEPT !.prefix = @ + 1, !.at = "resolve"]
    ELSE IF \E k \in Keys : r.said[k] # None THEN [r EXCEPT !.at = "switch"] ELSE Over

Migrated(r, what) == LET s == Say(r, what) IN Onward(s, "write", AfterPrefix(s))

-----------------------------------------------------------------------------
\* The stores hold the values of earlier commands; no two keys are held under one name.
Init ==
    /\ product \in Products
    /\ configured \in {"here", "shared"}
    /\ here \in FirstHere
    /\ \E held \in FirstShared :
          shared = [t \in Keys |->
              LET owners == {k \in Keys : Slot(k) = t /\ held[k] # None}
              IN  IF owners = {} THEN None
                  ELSE LET k == CHOOSE k \in owners : TRUE
                       IN  [held |-> k \in Whole, value |-> held[k]]]
    /\ next = 3
    /\ faults = 0
    /\ run = [p \in Runs |-> Blank]
    /\ touched = [p \in Runs |-> {}]
    /\ remade = {}

Fault == faults < MaxFaults /\ faults' = faults + 1

\* A request that succeeds may be answered, or answered too late.
Answered(ok) == IF ok THEN UNCHANGED faults ELSE Fault

-----------------------------------------------------------------------------
(* How a command begins.                                                   *)

Starts(p, r) ==
    /\ At(p, {"idle"})
    /\ r.cmd \in Commands[p]
    /\ Become(p, r)
    /\ UNCHANGED <<product, configured, contents, faults, history>>

\* secret set, and protect-mcp for a whole key: a new value for the configured store.
BeginSet(p, k) ==
    /\ next <= MaxValue
    /\ next' = next + 1
    /\ Starts(p, [Blank EXCEPT !.cmd = "set", !.at = "write", !.to = configured,
                               !.plan = <<k>>, !.vals[k] = next])

BeginRemove(p, k) ==
    /\ Starts(p, [Blank EXCEPT !.cmd = "remove", !.at = "delete", !.to = configured, !.plan = <<k>>])
    /\ UNCHANGED next

\* secret sync of every name: refused when the source is this machine's own store.
BeginSync(p, force, dry) ==
    /\ configured = "here"
    /\ Starts(p, [Blank EXCEPT !.cmd = "sync", !.at = "list", !.from = "shared", !.to = "here",
                               !.force = force, !.dry = dry, !.plan = Ordered[Plain]])
    /\ UNCHANGED next

BeginPush(p, dry) ==
    /\ Starts(p, [Blank EXCEPT !.cmd = "push", !.at = "list", !.from = configured, !.to = "shared",
                               !.dry = dry, !.plan = Ordered[Plain]])
    /\ UNCHANGED next

BeginMigrate(p, to) ==
    /\ Starts(p, [Blank EXCEPT !.cmd = "migrate", !.at = "resolve",
                               !.from = IF to = "here" THEN "shared" ELSE "here", !.to = to])
    /\ UNCHANGED next

BeginPurge(p) ==
    /\ Starts(p, [Blank EXCEPT !.cmd = "purge", !.at = "list", !.from = configured, !.to = configured])
    /\ UNCHANGED next

\* backend set: nothing is copied.
UseBackend(p, s) ==
    /\ At(p, {"idle"})
    /\ "use" \in Commands[p]
    /\ configured' = s
    /\ Become(p, Over)
    /\ UNCHANGED <<product, contents, next, faults, history>>

Begin(p) ==
    \/ \E k \in Keys : BeginSet(p, k) \/ BeginRemove(p, k)
    \/ \E force, dry \in BOOLEAN : BeginSync(p, force, dry)
    \/ \E dry \in BOOLEAN : BeginPush(p, dry)
    \/ \E s \in {"here", "shared"} : BeginMigrate(p, s) \/ UseBackend(p, s)
    \/ BeginPurge(p)

-----------------------------------------------------------------------------
(* What a command finds out before it begins with the keys.                *)

\* A request, or a read of this machine's store, is refused, or the command ends in an error.
Throws(p, places) ==
    /\ At(p, places)
    /\ Fault
    /\ Become(p, Thrown(run[p]))
    /\ UNCHANGED <<product, configured, contents, next, history>>

\* sync lists what is stored here, after a health check of the source.
ListToSync(p) ==
    /\ At(p, {"list"}) /\ run[p].cmd = "sync"
    /\ Become(p, [run[p] EXCEPT !.at = "read", !.stored = {k \in Plain : here[k] # None}])
    /\ Looked(p, Keys)
    /\ UNCHANGED <<product, configured, contents, next, faults, remade>>

\* push lists its own store and asks the target for a token; a name that is missing ends it.
ListToPush(p) ==
    /\ At(p, {"list"}) /\ run[p].cmd = "push"
    /\ \E listed \in Listings(run[p].from, Plain) :
          IF Plain \subseteq listed
          THEN Become(p, [run[p] EXCEPT !.at = IF run[p].dry THEN "ask" ELSE "read"])
          ELSE Become(p, Thrown(run[p]))
    /\ UNCHANGED <<product, configured, contents, next, faults, history>>

\* backend purge lists both prefixes and then deletes what it has found.
ListToPurge(p) ==
    /\ At(p, {"list"}) /\ run[p].cmd = "purge"
    /\ \E listed \in Listings(run[p].from, Keys) :
          Become(p, IF listed = {} THEN Over
                    ELSE [run[p] EXCEPT !.at = "delete", !.plan = Ordered[listed]])
    /\ UNCHANGED <<product, configured, contents, next, faults, history>>

\* migrateSecrets reads every value of a prefix before it writes the first.
Resolve(p) ==
    LET r == run[p]  ks == Prefixes[r.prefix] IN
    /\ At(p, {"resolve"})
    /\ \E found \in Listings(r.from, ks) :
          LET read == [r EXCEPT
                  !.plan = Ordered[found], !.i = 1, !.at = "write",
                  !.vals = [k \in Keys |-> IF k \in found THEN Value(r.from, k) ELSE @[k]],
                  !.skipped = @ \union {k \in ks \ found : Lists(r.from, k) /\ Value(r.from, k) # None},
                  !.base = [k \in Keys |->
                      IF \E i \in 1..r.prefix - 1 : k \in Prefixes[i] THEN @[k] ELSE Value(r.from, k)]]
          IN  Become(p, IF found = {} THEN AfterPrefix(read) ELSE read)
    /\ UNCHANGED <<product, configured, contents, next, faults, history>>

\* push --dry-run asks of each name whether the target has it or would refuse it.
Ask(p) ==
    LET r == run[p]  k == Key(r) IN
    /\ At(p, {"ask"})
    /\ \/ LET s == Say(r, IF shared[Slot(k)] = None THEN "would-create" ELSE "would-add-version")
          IN  (shared[Slot(k)] = None \/ Reaches(k)) /\ Become(p, Onward(s, "ask", Report(s))) /\ UNCHANGED faults
       \/ shared[Slot(k)] # None /\ ~Reaches(k) /\ Become(p, PushStopped(r, "would-refuse")) /\ UNCHANGED faults
       \/ Fault /\ Become(p, PushStopped(r, "failed"))
    /\ UNCHANGED <<product, configured, contents, next, history>>

-----------------------------------------------------------------------------
(* The read of one key, by push from its own store and by sync from the source. *)

\* Mutant of Decide: a name that differs is replaced.
DecideMutReplaces(r, local) ==
    LET action == IF local = None THEN "create" ELSE "update" IN
    IF local = r.vals[Key(r)] THEN SyncSaid(r, "unchanged")
    ELSE IF r.dry THEN SyncSaid(r, action)
    ELSE [Say(r, action) EXCEPT !.at = "write"]

\* sync leaves a name that differs as it is, unless it is forced.
Decide(r, local) ==
    LET k == Key(r)
        action == IF local = None THEN "create" ELSE "update" IN
    IF local = r.vals[k] THEN SyncSaid(r, "unchanged")
    ELSE IF local # None /\ ~r.force THEN SyncSaid(r, "conflict")
    ELSE IF r.dry THEN SyncSaid(r, action)
    ELSE [Say(r, action) EXCEPT !.at = "write"]

Got(r, v) ==
    LET k == Key(r)  read == [r EXCEPT !.vals[k] = v] IN
    IF r.cmd = "push" THEN IF v = None THEN Thrown(r) ELSE PushGoesOn(read)
    ELSE IF v = None THEN SyncSaid(r, IF k \in r.stored THEN "local-only" ELSE "not-found")
    ELSE IF k \in r.stored THEN [read EXCEPT !.at = "compare"] ELSE Decide(read, None)

ReadFailed(r) == IF r.cmd = "push" THEN Thrown(r) ELSE SyncSaid(r, "failed")

\* A local read, or a Vault's: one request.
ReadAtOnce(p) ==
    LET r == run[p] IN
    /\ At(p, {"read"})
    /\ r.from = "here" \/ product = "vault"
    /\ Become(p, Got(r, Value(r.from, Key(r))))
    /\ UNCHANGED <<product, configured, contents, next, faults, history>>

\* Secret Manager: the label first (keyReaches); a secret of another kind is refused.
ReadLabel(p) ==
    LET r == run[p]  t == Slot(Key(r)) IN
    /\ At(p, {"read"}) /\ r.from = "shared" /\ product = "gcp-sm"
    /\ Become(p, CASE shared[t] = None -> Got(r, None)
                   [] Reaches(Key(r))  -> [r EXCEPT !.at = "fetch"]
                   [] OTHER            -> ReadFailed(r))
    /\ remade' = remade \ {p}
    /\ UNCHANGED <<product, configured, contents, next, faults, touched>>

Fetch(p) ==
    LET r == run[p]  t == Slot(Key(r)) IN
    /\ At(p, {"fetch"})
    /\ Become(p, IF shared[t] = None THEN Got(r, None)
                 ELSE Got(Used(p), shared[t].value))
    /\ remade' = remade \ {p}
    /\ UNCHANGED <<product, configured, contents, next, faults, touched>>

ReadRefused(p) ==
    /\ At(p, {"read", "fetch"})
    /\ Fault
    /\ Become(p, ReadFailed(run[p]))
    /\ UNCHANGED <<product, configured, contents, next, history>>

\* sync reads the local value of a name that was listed.
Compare(p) ==
    LET r == run[p] IN
    /\ At(p, {"compare"})
    /\ \/ /\ Become(p, Decide(r, here[Key(r)]))
          /\ UNCHANGED faults
          /\ Looked(p, {Key(r)})
       \/ Fault /\ Become(p, SyncSaid(r, "failed")) /\ UNCHANGED touched
    /\ UNCHANGED <<product, configured, contents, next, remade>>

-----------------------------------------------------------------------------
(* The write of one key.                                                   *)

\* Mutant of Written: a write of sync that fails is reported as done.
WrittenMutSilent(r, ok) ==
    CASE r.cmd = "migrate"     -> Migrated(r, IF ok THEN "migrated" ELSE "failed")
      [] r.cmd = "sync"        -> SyncSaid(r, r.said[Key(r)])
      [] r.cmd = "push"        -> IF ok THEN PushGoesOn(r) ELSE PushStopped(r, "failed")
      [] OTHER                 -> Over

\* What a write that succeeded, or failed, means to the command.
Written(r, ok) ==
    CASE r.cmd = "migrate"     -> Migrated(r, IF ok THEN "migrated" ELSE "failed")
      [] r.cmd = "sync"        -> SyncSaid(r, IF ok THEN r.said[Key(r)] ELSE "failed")
      [] r.cmd = "push"        -> IF ok THEN PushGoesOn(r) ELSE PushStopped(r, "failed")
      [] OTHER                 -> Over

Noted(r) == [r EXCEPT !.wrote = @ \union {Key(r)}]

\* After sync or set has stored a value, what is recorded beside it may be refused.
WriteHere(p) ==
    LET r == run[p]  k == Key(r) IN
    /\ At(p, {"write"}) /\ r.to = "here"
    /\ here' = [here EXCEPT ![k] = r.vals[k]]
    /\ Touch(p, "here", k, TRUE)
    /\ \E recorded \in BOOLEAN :
          /\ recorded \/ r.cmd # "migrate"
          /\ Answered(recorded)
          /\ Become(p, Written(Noted(r), recorded))
    /\ UNCHANGED <<product, configured, shared, next, remade>>

\* The answer of a write that was applied may come too late.
WriteVault(p) ==
    LET r == run[p]  k == Key(r) IN
    /\ At(p, {"write"}) /\ r.to = "shared" /\ product = "vault"
    /\ shared' = [shared EXCEPT ![k] = [held |-> k \in Whole, value |-> r.vals[k]]]
    /\ Touch(p, "shared", k, TRUE)
    /\ \E answered \in BOOLEAN : Answered(answered) /\ Become(p, Written(Noted(r), answered))
    /\ UNCHANGED <<product, configured, here, next, remade>>

\* createSecret: with the label for a whole key; a secret that is there already is looked at next.
CreateSecret(p) ==
    LET r == run[p]  k == Key(r)  t == Slot(k) IN
    /\ At(p, {"write"}) /\ r.to = "shared" /\ product = "gcp-sm"
    /\ IF shared[t] = None
       THEN /\ shared' = [shared EXCEPT ![t] = [held |-> k \in Whole, value |-> None]]
            /\ Touch(p, "shared", k, TRUE)
            /\ \E answered \in BOOLEAN :
                  /\ Answered(answered)
                  /\ Become(p, IF answered THEN [r EXCEPT !.at = "add"] ELSE Written(r, FALSE))
            /\ remade' = Remade(k) \ {p}
       ELSE /\ Become(p, [r EXCEPT !.at = "check"])
            /\ remade' = remade \ {p}
            /\ UNCHANGED <<shared, faults, touched>>
    /\ UNCHANGED <<product, configured, here, next>>

\* Mutant of MayAdd: the label of a secret that was there already does not matter.
MayAddMutAny(k) == k \in Plain \/ shared[Slot(k)] # None

\* The label decides, and a whole key needs the secret to be there still (storeKeyState).
MayAdd(k) == IF k \in Plain THEN shared[Slot(k)] = None \/ Reaches(k) ELSE Reaches(k)

CheckLabel(p) ==
    /\ At(p, {"check"})
    /\ Become(p, IF MayAdd(Key(run[p])) THEN [run[p] EXCEPT !.at = "add"] ELSE Written(run[p], FALSE))
    /\ UNCHANGED <<product, configured, contents, next, faults, history>>

AddVersion(p) ==
    LET r == run[p]  k == Key(r)  t == Slot(k) IN
    /\ At(p, {"add"})
    /\ IF shared[t] = None
       THEN Become(p, Written(r, FALSE)) /\ UNCHANGED <<shared, faults, touched>>
       ELSE /\ shared' = [shared EXCEPT ![t].value = r.vals[k]]
            /\ Touch(p, "shared", k, Reaches(k))
            /\ \E answered \in BOOLEAN : Answered(answered) /\ Become(p, Written(Noted(Used(p)), answered))
    /\ remade' = remade \ {p}
    /\ UNCHANGED <<product, configured, here, next>>

WriteRefused(p) ==
    /\ At(p, {"write", "check", "add"})
    /\ Fault
    /\ Become(p, Written(run[p], FALSE))
    /\ UNCHANGED <<product, configured, contents, next, history>>

\* A migration has copied: the destination becomes the configured store.
Switch(p) ==
    /\ At(p, {"switch"})
    /\ configured' = run[p].to
    /\ Become(p, Over)
    /\ UNCHANGED <<product, contents, next, faults, history>>

-----------------------------------------------------------------------------
(* The deletion of one key.                                                *)

Deleted(r) == Onward(r, "delete", Over)

DeleteHere(p) ==
    LET r == run[p]  k == Key(r) IN
    /\ At(p, {"delete"}) /\ r.to = "here"
    /\ here' = [here EXCEPT ![k] = None]
    /\ Touch(p, "here", k, TRUE)
    /\ Become(p, Deleted(r))
    /\ UNCHANGED <<product, configured, shared, next, faults, remade>>

\* What is left when a key is deleted: a Vault keeps the entry, without a value.
Erased(k) == IF product = "vault" /\ shared[k] # None THEN [shared[k] EXCEPT !.value = None] ELSE None

\* An error ends the command; the request may have been applied.
DeleteVault(p) ==
    LET r == run[p]  k == Key(r) IN
    /\ At(p, {"delete"}) /\ r.to = "shared" /\ product = "vault"
    /\ shared' = [shared EXCEPT ![k] = Erased(k)]
    /\ Touch(p, "shared", k, TRUE)
    /\ \E answered \in BOOLEAN : Answered(answered) /\ Become(p, IF answered THEN Deleted(r) ELSE Over)
    /\ UNCHANGED <<product, configured, here, next, remade>>

\* Secret Manager: a key whose secret is of another kind is refused, or counts as not there.
DeleteLabel(p) ==
    LET r == run[p]  k == Key(r) IN
    /\ At(p, {"delete"}) /\ r.to = "shared" /\ product = "gcp-sm"
    /\ Become(p, CASE Reaches(k) -> [r EXCEPT !.at = "erase"]
                   [] k \in Plain /\ shared[Slot(k)] # None /\ ~Reaches(k) -> Over
                   [] OTHER -> Deleted(r))
    /\ remade' = remade \ {p}
    /\ UNCHANGED <<product, configured, contents, next, faults, touched>>

Erase(p) ==
    LET r == run[p]  t == Slot(Key(r))  used == IF shared[t] = None THEN r ELSE Used(p) IN
    /\ At(p, {"erase"})
    /\ shared' = [shared EXCEPT ![t] = Erased(t)]
    /\ Touch(p, "shared", Key(r), TRUE)
    /\ \E answered \in BOOLEAN : Answered(answered) /\ Become(p, IF answered THEN Deleted(used) ELSE Over)
    /\ remade' = remade \ {p}
    /\ UNCHANGED <<product, configured, here, next>>

-----------------------------------------------------------------------------
\* A report is printed and the process is gone; or it is killed at any moment.
Ends(p) ==
    /\ Running(run[p])
    /\ Become(p, Over)
    /\ touched' = [touched EXCEPT ![p] = {}]
    /\ remade' = remade \ {p}
    /\ UNCHANGED <<product, configured, contents, next, faults>>

\* Another machine stores a value under a key, or deletes it.
Elsewhere(k) ==
    /\ \/ /\ shared[Slot(k)] = None \/ Reaches(k)
          /\ next <= MaxValue
          /\ next' = next + 1
          /\ shared' = [shared EXCEPT ![Slot(k)] = [held |-> k \in Whole, value |-> next]]
          /\ remade' = IF shared[Slot(k)] = None THEN Remade(k) ELSE remade
       \/ /\ Reaches(k)
          /\ shared' = [shared EXCEPT ![Slot(k)] = Erased(Slot(k))]
          /\ UNCHANGED <<remade, next>>
    /\ touched' = [q \in Runs |-> Unseen(q, "shared", k)]
    /\ UNCHANGED <<product, configured, here, faults, run>>

\* What a process does.
Step(p) ==
    \/ Begin(p) \/ Throws(p, {"list", "resolve", "delete", "erase"})
    \/ ListToSync(p) \/ ListToPush(p) \/ ListToPurge(p) \/ Resolve(p) \/ Ask(p)
    \/ ReadAtOnce(p) \/ ReadLabel(p) \/ Fetch(p) \/ ReadRefused(p) \/ Compare(p)
    \/ WriteHere(p) \/ WriteVault(p) \/ CreateSecret(p) \/ CheckLabel(p) \/ AddVersion(p)
    \/ WriteRefused(p) \/ Switch(p)
    \/ DeleteHere(p) \/ DeleteVault(p) \/ DeleteLabel(p) \/ Erase(p)
    \/ Ends(p)

Next == (\E p \in Runs : Step(p)) \/ (\E k \in Keys : Elsewhere(k))

Spec == Init /\ [][Next]_vars

-----------------------------------------------------------------------------
(* Properties.                                                             *)

\* Where a command can be.
Places == {"idle", "over", "list", "resolve", "ask", "read", "fetch", "compare", "write", "check",
           "add", "delete", "erase", "switch", "report"}
Values == 1..MaxValue \union {None}
Stores == {"here", "shared"}
Records ==
    [cmd : Kinds \union {None}, at : Places,
     from : Stores \union {None}, to : Stores \union {None}, force : BOOLEAN, dry : BOOLEAN,
     plan : Seq(Keys), i : Nat, prefix : 1..2, stored : SUBSET Keys, vals : [Keys -> Values],
     said : [Keys -> Sayings \union {None}], base : [Keys -> Values], skipped : SUBSET Keys,
     wrote : SUBSET Keys, strayed : BOOLEAN]

TypeOK ==
    /\ product \in Products /\ configured \in Stores
    /\ here \in [Keys -> Values]
    /\ shared \in [Keys -> {None} \union [held : BOOLEAN, value : Values]]
    /\ next \in 3..MaxValue + 1 /\ faults \in 0..MaxFaults
    /\ run \in [Runs -> Records]
    /\ touched \in [Runs -> SUBSET Keys] /\ remade \subseteq Runs

\* An unforced sync replaces a local value only where another process stored one after the
\* sync had listed, or read, what was there (secret-sync.ts).
UnforcedKeepsLocal ==
    [][\A p \in Runs : \A k \in Keys :
          /\ run[p].cmd = "sync" /\ ~run[p].force /\ run[p] # run'[p]
          /\ here[k] # None /\ here'[k] # here[k]
          => k \in touched[p]]_vars

\* What sync reports of a name is so when it reports it, but for what others wrote meanwhile.
SyncTellsTruth ==
    \A p \in Runs : At(p, {"report"}) /\ run[p].cmd = "sync" =>
        \A k \in Plain : k \notin touched[p] =>
            LET said == run[p].said[k] IN
            /\ said = "unchanged" => here[k] = run[p].vals[k]
            /\ said \in {"create", "update"} => (here[k] = run[p].vals[k]) = ~run[p].dry
            /\ said \in {"local-only", "conflict"} => here[k] # None
            /\ said = "not-found" => here[k] = None

\* The command ends by saying that nothing was pushed: no name is called pushed, and it failed.
SaysNothingPushed(p) ==
    /\ At(p, {"report"}) /\ run[p].cmd = "push"
    /\ \A k \in Plain : run[p].said[k] # "pushed"
    /\ (\E k \in Plain : run[p].said[k] \in {"failed", "would-refuse"}) \/ \A k \in Plain : run[p].said[k] = None

\* A push that ends in an error before its writes has written nothing; one that reports has
\* written what it calls pushed, in order, nothing of what it calls skipped, and of what it calls
\* failed, if it has at all, the one name.  Where it says that nothing was pushed, that one has
\* been written if its answer came too late (see NothingPushedIsSo).
PushTellsTruth ==
    \A p \in Runs : At(p, {"report"}) /\ run[p].cmd = "push" =>
        LET said == run[p].said IN
        /\ (\A k \in Plain : said[k] = None) \/ run[p].dry => run[p].wrote = {}
        /\ {k \in Plain : said[k] = "pushed"} \subseteq run[p].wrote
        /\ \A k \in run[p].wrote : said[k] \in {"pushed", "failed"}
        /\ Cardinality({k \in Plain : said[k] = "failed"}) <= 1

\* When the command says that nothing was pushed, nothing was (commands/secrets.ts).  The code
\* does not have it: of a write whose answer comes too late the backend says that it may have
\* been applied, in a line of the error the push leaves out (errorText).
NothingPushedIsSo ==
    \A p \in Runs : SaysNothingPushed(p) => run[p].wrote = {}

\* What sync reports of each name, and push of each name, is so, but for the names push calls
\* failed (secret-sync.ts, secret-push.ts).
ReportsTellTruth == SyncTellsTruth /\ PushTellsTruth

\* No key reads, writes or deletes a secret of another kind, unless that secret was made after
\* the command looked at, or tried to make, the one in its place (gcp-sm.ts).
HeldStaysApart ==
    \A p \in Runs : ~run[p].strayed

\* When a migration configures its destination, the destination answers what the source held
\* for each key, but for keys that are reported as failed or that others wrote there since.
Carried(p, k) ==
    \/ run[p].base[k] = None
    \/ run[p].said[k] = "failed"
    \/ k \in touched[p]
    \/ Value(run[p].to, k) = run[p].base[k]

\* So it is for every key that a listing of the source may name and has not left out
\* (commands/backend.ts, migrate.ts).
MigrationCarriesListed ==
    \A p \in Runs : At(p, {"switch"}) =>
        \A k \in Keys \ run[p].skipped : Lists(run[p].from, k) => Carried(p, k)

\* And for every key, as the comments on the prefixes of a migration and on resolve have it
\* (commands/backend.ts:388, backends/types.ts:48).
MigrationCarriesAll ==
    \A p \in Runs : At(p, {"switch"}) => \A k \in Keys : Carried(p, k)

=============================================================================
