--------------------------- MODULE IdentityVault ---------------------------
(***************************************************************************)
(* The identity vault (vault-core.ts, commands/vault.ts): credentials in   *)
(* ~/.aim/vault, each encrypted with the key of the agent identity that    *)
(* ~/.opena2a/aim-core/identity.json holds.                                *)
(*                                                                         *)
(* Each command is a process of its own and holds no lock, so commands     *)
(* interleave between any two calls on the shared files, and a command can *)
(* be killed between them.  A command that waits for a value on stdin may  *)
(* wait long: what it read before is what it goes on with.                 *)
(*                                                                         *)
(* @opena2a/aim-core is outside.  Its calls on the vault and the namespace *)
(* registry are single steps here, and as vault-core.ts uses them: unlock  *)
(* does not check the key, storing replaces, rotating needs a credential   *)
(* to rotate, and revokeNamespace tells whether it was active.             *)
(***************************************************************************)
EXTENDS Naturals, FiniteSets

CONSTANTS
    Procs,         \* the processes that run commands
    Names,         \* namespaces
    Keys,          \* keys createIdentity may draw
    Secrets,       \* the namespaces that the source of a migration names
    MaxCommands,   \* commands run in all
    MaxEdits,      \* how often the user moves or breaks identity.json
    Missing, Unusable,   \* identity.json is not there; is there and cannot be used
    None

VARIABLES
    identity,   \* what identity.json holds: a key, Missing or Unusable
    vault,      \* does the vault file exist?
    spaces,     \* the registry: "absent", "active" or "revoked"
    creds,      \* the key each namespace's credential is encrypted with
    events,     \* the changes the vault's audit log names: <<operation, name>>
    proc,       \* the command of each process: [pc, op, name, key, todo]
    commands, edits,
    born,       \* history: the keys drawn
    crossed,    \* history: did two inits overlap?
    torn,       \* history: names of which a killed or failed command left a part
    late,       \* history: names stored to after they were revoked
    changes     \* history: the changes whose call returned to a command not killed since

files == <<identity, vault, spaces, creds, events>>
counts == <<commands, edits, born, crossed>>
vars == <<files, proc, counts, torn, late, changes>>

Idle == [pc |-> "idle", op |-> None, name |-> None, key |-> None, todo |-> {}]

\* The commands that change something or hand a value to a child.  vault list, audit,
\* scan and test read the same files and change nothing.
Ops == {"init", "register", "rotate", "revoke", "exec", "migrate"}

\* A migration names namespaces, and a file without a key holds none.
ASSUME VaultAssumption ==
    /\ Secrets \subseteq Names /\ None \notin Names \union Ops
    /\ Keys \intersect {Missing, Unusable, None} = {}
    /\ MaxCommands \in Nat /\ MaxEdits \in Nat

Init ==
    /\ identity = Missing
    /\ vault = FALSE
    /\ spaces = [n \in Names |-> "absent"]
    /\ creds = [n \in Names |-> None]
    /\ events = {}
    /\ proc = [p \in Procs |-> Idle]
    /\ commands = 0 /\ edits = 0
    /\ born = {} /\ crossed = FALSE /\ torn = {} /\ late = {} /\ changes = {}

Goto(p, place) == proc' = [proc EXCEPT ![p].pc = place]
Done(p) == proc' = [proc EXCEPT ![p] = Idle]
At(p, place) == proc[p].pc = place

\* An event the process has caused and not yet logged.
Pending(p) ==
    CASE At(p, "logInit")  -> {<<"init", None>>}
      [] At(p, "log")      -> {<<proc[p].op, proc[p].name>>}
      [] OTHER             -> {}

-----------------------------------------------------------------------------
(* The start of each command.                                              *)

Start(p, op, n) ==
    /\ At(p, "idle")
    /\ commands < MaxCommands
    /\ commands' = commands + 1
    /\ crossed' = (crossed \/ (op = "init" /\ \E q \in Procs : proc[q].op = "init"))
    /\ proc' = [proc EXCEPT
           ![p] = [pc |-> IF op = "init" THEN "readIdentity" ELSE "open", op |-> op,
                   name |-> IF op \in {"init", "migrate"} THEN None ELSE n, key |-> None,
                   todo |-> IF op = "migrate" THEN Secrets ELSE {}]]
    /\ UNCHANGED <<files, edits, born, torn, late, changes>>

\* What follows getVaultStore.
First(op) ==
    CASE op = "revoke"  -> "revoke"
      [] op = "exec"    -> "resolve"
      [] op = "migrate" -> "next"
      [] OTHER          -> "value"

\* getVaultStore: refuses without a vault, or without an identity it can use.
Open(p) ==
    /\ At(p, "open")
    /\ IF vault /\ identity \in Keys
       THEN proc' = [proc EXCEPT ![p].key = identity, ![p].pc = First(proc[p].op)]
       ELSE Done(p)
    /\ UNCHANGED <<files, counts, torn, late, changes>>

-----------------------------------------------------------------------------
(* vault init                                                              *)

\* Mutant of MayCreate: a vault is no reason to keep from creating an identity.
MayCreateMutBesideVault == identity = Missing

\* A new identity is created only with no vault and no identity.json.
MayCreate == identity = Missing /\ ~vault

ReadIdentity(p) ==
    /\ At(p, "readIdentity")
    /\ \/ /\ identity \in Keys
          /\ proc' = [proc EXCEPT ![p].key = identity, ![p].pc = "initStore"]
       \/ identity \notin Keys /\ MayCreate /\ Goto(p, "createIdentity")
       \/ identity \notin Keys /\ ~MayCreate /\ Done(p)
    /\ UNCHANGED <<files, counts, torn, late, changes>>

CreateIdentity(p) ==
    /\ At(p, "createIdentity")
    /\ \E k \in Keys \ born :
          /\ identity' = k
          /\ born' = born \union {k}
          /\ proc' = [proc EXCEPT ![p].key = k, ![p].pc = "initStore"]
    /\ UNCHANGED <<vault, spaces, creds, events, commands, edits, crossed, torn, late,
                   changes>>

\* store.exists and store.init.
InitStore(p) ==
    /\ At(p, "initStore")
    /\ vault' = TRUE
    /\ IF vault THEN Done(p) /\ UNCHANGED changes
       ELSE Goto(p, "logInit") /\ changes' = changes \union {<<"init", None>>}
    /\ UNCHANGED <<identity, spaces, creds, events, counts, torn, late>>

-----------------------------------------------------------------------------
(* vault register, rotate, revoke, exec and migrate                        *)

\* Mutant of ReadValue: the namespace is taken before the value is looked at.
ReadValueMutLate(p) ==
    /\ At(p, "value")
    /\ spaces' = [spaces EXCEPT ![proc[p].name] = IF @ = "absent" THEN "active" ELSE @]
    /\ Done(p) \/ Goto(p, IF proc[p].op = "rotate" THEN "store" ELSE "name")
    /\ UNCHANGED <<identity, vault, creds, events, counts, torn, late, changes>>

\* The value from the prompt, the pipe or the environment; an empty one is refused
\* before anything is touched.
ReadValue(p) ==
    /\ At(p, "value")
    /\ Done(p) \/ Goto(p, IF proc[p].op = "rotate" THEN "store" ELSE "name")
    /\ UNCHANGED <<files, counts, torn, late, changes>>

\* getNamespace, then createNamespace when there is none; a registration into one that
\* exists goes on, whatever its status.  A migration found none before it read the
\* value, and fails when there is one now.
TakeName(p) ==
    LET n == proc[p].name IN
    /\ At(p, "name")
    /\ spaces' = [spaces EXCEPT ![n] = IF @ = "absent" THEN "active" ELSE @]
    /\ IF proc[p].op = "migrate" /\ spaces[n] # "absent"
       THEN Done(p) ELSE Goto(p, "store")
    /\ UNCHANGED <<identity, vault, creds, events, counts, torn, late, changes>>

\* storeCredential, or rotateCredential, with the key that was read at the start.
Store(p) ==
    LET n == proc[p].name IN
    /\ At(p, "store")
    /\ IF proc[p].op = "rotate" /\ creds[n] = None
       THEN Done(p) /\ UNCHANGED <<creds, late, changes>>
       ELSE /\ creds' = [creds EXCEPT ![n] = proc[p].key]
            /\ late' = IF spaces[n] = "revoked" THEN late \union {n} ELSE late
            /\ changes' = changes \union {<<proc[p].op, n>>}
            /\ Goto(p, "log")
    /\ UNCHANGED <<identity, vault, spaces, events, counts, torn>>

Revoke(p) ==
    LET n == proc[p].name IN
    /\ At(p, "revoke")
    /\ spaces' = [spaces EXCEPT ![n] = IF @ = "active" THEN "revoked" ELSE @]
    /\ IF spaces[n] = "active" THEN Goto(p, "delete") ELSE Done(p)
    /\ UNCHANGED <<identity, vault, creds, events, counts, torn, late, changes>>

\* Mutant of Delete: the credential stays, since its namespace no longer resolves.
DeleteMutKept(p) ==
    /\ At(p, "delete")
    /\ changes' = changes \union {<<"revoke", proc[p].name>>}
    /\ Goto(p, "log")
    /\ UNCHANGED <<files, counts, torn, late>>

Delete(p) ==
    /\ At(p, "delete")
    /\ creds' = [creds EXCEPT ![proc[p].name] = None]
    /\ changes' = changes \union {<<"revoke", proc[p].name>>}
    /\ Goto(p, "log")
    /\ UNCHANGED <<identity, vault, spaces, events, counts, torn, late>>

Log(p) ==
    /\ At(p, "log") \/ At(p, "logInit")
    /\ events' = events \union Pending(p)
    /\ IF proc[p].op = "migrate" THEN Goto(p, "next") ELSE Done(p)
    /\ UNCHANGED <<identity, vault, spaces, creds, counts, torn, late, changes>>

\* resolveWithPolicy, and the child that runs with the value.
Resolve(p) ==
    /\ At(p, "resolve")
    /\ IF spaces[proc[p].name] = "active" /\ creds[proc[p].name] = proc[p].key
       THEN Goto(p, "child") ELSE Done(p)
    /\ UNCHANGED <<files, counts, torn, late, changes>>

ChildExits(p) ==
    /\ At(p, "child")
    /\ Done(p)
    /\ UNCHANGED <<files, counts, torn, late, changes>>

\* The loop of a migration: a name whose namespace exists is skipped, whether or not it
\* holds a credential; the value of any other is read next, and may be empty.
NextName(p) ==
    /\ At(p, "next")
    /\ \/ proc[p].todo = {} /\ Done(p)
       \/ \E n \in proc[p].todo, empty \in BOOLEAN :
             LET skip == spaces[n] # "absent" \/ empty IN
             proc' = [proc EXCEPT ![p].todo = @ \ {n},
                                  ![p].name = IF skip THEN None ELSE n,
                                  ![p].pc = IF skip THEN "next" ELSE "name"]
    /\ UNCHANGED <<files, counts, torn, late, changes>>

-----------------------------------------------------------------------------
(* Kills, and the user's hand on identity.json.                            *)

\* A process is killed; the part it leaves is what it has done and was about to complete.
Kill(p) ==
    /\ ~At(p, "idle")
    /\ torn' = IF At(p, "delete") \/ (At(p, "store") /\ proc[p].op # "rotate")
               THEN torn \union {proc[p].name} ELSE torn
    /\ changes' = changes \ Pending(p)
    /\ Done(p)
    /\ UNCHANGED <<files, counts, late>>

\* The user moves identity.json aside, or it is damaged.
BreakIdentity(broken) ==
    /\ edits < MaxEdits
    /\ edits' = edits + 1
    /\ identity \in Keys
    /\ identity' = broken
    /\ UNCHANGED <<vault, spaces, creds, events, proc, commands, born, crossed, torn,
                   late, changes>>

Next ==
    \/ \E p \in Procs :
          \/ \E op \in Ops, n \in Names : Start(p, op, n)
          \/ Open(p) \/ ReadIdentity(p) \/ CreateIdentity(p) \/ InitStore(p)
          \/ ReadValue(p) \/ TakeName(p) \/ Store(p)
          \/ Revoke(p) \/ Delete(p) \/ Log(p)
          \/ Resolve(p) \/ ChildExits(p) \/ NextName(p) \/ Kill(p)
    \/ \E broken \in {Missing, Unusable} : BreakIdentity(broken)

Spec == Init /\ [][Next]_vars
-----------------------------------------------------------------------------
(* Properties.                                                             *)

\* Where a command can be, and what the registry says of a namespace.
Places == {"idle", "open", "readIdentity", "createIdentity", "initStore", "logInit", "value",
           "name", "store", "log", "revoke", "delete", "resolve", "child", "next"}
Statuses == {"absent", "active", "revoked"}

TypeOK ==
    /\ identity \in Keys \union {Missing, Unusable}
    /\ vault \in BOOLEAN
    /\ spaces \in [Names -> Statuses]
    /\ creds \in [Names -> Keys \union {None}]
    /\ proc \in [Procs -> [pc : Places, op : Ops \union {None}, name : Names \union {None},
                          key : Keys \union {None}, todo : SUBSET Names]]
    /\ commands \in 0..MaxCommands /\ edits \in 0..MaxEdits
    /\ born \subseteq Keys /\ crossed \in BOOLEAN
    /\ torn \subseteq Names /\ late \subseteq Names
    /\ events \union changes \subseteq Ops \X (Names \union {None})

\* Every credential in the vault decrypts with the identity in place, unless two inits
\* ran at once: no command creates a second identity beside a vault, though the user may
\* have moved the first aside or broken it.
\* vault-core.ts: readAgentIdentity, vaultInit, getVaultStore.
CredentialOpens ==
    ~crossed => \A n \in Names :
        identity \in Keys /\ creds[n] # None => creds[n] = identity

\* An active namespace holds a credential, or one is on its way, or a command was cut
\* between the two: an empty value is refused before the name is taken.
\* vault-core.ts: vaultRegister, vaultMigrate, vaultRevoke.
ActiveHasCredential ==
    \A n \in Names : spaces[n] = "active" /\ creds[n] = None =>
        n \in torn \/ \E p \in Procs : At(p, "store") /\ proc[p].name = n

\* A revoked namespace holds no credential once its revoke has ended, unless the revoke
\* was cut in between, or a register or rotate stored to it afterwards.
\* vault-core.ts: vaultRevoke.
RevokedIsEmpty ==
    \A n \in Names : spaces[n] = "revoked" /\ creds[n] # None =>
        n \in torn \union late \/ \E p \in Procs : At(p, "delete") /\ proc[p].name = n

\* A change of the vault by a command that was not killed is in the audit log when the
\* command ends.
\* vault-core.ts: the calls of logVaultEvent.
ChangesAreLogged == changes \ events \subseteq UNION {Pending(p) : p \in Procs}

\* The identity that is there is never replaced by a command (a hypothesis: see
\* the README).
\* vault-core.ts: vaultInit.
IdentityKept == [][identity' \notin Keys \/ identity \in {identity', Missing, Unusable}]_vars

\* What vault register stored and did not refuse can be used: its namespace is not revoked
\* (a hypothesis: see the README).
\* vault-core.ts: the message vaultRegister ends with.
RegisteredResolves ==
    \A p \in Procs : At(p, "log") /\ proc[p].op = "register" =>
        spaces[proc[p].name] = "active"

\* A namespace that was ever revoked holds no credential once nothing runs (a hypothesis:
\* see the README).
\* commands/vault.ts: "Revoke a namespace (delete credential)".
RevokeDeletes ==
    (\A p \in Procs : At(p, "idle")) =>
        \A n \in Names : spaces[n] = "revoked" => creds[n] = None
=============================================================================
