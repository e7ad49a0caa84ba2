----------------------------- MODULE McpBinding -----------------------------
(***************************************************************************)
(* The MCP configs and the secrets stored for them: who may start with     *)
(* them (mcp/vault.ts, mcp/start-check.ts, mcp/discover.ts) and what a     *)
(* user does to a config between two commands.                             *)
(*                                                                         *)
(* One pair (client and server name), which every entry modelled reads.  A *)
(* place is a config file that may hold an entry of that name: one of the  *)
(* home directory, or the .mcp.json of a project.  The pair is stored in a *)
(* store of this machine (local, keychain), so every binding is this       *)
(* home's (ownsBinding).  An env holds secrets only: what classifyEnvVars  *)
(* leaves in place is never moved.  A backup is kept with its place, as    *)
(* the manifest keeps it with the path.                                    *)
(***************************************************************************)
EXTENDS Integers, FiniteSets

CONSTANTS
    Homes, Projects,  \* the places, by their scope
    EnvKeys, Values, Commands,
    None,
    NoEntry,          \* what a place holds when its file has no entry of that name,
    NoFile,           \* or when there is no file,
    Cut,              \* or when it does not parse
    MaxEdits          \* bound on the user's edits

VARIABLES
    file,      \* what each place holds
    backup,    \* protect-mcp's backup of each place, or None
    stored,    \* the secrets stored under the pair, by env key
    binding,   \* the pair's binding: [id, at, cmd] or None
    ids,       \* ids given so far; 0 is no id
    edits,     \* edits of the user so far
    owed,      \* history: <<key, value>> the user put in a config and did not take out
    overwritten, \* history: <<key, value>> the tool wrote over, where nothing else held it
    together   \* history: <<key, value, command>> that stood in one entry

disk == <<file, backup, stored, binding>>
history == <<owed, overwritten, together>>

Places == Homes \union Projects

\* The binding's scope: scopeOf.
Scope(e) == IF e \in Homes THEN "home" ELSE "project"

NoSecrets == [k \in EnvKeys |-> None]
Names(env) == {k \in EnvKeys : env[k] # None}
Pairs(env) == {<<k, env[k]>> : k \in Names(env)}

\* The entries a place may hold, and the bindings.
Entries == [wrapped : BOOLEAN, id : Nat, cmd : Commands, env : [EnvKeys -> Values \union {None}]]
Bindings == [id : Nat, at : Places, cmd : Commands]

\* A config is the home directory's or a project's.
ASSUME PlacesAssumption == Homes \intersect Projects = {}

\* What a place holds without an entry is no entry, and None is no binding and no value.
ASSUME HeldAssumption ==
    /\ {NoEntry, NoFile, Cut, None} \intersect Entries = {}
    /\ None \notin Bindings
    /\ NoEntry # NoFile /\ NoEntry # Cut /\ NoFile # Cut
    /\ None \notin Values

IsEntry(held) == held \notin {NoEntry, NoFile, Cut, None}
Entry(env, cmd) == [wrapped |-> FALSE, id |-> 0, cmd |-> cmd, env |-> env]
Wrapped(held) == IsEntry(held) /\ held.wrapped

\* Mutant of PlaceAllows: a copy is not looked for.
PlaceAllowsMutNoCopies(b, dir) ==
    b.at \in Projects => dir = b.at /\ file[b.at] # NoFile

\* checkLaunchPlace: where a bound entry starts.  dir is the project the
\* client was started in, or None: its .mcp.json is what it sees there.
PlaceAllows(b, dir) ==
    /\ b.at \in Projects => dir = b.at /\ file[b.at] # NoFile
    /\ ~ \E d \in Projects \ {b.at} : d = dir /\ IsEntry(file[d]) /\ file[d].id = b.id

\* checkLaunch: the entry carries the binding's id and its command.
LaunchAllows(e, b) ==
    /\ b # None
    /\ file[e].id # 0
    /\ file[e].id = b.id
    /\ file[e].cmd = b.cmd

\* checkStart: the wrapper starts the entry at e with what is stored.  The
\* client reads a project's config in that project only.
Starts(e, dir) ==
    /\ e \in Projects => dir = e
    /\ Wrapped(file[e])
    /\ LaunchAllows(e, binding)
    /\ PlaceAllows(binding, dir)
    /\ Names(stored) # {}

Dirs == Projects \union {None}

-----------------------------------------------------------------------------
(* What a user does to a config, by hand or with a checkout. *)

\* The secrets and the command that stand together in an entry.
Stood(held) == IF IsEntry(held) THEN {<<k, held.env[k], held.cmd>> : k \in Names(held.env)} ELSE {}

\* What is in clear in a config or its backup.
InClear(held) == IF IsEntry(held) THEN Pairs(held.env) ELSE {}

\* The secrets in clear in the config at e, or in the backup of one left cut.
Stands(e) == InClear(IF file[e] = Cut THEN backup[e] ELSE file[e])

\* Those that nothing else holds.
OnlyAt(e) == Stands(e) \ (Pairs(stored) \union UNION {Stands(f) : f \in Places \ {e}})

\* What e holds from now on.  What only it held and the user leaves out is not
\* owed any more.
Edited(e, held) ==
    /\ edits < MaxEdits
    /\ file' = [file EXCEPT ![e] = held]
    /\ edits' = edits + 1
    /\ owed' = (owed \ OnlyAt(e)) \union InClear(held)
    /\ overwritten' = overwritten \ InClear(held)
    /\ together' = together \union Stood(held)
    /\ UNCHANGED <<backup, stored, binding, ids>>

SetValue(e, k, v) ==
    /\ IsEntry(file[e])
    /\ file[e].env[k] # v
    /\ Edited(e, [file[e] EXCEPT !.env[k] = v])

ChangeCommand(e, c) ==
    /\ IsEntry(file[e])
    /\ file[e].cmd # c
    /\ Edited(e, [file[e] EXCEPT !.cmd = c])

\* A config that was left cut is written anew.
AddEntry(e, k, v, c) ==
    /\ ~IsEntry(file[e])
    /\ Edited(e, Entry([NoSecrets EXCEPT ![k] = v], c))

RemoveEntry(e, held) ==
    /\ IsEntry(file[e])
    /\ held \in {NoEntry, NoFile}
    /\ Edited(e, held)

CopyEntry(e, f) ==
    /\ IsEntry(file[e])
    /\ file[f] \in {NoEntry, NoFile}
    /\ Edited(f, file[e])

\* A project directory is moved.
MoveProject(e, f) ==
    /\ {e, f} \subseteq Projects
    /\ IsEntry(file[e])
    /\ file[f] = NoFile
    /\ edits < MaxEdits
    /\ file' = [file EXCEPT ![e] = NoFile, ![f] = file[e]]
    /\ edits' = edits + 1
    /\ UNCHANGED <<backup, stored, binding, ids, history>>

Edit ==
    \E e \in Places :
        \/ \E k \in EnvKeys, v \in Values : SetValue(e, k, v)
        \/ \E c \in Commands : ChangeCommand(e, c)
        \/ \E k \in EnvKeys, v \in Values, c \in Commands : AddEntry(e, k, v, c)
        \/ \E held \in {NoEntry, NoFile} : RemoveEntry(e, held)
        \/ \E f \in Places : CopyEntry(e, f)
        \/ \E f \in Projects : MoveProject(e, f)
=============================================================================
