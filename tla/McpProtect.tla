----------------------------- MODULE McpProtect -----------------------------
(***************************************************************************)
(* protect-mcp and mcp-unprotect (mcp/protect.ts, mcp/rewrite.ts,          *)
(* commands/mcp.ts) over the configs and the store of McpBinding.          *)
(*                                                                         *)
(* A run is a process.  It awaits each call of the store, writes files one *)
(* by one, and may be killed between any two of those steps; what it       *)
(* decides for an entry it decides from the configs as it discovered them, *)
(* while it rewrites a config as it then is.  The reads one decision needs *)
(* are one step.  Each place is a file of its own; binding homes, servers  *)
(* the store refuses by name and wrappers of another build or another      *)
(* store are left out, and so is the search for copies above the           *)
(* directory of the run.                                                   *)
(***************************************************************************)
EXTENDS McpBinding

CONSTANTS
    Runs,      \* processes
    Order,     \* the order discovery finds the places in: a number of each
    Unread,    \* a run has not read the binding yet
    MaxRuns,   \* bound on the commands
    Overlaps,  \* what may happen during a run: "run", "edit"
    Inits      \* the entries a place may hold at first

VARIABLES
    run,    \* the run of each process
    runs    \* commands started so far

ASSUME OrderAssumption ==
    /\ Order \in [Places -> Nat]
    /\ \A e, f \in Places : Order[e] = Order[f] => e = f

ASSUME UnreadAssumption == Unread \notin Bindings \union {None}

ASSUME InitsAssumption == Inits \subseteq Entries \union {NoEntry, NoFile, Cut}

vars == <<disk, ids, edits, history, run, runs>>

NoJob == [binding |-> None, expect |-> None, id |-> 0, target |-> None, keys |-> {}, moved |-> None]

NoRun == [kind |-> "none", step |-> "idle", seen |-> [e \in Places |-> NoFile], todo |-> {},
          known |-> Unread, holder |-> FALSE, job |-> NoJob, left |-> {},
          was |-> None, text |-> None, refused |-> {}, restored |-> {}]

Idle(r) == run[r].step = "idle"
AllIdle == \A r \in Runs : Idle(r)
At(r, kind, step) == run[r].kind = kind /\ run[r].step = step
Earliest(places) == CHOOSE e \in places : \A f \in places : Order[e] <= Order[f]
First(r) == Earliest(run[r].todo)

\* The configs a run in dir finds, and which of them parse.
Visible(dir) == Homes \union {d \in Projects : d = dir}
Discovered(dir) == [e \in Places |-> IF e \in Visible(dir) THEN file[e] ELSE NoFile]
Parsed(held) == held \notin {NoFile, Cut}

Start(r, kind, dir) ==
    /\ Idle(r)
    /\ AllIdle \/ "run" \in Overlaps
    /\ runs < MaxRuns
    /\ runs' = runs + 1
    /\ run' = [run EXCEPT ![r] =
           [NoRun EXCEPT !.kind = kind, !.step = "next", !.seen = Discovered(dir),
                         !.todo = {e \in Places : Parsed(Discovered(dir)[e])}]]
    /\ UNCHANGED <<disk, ids, edits, history>>

-----------------------------------------------------------------------------
(* protect-mcp: what it does for one entry. *)

Seen(r, e) == run[r].seen[e]
Readers(r) == {e \in Places : Wrapped(Seen(r, e))}
Known(r) == IF run[r].known = Unread THEN binding ELSE run[r].known

\* Mutant of Orphaned: a config this run did not read holds no entry either.
OrphanedMutUnseen(r, b) == ~IsEntry(Seen(r, b.at))

\* orphanedBinding: the entry b names is gone, as far as this run has read.
Orphaned(r, b) ==
    \/ Seen(r, b.at) = NoEntry
    \/ b.at \in Homes /\ Seen(r, b.at) = NoFile /\ file[b.at] = NoFile

\* backupHoldsSecrets.
BackupHolds(e) ==
    /\ Names(stored) # {}
    /\ IsEntry(backup[e])
    /\ Pairs(stored) \subseteq Pairs(backup[e].env)

\* What a run is to do for an entry: the binding it stores, over the one it
\* expects; the id it writes into the config at target; the env keys it
\* moves; the place whose backup it has moved.
Job(b, expect, id, e) ==
    [binding |-> b, expect |-> expect, id |-> id, target |-> e, keys |-> {}, moved |-> None]

NewBinding(e, cmd) == [id |-> ids + 1, at |-> e, cmd |-> cmd]

\* Mutant of WithCommand: the binding keeps the command it had.
WithCommandMutKept(r, e, b) == b

WithCommand(r, e, b) == [b EXCEPT !.cmd = Seen(r, e).cmd]

\* wrappedStoreReason: the secrets in the env of a wrapped entry may be stored.
MayStore(r, e) ==
    /\ Cardinality(Readers(r)) = 1
    /\ e \in Projects => Names(stored) = {}
    /\ \A k \in Names(Seen(r, e).env) : stored[k] \in {None, Seen(r, e).env[k]}

\* The plan for an entry not wrapped yet: nameHolders, projectStoredReason,
\* unwrappedStoredReason, and whose binding it may write over.
FreshPlan(r, e, b) ==
    IF /\ Names(Seen(r, e).env) # {}
       /\ Readers(r) = {} /\ ~run[r].holder
       /\ e \in Projects => Names(stored) = {}
       /\ Pairs(stored) \subseteq Pairs(Seen(r, e).env)
       /\ b = None \/ b.at = e \/ (Orphaned(r, b) /\ Scope(b.at) = Scope(e))
    THEN "fresh" ELSE "left"

\* bindWrapped, no binding stored.
UnboundPlan(r, e) ==
    IF /\ Readers(r) = {e}
       /\ e \in Homes \/ BackupHolds(e)
          \/ (Names(Seen(r, e).env) # {} /\ MayStore(r, e) /\ Names(stored) = {})
    THEN "bind" ELSE "left"

\* movedEntry.
Moved(r, e, b) ==
    /\ e \in Projects /\ b.at \in Projects
    /\ Readers(r) = {e}
    /\ file[b.at] = NoFile
    /\ BackupHolds(b.at)

\* bindWrapped, the binding's entry is gone: may e take it over?
TakesOver(r, e, b) ==
    /\ Readers(r) = {e}
    /\ Scope(e) = Scope(b.at)
    /\ e \in Projects => b.cmd = Seen(r, e).cmd

\* bindWrapped, binding b stored: its early returns in their order.
WrappedPlan(r, e, b) ==
    LET s == Seen(r, e)
        here == b.at = e
        carries == s.id = b.id
    IN  IF carries /\ here
        THEN IF b.cmd = s.cmd THEN "bound" ELSE IF e \in Homes THEN "rebind" ELSE "left"
        ELSE IF carries /\ Moved(r, e, b) THEN IF b.cmd = s.cmd THEN "moved" ELSE "left"
        ELSE IF ~here /\ Orphaned(r, b) THEN IF TakesOver(r, e, b) THEN "bind" ELSE "left"
        ELSE IF carries THEN IF b.at \in Homes /\ Wrapped(Seen(r, b.at)) THEN "replace" ELSE "left"
        ELSE IF here /\ e \in Homes THEN "stale" ELSE "left"

PlanOf(r, e, b) ==
    IF ~IsEntry(Seen(r, e)) THEN "left"
    ELSE IF ~Seen(r, e).wrapped THEN FreshPlan(r, e, b)
    ELSE IF b = None THEN UnboundPlan(r, e)
    ELSE WrappedPlan(r, e, b)

\* The binding takes the entry's command where that has changed, and the
\* entry the binding's id.
StaleJob(r, e, b) ==
    Job(IF b.cmd = Seen(r, e).cmd THEN None ELSE WithCommand(r, e, b), b, b.id, e)

\* applyBinding and replaceBinding: what a plan stores and writes.
JobOf(r, e, b, plan) ==
    CASE plan \in {"fresh", "bind"} -> Job(NewBinding(e, Seen(r, e).cmd), b, ids + 1, e)
      [] plan = "moved"   -> [Job(NewBinding(e, Seen(r, e).cmd), b, ids + 1, e) EXCEPT !.moved = b.at]
      [] plan = "bound"   -> Job(None, b, 0, e)
      [] plan = "rebind"  -> Job(WithCommand(r, e, b), b, 0, e)
      [] plan = "stale"   -> StaleJob(r, e, b)
      [] plan = "replace" -> Job([b EXCEPT !.id = ids + 1], b, ids + 1, b.at)

\* The env keys whose secrets a plan moves into the store.
KeysOf(r, e, plan) ==
    IF plan = "fresh" \/ (plan # "replace" /\ MayStore(r, e)) THEN Names(Seen(r, e).env) ELSE {}

Updates(r, state) == run' = [run EXCEPT ![r] = state]

\* The run is done with the entry at the head.
Passes(r) == Updates(r, [run[r] EXCEPT !.todo = @ \ {First(r)}, !.step = "next", !.job = NoJob,
                                       !.was = None, !.text = None])

Plan(r) ==
    /\ At(r, "protect", "next") /\ run[r].todo # {}
    /\ LET e == First(r)
           plan == PlanOf(r, e, Known(r))
           job == [JobOf(r, e, Known(r), plan) EXCEPT !.keys = KeysOf(r, e, plan)]
       IN  IF plan = "left"
           THEN Passes(r) /\ UNCHANGED <<disk, ids>>
           ELSE /\ Updates(r, [run[r] EXCEPT
                       !.step = IF job.binding = None THEN "secrets" ELSE "expect",
                       !.known = Known(r), !.job = job, !.left = job.keys,
                       !.was = IF plan = "moved" THEN backup[e] ELSE None])
                /\ ids' = IF job.id > ids THEN job.id ELSE ids
                \* moveConfigBackup
                /\ backup' = IF plan = "moved"
                             THEN [backup EXCEPT ![e] = backup[job.moved], ![job.moved] = None]
                             ELSE backup
                /\ UNCHANGED <<file, stored, binding>>
    /\ UNCHANGED <<edits, history, runs>>

\* The binding of the entry at the head is not stored: the entry is left, and
\* a moved backup put back.
LeavesUnbound(r) ==
    /\ backup' = IF run[r].job.moved = None THEN backup
                 ELSE [backup EXCEPT ![run[r].job.moved] = backup[First(r)], ![First(r)] = run[r].was]
    /\ Updates(r, [run[r] EXCEPT !.todo = @ \ {First(r)}, !.step = "next", !.job = NoJob, !.was = None,
                                 !.refused = @ \union {First(r)}])

\* expectBinding, before a store and before a delete: the binding is read
\* again, and when it is not the one read before, nothing is done.
Expect(r) ==
    /\ run[r].step = "expect"
    /\ IF binding = run[r].job.expect
       THEN /\ Updates(r, [run[r] EXCEPT !.step = IF run[r].kind = "protect" THEN "store" ELSE "names"])
            /\ UNCHANGED backup
       ELSE IF run[r].kind = "protect" THEN LeavesUnbound(r)
       ELSE Updates(r, [run[r] EXCEPT !.step = "done"]) /\ UNCHANGED backup
    /\ UNCHANGED <<file, stored, binding, ids, edits, history, runs>>

\* The store refuses the binding.
Refused(r) ==
    /\ At(r, "protect", "store")
    /\ LeavesUnbound(r)
    /\ UNCHANGED <<file, stored, binding, ids, edits, history, runs>>

StoreBinding(r) ==
    /\ At(r, "protect", "store")
    /\ binding' = run[r].job.binding
    /\ Updates(r, [run[r] EXCEPT !.step = "secrets", !.known = run[r].job.binding, !.was = None,
                                 !.holder = @ \/ ~Seen(r, First(r)).wrapped])
    /\ UNCHANGED <<file, backup, stored, ids, edits, history, runs>>

StoreSecret(r, k) ==
    /\ At(r, "protect", "secrets") /\ k \in run[r].left
    /\ stored' = [stored EXCEPT ![k] = Seen(r, First(r)).env[k]]
    /\ Updates(r, [run[r] EXCEPT !.left = @ \ {k}])
    /\ UNCHANGED <<file, backup, binding, ids, edits, history, runs>>

-----------------------------------------------------------------------------
(* The rewrite of a config: rewriteServerMaps. *)

\* Mutant of Without: the whole env is taken out.
WithoutMutAll(env, keys) == NoSecrets

Without(env, keys) == [k \in EnvKeys |-> IF k \in keys THEN None ELSE env[k]]

\* What a run makes of the config as it now is: wrapServers for an entry it
\* found unwrapped; removeEnvKeys and bindServers for a wrapped one.
Rewritten(r, cur) ==
    LET job == run[r].job
        fresh == ~Seen(r, job.target).wrapped
    IN  IF ~IsEntry(cur) \/ (fresh /\ cur.wrapped) THEN cur
        ELSE IF fresh
        THEN [cur EXCEPT !.wrapped = TRUE, !.id = job.id, !.env = Without(@, job.keys)]
        ELSE [cur EXCEPT !.id = IF cur.wrapped /\ job.id # 0 THEN job.id ELSE @,
                         !.env = Without(@, job.keys)]

\* The config is read, and what it will be is made of it, where there is
\* something to write.  A config that does not parse, or is gone, ends the
\* run: see WriteFails.
HasToWrite(r) == run[r].job.id # 0 \/ run[r].job.keys # {}

ReadConfig(r) ==
    /\ At(r, "protect", "secrets") /\ run[r].left = {}
    /\ LET cur == file[run[r].job.target]
       IN  /\ HasToWrite(r) => Parsed(cur)
           /\ IF Rewritten(r, cur) = cur THEN Passes(r)
              ELSE Updates(r, [run[r] EXCEPT !.step = "backup", !.was = cur, !.text = Rewritten(r, cur)])
    /\ UNCHANGED <<disk, ids, edits, history, runs>>

WriteBackup(r) ==
    /\ At(r, "protect", "backup")
    /\ LET e == run[r].job.target
       IN  backup' = IF Seen(r, e).wrapped /\ backup[e] # None THEN backup
                     ELSE [backup EXCEPT ![e] = run[r].was]
    /\ Updates(r, [run[r] EXCEPT !.step = "write"])
    /\ UNCHANGED <<file, stored, binding, ids, edits, history, runs>>

\* A bound entry whose id was replaced is read, later in the run, with it.
WriteConfig(r) ==
    /\ At(r, "protect", "write")
    /\ LET e == run[r].job.target
       IN  /\ file' = [file EXCEPT ![e] = run[r].text]
           /\ Updates(r, [run[r] EXCEPT
                  !.todo = @ \ {First(r)}, !.step = "next", !.job = NoJob, !.was = None, !.text = None,
                  !.seen = IF e = First(r) THEN @ ELSE [@ EXCEPT ![e].id = run[r].job.id]])
    /\ UNCHANGED <<backup, stored, binding, ids, edits, history, runs>>

\* The config at e is written over in place (fs.writeFileSync), and holds held
\* from now on.  Of the secrets that were to stay in clear in it, those that
\* only it held are overwritten, but for what its backup holds.
WritesOver(e, held, secrets) ==
    /\ file' = [file EXCEPT ![e] = held]
    /\ overwritten' = (overwritten \union (OnlyAt(e) \intersect secrets)) \ InClear(backup[e])
    /\ UNCHANGED <<owed, together>>

\* The write of a config is broken off with the file emptied or half written.
\* The secrets the run was moving are no more in the text it writes.
LeavesCut(r) ==
    \/ /\ At(r, "protect", "write")
       /\ WritesOver(run[r].job.target, Cut, InClear(run[r].text))
    \/ /\ At(r, "unprotect", "next") /\ run[r].todo # {} /\ backup[First(r)] # None
       /\ WritesOver(First(r), Cut, Stands(First(r)))

\* The config could not be read or written: the run ends, but where it was
\* replacing a binding it stores the old one back.
WriteFails(r) ==
    /\ run[r].kind = "protect"
    /\ run[r].step \in {"backup", "write"} \/ (run[r].step = "secrets" /\ run[r].left = {} /\ HasToWrite(r))
    /\ Updates(r, IF run[r].job.target = First(r) THEN NoRun ELSE [run[r] EXCEPT !.step = "back"])
    /\ UNCHANGED <<file, history>> \/ LeavesCut(r)
    /\ UNCHANGED <<backup, stored, binding, ids, edits, runs>>

\* replaceBinding: the old binding is stored back, where the store holds the
\* new one and takes it.
StoreBack(r) ==
    /\ At(r, "protect", "back")
    /\ binding' \in {binding} \union {b \in {run[r].job.expect} : binding = run[r].job.binding}
    /\ Updates(r, [run[r] EXCEPT !.todo = @ \ {First(r)}, !.step = "next", !.job = NoJob, !.was = None,
                                 !.text = None, !.refused = @ \union {run[r].job.target},
                                 !.known = binding'])
    /\ UNCHANGED <<file, backup, stored, ids, edits, history, runs>>

-----------------------------------------------------------------------------
(* mcp-unprotect. *)

\* restoreConfig, for each config that parsed.
Restore(r) ==
    /\ At(r, "unprotect", "next") /\ run[r].todo # {}
    /\ LET e == First(r)
       IN  IF backup[e] = None
           THEN Passes(r) /\ UNCHANGED <<file, history>>
           ELSE /\ WritesOver(e, backup[e], Stands(e))
                /\ Updates(r, [run[r] EXCEPT !.todo = @ \ {First(r)}, !.restored = @ \union {e}])
    /\ UNCHANGED <<backup, stored, binding, ids, edits, runs>>

\* clearRestoredPairs: the restored file holds what is stored, and the pair is
\* bound to no entry outside the restored files.
MayClear(r, f) ==
    /\ Names(stored) # {}
    /\ IsEntry(file[f]) /\ Pairs(stored) \subseteq Pairs(file[f].env)
    /\ binding # None => binding.at \in run[r].restored

\* The pair is looked at once, for the first restored entry that reads it.
Clear(r) ==
    /\ At(r, "unprotect", "next") /\ run[r].todo = {}
    /\ LET reading == {e \in run[r].restored : Wrapped(Seen(r, e))}
       IN  IF reading # {} /\ MayClear(r, Earliest(reading))
           THEN Updates(r, [run[r] EXCEPT !.step = "expect", !.job = [NoJob EXCEPT !.expect = binding]])
           ELSE Updates(r, [run[r] EXCEPT !.step = "done"])
    /\ UNCHANGED <<disk, ids, edits, history, runs>>

\* removeServerSecrets: the names that are stored, then the binding.
ListNames(r) ==
    /\ At(r, "unprotect", "names")
    /\ Updates(r, [run[r] EXCEPT !.step = "delete", !.left = Names(stored)])
    /\ UNCHANGED <<disk, ids, edits, history, runs>>

DeleteName(r, k) ==
    /\ At(r, "unprotect", "delete") /\ k \in run[r].left
    /\ stored' = [stored EXCEPT ![k] = None]
    /\ Updates(r, [run[r] EXCEPT !.left = @ \ {k}])
    /\ UNCHANGED <<file, backup, binding, ids, edits, history, runs>>

\* Mutant of DeleteBinding: it is deleted before the names.
DeleteBindingMutFirst(r) ==
    /\ At(r, "unprotect", "delete")
    /\ binding # None \/ run[r].left = {}
    /\ binding' = None
    /\ Updates(r, [run[r] EXCEPT !.step = IF run[r].left = {} THEN "done" ELSE @])
    /\ UNCHANGED <<file, backup, stored, ids, edits, history, runs>>

DeleteBinding(r) ==
    /\ At(r, "unprotect", "delete") /\ run[r].left = {}
    /\ binding' = None
    /\ Updates(r, [run[r] EXCEPT !.step = "done"])
    /\ UNCHANGED <<file, backup, stored, ids, edits, history, runs>>

-----------------------------------------------------------------------------

Finish(r) ==
    /\ At(r, "protect", "next") /\ run[r].todo = {}
    /\ Updates(r, [run[r] EXCEPT !.step = "done"])
    /\ UNCHANGED <<disk, ids, edits, history, runs>>

Exit(r) ==
    /\ run[r].step = "done"
    /\ Updates(r, NoRun)
    /\ UNCHANGED <<disk, ids, edits, history, runs>>

\* The run is killed, or ends because a call of the store, or mcp-unprotect's
\* write, throws.
Kill(r) ==
    /\ run[r].step \notin {"idle", "done"}
    /\ Updates(r, NoRun)
    /\ UNCHANGED <<file, history>> \/ LeavesCut(r)
    /\ UNCHANGED <<backup, stored, binding, ids, edits, runs>>

UserEdits ==
    /\ AllIdle \/ "edit" \in Overlaps
    /\ Edit
    /\ UNCHANGED <<run, runs>>

ProtectStep(r) ==
    \/ Plan(r) \/ Refused(r) \/ StoreBinding(r)
    \/ \E k \in EnvKeys : StoreSecret(r, k)
    \/ ReadConfig(r) \/ WriteBackup(r) \/ WriteConfig(r) \/ WriteFails(r) \/ StoreBack(r)
    \/ Finish(r)

UnprotectStep(r) ==
    \/ Restore(r) \/ Clear(r) \/ ListNames(r)
    \/ \E k \in EnvKeys : DeleteName(r, k)
    \/ DeleteBinding(r)

Init ==
    /\ file \in [Places -> Inits]
    /\ backup = [e \in Places |-> None]
    /\ stored = NoSecrets
    /\ binding = None
    /\ ids = 0
    /\ edits = 0
    /\ owed = UNION {InClear(file[e]) : e \in Places}
    /\ overwritten = {}
    /\ together = UNION {Stood(file[e]) : e \in Places}
    /\ run = [r \in Runs |-> NoRun]
    /\ runs = 0

Next ==
    \/ \E r \in Runs :
        \/ \E kind \in {"protect", "unprotect"}, dir \in Dirs : Start(r, kind, dir)
        \/ Expect(r)
        \/ ProtectStep(r)
        \/ UnprotectStep(r)
        \/ Exit(r)
        \/ Kill(r)
    \/ UserEdits

Spec == Init /\ [][Next]_vars

-----------------------------------------------------------------------------
(* Properties. *)

\* A process with no run, or one of the two commands, in a step of it.
Steps == {"next", "expect", "store", "secrets", "backup", "write", "back", "names", "delete", "done"}

TypeOK ==
    /\ \A e \in Places :
        IF IsEntry(file[e]) THEN file[e].id \in 0..ids ELSE file[e] \in {NoEntry, NoFile, Cut}
    /\ stored \in [EnvKeys -> Values \union {None}]
    /\ binding = None \/ (binding.at \in Places /\ binding.id \in 1..ids /\ binding.cmd \in Commands)
    /\ \A r \in Runs : run[r].step \in Steps \/ run[r] = NoRun

\* A secret the user put in a config, and neither changed nor took out, is
\* still in clear in a config, or in the backup of one that was left cut, or
\* in the store: protect-mcp takes it out of the config after it has stored
\* it, mcp-unprotect out of the store after it is in the config, wherever one
\* of them is killed, in the middle of a write too (rewriteServerMaps,
\* restoreConfig, clearRestoredPairs).  Two losses of the code are excepted,
\* both of a secret that is newer than the backup and that no command has
\* moved: mcp-unprotect writes an older backup over it, and a write of its
\* config is broken off (see NothingOverwritten).
NoSecretLost == owed \ overwritten \subseteq Pairs(stored) \union UNION {Stands(e) : e \in Places}

\* The same without the exception: the commands write over no secret that
\* nothing else holds.  The code does not have it.
NothingOverwritten == owed \subseteq Pairs(stored) \union UNION {Stands(e) : e \in Places}

\* No secret is stored without a binding: the binding is stored first and
\* deleted last (storeBindingOf before storeServerSecrets, removeServerSecrets).
NamesAreBound == Names(stored) # {} => binding # None

\* A project's entry is started only when the pair is bound to it, and then a
\* stored value is given to a command that stood in one entry with it
\* (bindWrapped, checkStart).
ProjectStartsItsOwn ==
    \A d \in Projects : Starts(d, d) =>
        /\ binding.at = d
        /\ \A k \in Names(stored) : <<k, stored[k], file[d].cmd>> \in together

\* A run of protect-mcp that ends leaves an entry of a home config, whose pair
\* is its own and read by no other entry of the run, allowed to start: also
\* when an earlier run was killed half-way or the user changed the entry.
HealsHome ==
    \A r \in Runs, h \in Homes :
        /\ At(r, "protect", "done") /\ h \notin run[r].refused
        /\ Wrapped(file[h]) /\ Readers(r) \subseteq {h}
        /\ binding = None \/ binding.at = h
        => LaunchAllows(h, binding)

\* The secrets stored for an entry are bound to another one only when it is
\* gone from its config (orphanedBinding, movedEntry).
TakenOnlyFromGone ==
    [][binding # None /\ binding' # None /\ binding'.at # binding.at => ~IsEntry(file[binding.at])]_vars

\* removeServerSecrets: "a binding with no names, which the wrapper refuses
\* and a second call deletes".  A run of mcp-unprotect that ends has left no
\* binding without names to an entry it restored.
LeftoverDeleted ==
    \A r \in Runs : At(r, "unprotect", "done") /\ Names(stored) = {} /\ binding # None
        => binding.at \notin run[r].restored
=============================================================================
