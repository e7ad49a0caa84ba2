-------------------------- MODULE McpProtectProofs --------------------------
(***************************************************************************)
(* protect-mcp and mcp-unprotect, for every set of homes, projects, keys,  *)
(* values and commands, and any number of runs, kills and edits, as long   *)
(* as no two runs overlap.                                                 *)
(*                                                                         *)
(* A run that is alone knows the binding as it is (Knows), and has decided *)
(* the binding it stores so that the pair is never given to a command that *)
(* did not stand with it (Expects, Stores): that is NamesAreBound and      *)
(* ProjectStartsItsOwn, whatever the user does meanwhile.  While the user  *)
(* waits for the run to end too, the configs it read are those that are    *)
(* there (Fresh); so a binding is taken over only from an entry that is    *)
(* gone, what is taken out of a config is what has been stored (Copied),   *)
(* and what is written into one is what its binding starts (FitsEntry):    *)
(* TakenOnlyFromGone, HealsHome and NoSecretLost, for which what a write   *)
(* that is broken off leaves in the backup stays there (Moves).            *)
(***************************************************************************)
EXTENDS McpProtect, TLAPS, WellFoundedInduction

\* No two runs overlap; no edit overlaps a run either.
OneAtATime == "run" \notin Overlaps
UserWaits == Overlaps = {}

-----------------------------------------------------------------------------
(* The inductive invariant: types.                                         *)

Held == Entries \union {NoEntry, NoFile, Cut}
Kept == Held \union {None}
MaybeBinding == Bindings \union {None}

Jobs == [binding : MaybeBinding, expect : MaybeBinding, id : Nat, target : Places \union {None},
         keys : SUBSET EnvKeys, moved : Places \union {None}]

RunStates == [kind : {"none", "protect", "unprotect"}, step : Steps \union {"idle"},
              seen : [Places -> Held], todo : SUBSET Places, known : MaybeBinding \union {Unread},
              holder : BOOLEAN, job : Jobs, left : SUBSET EnvKeys, was : Kept, text : Kept,
              refused : SUBSET Places, restored : SUBSET Places]

DiskType ==
    /\ file \in [Places -> Held]
    /\ backup \in [Places -> Kept]
    /\ stored \in [EnvKeys -> Values \union {None}]
    /\ binding \in MaybeBinding
    /\ ids \in Nat

TypeInv == DiskType /\ run \in [Runs -> RunStates]

-----------------------------------------------------------------------------
(* The disk, and what a run that is alone holds against it.                *)

\* What is stored stood, in one entry, with the command a project's binding has.
BoundStood(b) ==
    b # None /\ b.at \in Projects => \A k \in Names(stored) : <<k, stored[k], b.cmd>> \in together

DiskStood == \A e \in Places : Stood(file[e]) \subseteq together /\ Stood(backup[e]) \subseteq together

\* One run at most, and a process without one is as it was at first.
Alone ==
    /\ \A r, q \in Runs : Idle(r) \/ Idle(q) \/ r = q
    /\ \A r \in Runs : Idle(r) => run[r] = NoRun

Protects(r, steps) == run[r].kind = "protect" /\ run[r].step \in steps

\* What a run has read, and is about to write, stood together.
RunStood(r) ==
    /\ \A e \in Places : Stood(Seen(r, e)) \subseteq together
    /\ Stood(run[r].was) \subseteq together
    /\ Stood(run[r].text) \subseteq together

\* The binding a run knows is the one that is stored.
Knows(r) == run[r].kind = "protect" => run[r].known \in {Unread, binding}

\* A run at work on an entry writes an entry to that one's config; but where it replaces
\* another entry's binding it writes that one's, and moves no secret.
Works(r) ==
    Protects(r, {"expect", "store", "secrets", "backup", "write", "back"}) =>
        /\ run[r].todo # {}
        /\ run[r].job.target \in Places
        /\ IsEntry(Seen(r, First(r))) /\ IsEntry(Seen(r, run[r].job.target))
        /\ run[r].left \subseteq run[r].job.keys
        /\ run[r].left # {} => run[r].step \in {"expect", "store", "secrets"}
        /\ run[r].step = "back" => run[r].job.target # First(r)
        /\ run[r].step \in {"backup", "write"} => IsEntry(run[r].text)
        /\ run[r].job.target # First(r) =>
              /\ run[r].job.target \in Homes
              /\ run[r].job.keys = {}
              /\ Seen(r, run[r].job.target).wrapped
              /\ run[r].job.id # 0
              /\ run[r].job.binding # None /\ run[r].job.expect # None
              /\ run[r].job.binding.at = run[r].job.expect.at
              /\ run[r].job.binding.cmd = run[r].job.expect.cmd

\* Binding b is the one under which the secrets of the entry at the head are stored.
HeadsOwn(r, b) == run[r].left # {} =>
    b # None /\ b.at = First(r) /\ b.cmd = Seen(r, First(r)).cmd

\* A run about to store a binding knows which one is stored, and its own one
\* is for a command that what is stored stood with.
Expects(r) ==
    Protects(r, {"expect", "store"}) =>
        /\ run[r].job.binding # None
        /\ run[r].job.expect = run[r].known
        /\ run[r].known = binding
        /\ BoundStood(run[r].job.binding)
        /\ HeadsOwn(r, run[r].job.binding)

\* A run that stores secrets does so under the entry's own binding.
Stores(r) == Protects(r, {"secrets"}) => HeadsOwn(r, binding)

\* A run that deletes has every stored name on its list.
Deletes(r) == At(r, "unprotect", "delete") => Names(stored) \subseteq run[r].left

RunInv(r) == RunStood(r) /\ Knows(r) /\ Works(r) /\ Expects(r) /\ Stores(r) /\ Deletes(r)

Inv ==
    /\ TypeInv
    /\ NamesAreBound
    /\ BoundStood(binding)
    /\ DiskStood
    /\ Alone
    /\ \A r \in Runs : RunInv(r)

-----------------------------------------------------------------------------
(* While the user waits for a run to end.                                  *)

\* The configs a run has not come to are as it read them, but for one of a home
\* that it could not write, and where it found no entry there is none.
Fresh(r) ==
    run[r].kind = "protect" =>
        /\ \A e \in run[r].todo : Seen(r, e) = file[e] \/ (file[e] = Cut /\ e \in Homes)
        /\ \A e \in Places : Seen(r, e) = NoEntry => ~IsEntry(file[e])

\* A run about to store the binding of another entry than it is has found that one gone.
FindsGone(r) ==
    Protects(r, {"expect", "store"}) /\ binding # None /\ run[r].job.binding.at # binding.at
        => ~IsEntry(file[binding.at])

\* A run about to write a config makes what it writes of the config as it is.
Writes(r) ==
    Protects(r, {"backup", "write"}) =>
        LET cur == file[run[r].job.target]
        IN  IsEntry(cur) /\ run[r].text = Rewritten(r, cur)

WaitInv == Inv /\ \A r \in Runs : Fresh(r) /\ FindsGone(r) /\ Writes(r)

-----------------------------------------------------------------------------
(* A finished run leaves a home's entry able to start.                     *)

\* Binding b is the one that the entry s at e starts with, once it is given id.
FitsEntry(e, s, id, b) ==
    /\ b # None /\ b.id # 0 /\ b.at = e /\ b.cmd = s.cmd
    /\ id = b.id \/ (id = 0 /\ s.wrapped /\ s.id = b.id)

Fits(r, b) == FitsEntry(First(r), Seen(r, First(r)), run[r].job.id, b)

\* What a run at work on an entry makes of it; but where it replaces another
\* entry's binding both entries are wrapped.
Heals(r) ==
    /\ Protects(r, {"expect", "store", "secrets", "backup", "write", "back"}) =>
          /\ run[r].job.expect # None => run[r].job.expect.id # 0
          /\ run[r].job.binding # None => run[r].job.binding.id # 0
          /\ run[r].job.target # First(r) => Seen(r, First(r)).wrapped
    /\ Protects(r, {"expect", "store"}) /\ run[r].job.target = First(r) => Fits(r, run[r].job.binding)
    /\ Protects(r, {"secrets", "backup", "write"}) /\ run[r].job.target = First(r) => Fits(r, binding)

\* A home's entry that a run is done with, and that alone reads the pair, starts.
Healed(r, h) ==
    /\ h \notin run[r].todo /\ h \notin run[r].refused
    /\ Wrapped(file[h]) /\ Readers(r) \subseteq {h}
    /\ binding = None \/ binding.at = h
    => LaunchAllows(h, binding)

HealInv ==
    /\ WaitInv
    /\ binding # None => binding.id # 0
    /\ \A r \in Runs :
        /\ Heals(r)
        /\ At(r, "protect", "done") => run[r].todo = {}
        /\ run[r].kind = "protect" => \A h \in Homes : Healed(r, h)

-----------------------------------------------------------------------------
(* No secret is lost.                                                      *)

\* A secret that is owed, and that the commands have not written over, is stored,
\* or in clear in a config or the backup of one left cut.
OwedIsHeld == \A o \in owed \ overwritten : o \in Pairs(stored) \/ \E e \in Places : o \in Stands(e)

\* No config whose backup a run has moved, or is about to write, is cut.
Moves(r) ==
    Protects(r, {"expect", "store"}) /\ run[r].job.moved # None =>
        file[run[r].job.moved] # Cut /\ file[First(r)] # Cut

\* The secrets a run moves are those of the entry at the head; what it has
\* stored is what stands there, and what it has yet to store is not stored
\* with another value.
Copied(r) ==
    Protects(r, {"expect", "store", "secrets", "backup", "write"}) =>
        \A k \in run[r].job.keys :
            /\ Seen(r, First(r)).env[k] # None
            /\ stored[k] = Seen(r, First(r)).env[k] \/ (k \in run[r].left /\ stored[k] = None)

\* A run about to delete what is stored has it in a config.
Returned(r) ==
    run[r].kind = "unprotect" /\ run[r].step \in {"expect", "names", "delete"} =>
        \E e \in Places : IsEntry(file[e]) /\ Pairs(stored) \subseteq Pairs(file[e].env)

LossInv == WaitInv /\ OwedIsHeld /\ \A r \in Runs : Copied(r) /\ Returned(r) /\ Moves(r)

-----------------------------------------------------------------------------
(* The first of a set of places; a process without a run.                  *)

LEMMA EarliestIn ==
    ASSUME NEW S \in SUBSET Places, S # {}
    PROVE  Earliest(S) \in S
<1>  DEFINE numbers == {Order[e] : e \in S}
<1>1. numbers \subseteq Nat /\ numbers # {}
    BY OrderAssumption
<1>2. PICK n \in numbers : \A m \in numbers : ~(<<m, n>> \in OpToRel(<, Nat))
    BY <1>1, WFMin, NatLessThanWellFounded
<1>3. PICK e \in S : Order[e] = n
    BY <1>2
<1>4. ASSUME NEW f \in S PROVE Order[e] <= Order[f]
    <2>1. Order[f] \in numbers /\ Order[f] \in Nat /\ Order[e] \in Nat
        BY OrderAssumption
    <2>2. ~(Order[f] < Order[e])
        BY <1>2, <1>3, <2>1 DEF OpToRel
    <2>  QED BY <2>1, <2>2
<1>  QED BY <1>4 DEF Earliest

LEMMA NoRunType == NoRun \in RunStates /\ NoJob \in Jobs
BY DEF NoRun, RunStates, NoJob, Jobs, MaybeBinding, Held, Kept, Steps

LEMMA NoRunInv ==
    ASSUME NEW r \in Runs, run[r] = NoRun
    PROVE  RunInv(r) /\ Fresh(r) /\ FindsGone(r) /\ Copied(r) /\ Writes(r) /\ Returned(r) /\ Moves(r)
<1>1. run[r].kind = "none" /\ run[r].step = "idle" /\ run[r].was = None /\ run[r].text = None
    BY DEF NoRun
<1>2. \A e \in Places : Seen(r, e) = NoFile
    BY DEF NoRun, Seen
<1>3. Stood(NoFile) = {} /\ Stood(None) = {}
    BY DEF Stood, IsEntry
<1>  QED BY <1>1, <1>2, <1>3 DEF RunInv, RunStood, Knows, Works, Expects, Stores, Deletes, Fresh,
            FindsGone, Copied, Writes, Returned, Moves, Protects, At

LEMMA NoRunInvNext ==
    ASSUME NEW r \in Runs, run'[r] = NoRun
    PROVE  (RunInv(r) /\ Fresh(r) /\ FindsGone(r) /\ Copied(r) /\ Writes(r) /\ Returned(r) /\ Moves(r))'
<1>1. run'[r].kind = "none" /\ run'[r].step = "idle" /\ run'[r].was = None /\ run'[r].text = None
    BY DEF NoRun
<1>2. \A e \in Places : Seen(r, e)' = NoFile
    BY DEF NoRun, Seen
<1>3. Stood(NoFile) = {} /\ Stood(None) = {}
    BY DEF Stood, IsEntry
<1>  QED BY <1>1, <1>2, <1>3 DEF RunInv, RunStood, Knows, Works, Expects, Stores, Deletes, Fresh,
            FindsGone, Copied, Writes, Returned, Moves, Protects, At

\* What a run that is alone does leaves the others as they are, without a run.
LEMMA OthersIdle ==
    ASSUME TypeInv, Alone, NEW r \in Runs, ~Idle(r) \/ AllIdle,
           NEW X \in RunStates, X.step = "idle" => X = NoRun, run' = [run EXCEPT ![r] = X]
    PROVE  /\ run' \in [Runs -> RunStates]
           /\ run'[r] = X
           /\ Alone'
           /\ \A q \in Runs \ {r} : run'[q] = NoRun
<1>1. run' \in [Runs -> RunStates] /\ run'[r] = X
    BY DEF TypeInv
<1>2. ASSUME NEW q \in Runs \ {r} PROVE run'[q] = NoRun
    <2>1. Idle(q)
        BY DEF Alone, AllIdle
    <2>  QED BY <2>1 DEF Alone, TypeInv
<1>3. NoRun.step = "idle"
    BY DEF NoRun
<1>  QED BY <1>1, <1>2, <1>3 DEF Alone, Idle

LEMMA HeldEntries ==
    /\ \A x \in Kept : IsEntry(x) => x \in Entries
    /\ \A x \in Entries : IsEntry(x)
BY HeldAssumption DEF Kept, Held, IsEntry

LEMMA NotBoth == \A e \in Homes : e \notin Projects
BY PlacesAssumption

LEMMA SeenType ==
    ASSUME TypeInv, NEW r \in Runs, NEW e \in Places
    PROVE  Seen(r, e) \in Held /\ (IsEntry(Seen(r, e)) => Seen(r, e) \in Entries)
<1>1. Seen(r, e) \in Held
    BY DEF TypeInv, RunStates, Seen
<1>  QED BY <1>1, HeldEntries DEF Kept

LEMMA FirstIn ==
    ASSUME TypeInv, NEW r \in Runs, run[r].todo # {}
    PROVE  First(r) \in run[r].todo /\ First(r) \in Places
<1>1. run[r].todo \in SUBSET Places
    BY DEF TypeInv, RunStates
<1>  QED BY <1>1, EarliestIn DEF First

-----------------------------------------------------------------------------
(* What a plan rests on.                                                   *)

\* A plan for a wrapped entry whose pair is bound.
LEMMA WrappedPlans ==
    ASSUME NEW r \in Runs, NEW e \in Places, NEW b \in Bindings, NEW plan,
           plan = WrappedPlan(r, e, b), plan # "left"
    PROVE  \/ plan = "bound" /\ b.at = e /\ b.cmd = Seen(r, e).cmd
           \/ plan = "rebind" /\ b.at = e /\ e \in Homes
           \/ plan = "stale" /\ b.at = e /\ e \in Homes
           \/ plan = "moved" /\ b.cmd = Seen(r, e).cmd /\ Moved(r, e, b)
           \/ plan = "bind" /\ b.at # e /\ Orphaned(r, b) /\ TakesOver(r, e, b)
           \/ plan = "replace" /\ b.at # e /\ b.at \in Homes /\ Wrapped(Seen(r, b.at))
BY DEF WrappedPlan

\* A plan for an entry: what the run has read of it, and what is bound.
LEMMA Plans ==
    ASSUME NEW r \in Runs, NEW e \in Places, NEW b \in MaybeBinding, NEW plan,
           plan = PlanOf(r, e, b), plan # "left"
    PROVE  /\ IsEntry(Seen(r, e))
           /\ \/ /\ plan = "fresh" /\ Readers(r) = {}
                 /\ e \in Projects => Names(stored) = {}
                 /\ Pairs(stored) \subseteq Pairs(Seen(r, e).env)
                 /\ b = None \/ b.at = e \/ (Orphaned(r, b) /\ Scope(b.at) = Scope(e))
              \/ /\ plan = "bind" /\ b = None
                 /\ e \in Projects => Names(stored) = {} \/ BackupHolds(e)
              \/ b \in Bindings /\ plan = "bound" /\ b.at = e /\ b.cmd = Seen(r, e).cmd
              \/ b \in Bindings /\ plan = "rebind" /\ b.at = e /\ e \in Homes
              \/ b \in Bindings /\ plan = "stale" /\ b.at = e /\ e \in Homes
              \/ b \in Bindings /\ plan = "moved" /\ b.cmd = Seen(r, e).cmd /\ Moved(r, e, b)
              \/ b \in Bindings /\ plan = "bind" /\ b.at # e /\ Orphaned(r, b) /\ TakesOver(r, e, b)
              \/ b \in Bindings /\ plan = "replace" /\ b.at # e /\ b.at \in Homes /\ Wrapped(Seen(r, b.at))
<1>1. IsEntry(Seen(r, e))
    BY DEF PlanOf
<1>2. CASE ~Seen(r, e).wrapped
    <2>1. plan = FreshPlan(r, e, b)
        BY <1>1, <1>2 DEF PlanOf
    <2>  QED BY <1>1, <2>1 DEF FreshPlan
<1>3. CASE Seen(r, e).wrapped /\ b = None
    <2>1. plan = UnboundPlan(r, e)
        BY <1>1, <1>3 DEF PlanOf
    <2>2. e \in Projects => e \notin Homes
        BY NotBoth
    <2>  QED BY <1>1, <1>3, <2>1, <2>2 DEF UnboundPlan
<1>4. CASE Seen(r, e).wrapped /\ b # None
    <2>1. plan = WrappedPlan(r, e, b) /\ b \in Bindings
        BY <1>1, <1>4 DEF PlanOf, MaybeBinding
    <2>  QED BY <1>1, <2>1, WrappedPlans
<1>  QED BY <1>2, <1>3, <1>4

\* The job of an entry that is planned to be worked on.
JobFor(r, e, b) == [JobOf(r, e, b, PlanOf(r, e, b)) EXCEPT !.keys = KeysOf(r, e, PlanOf(r, e, b))]

\* What the job of a plan is.
JobFits(r, e, b, plan, job) ==
    /\ job \in Jobs
    /\ job.expect = b
    /\ job.keys = KeysOf(r, e, plan)
    /\ IF plan = "replace" THEN /\ job.target = b.at
                                /\ job.id # 0
                                /\ job.binding = [b EXCEPT !.id = ids + 1]
       ELSE job.target = e
    /\ plan \in {"fresh", "bind", "moved"} =>
         job.binding = [id |-> ids + 1, at |-> e, cmd |-> Seen(r, e).cmd]
    /\ plan = "bound" => job.binding = None
    /\ plan \in {"rebind", "stale"} =>
         (job.binding = None /\ b.cmd = Seen(r, e).cmd) \/ job.binding = [b EXCEPT !.cmd = Seen(r, e).cmd]
    /\ plan = "rebind" => job.binding # None
    /\ IF plan = "moved" THEN job.moved = b.at ELSE job.moved = None
    /\ plan \in {"fresh", "bind", "moved"} => job.id = ids + 1
    /\ plan \in {"bound", "rebind"} => job.id = 0
    /\ plan = "stale" => job.id = b.id

LEMMA JobFields ==
    ASSUME TypeInv, NEW r \in Runs, NEW e \in Places, NEW b \in MaybeBinding,
           NEW plan, plan = PlanOf(r, e, b), plan # "left", NEW job, job = JobFor(r, e, b)
    PROVE  JobFits(r, e, b, plan, job)
<1>1. IsEntry(Seen(r, e)) /\ Seen(r, e) \in Entries
    BY Plans, SeenType
<1>2. /\ plan \in {"fresh", "bind", "bound", "rebind", "stale", "moved", "replace"}
      /\ plan \in {"bound", "rebind", "stale", "moved", "replace"} => b \in Bindings
    BY Plans
<1>3. KeysOf(r, e, plan) \in SUBSET EnvKeys
    BY DEF KeysOf, Names
<1>4. ids + 1 \in Nat /\ ids + 1 # 0
    BY DEF TypeInv, DiskType
<1>5. job = [JobOf(r, e, b, plan) EXCEPT !.keys = KeysOf(r, e, plan)]
    BY DEF JobFor
<1>6. CASE plan \in {"fresh", "bind", "moved"}
    <2>1. NewBinding(e, Seen(r, e).cmd) = [id |-> ids + 1, at |-> e, cmd |-> Seen(r, e).cmd]
        BY DEF NewBinding
    <2>2. [id |-> ids + 1, at |-> e, cmd |-> Seen(r, e).cmd] \in Bindings
        BY <1>1, <1>4 DEF Bindings, Entries
    <2>3. plan = "moved" => b.at \in Places
        BY <1>2 DEF Bindings
    <2>4. JobOf(r, e, b, plan) =
            [binding |-> [id |-> ids + 1, at |-> e, cmd |-> Seen(r, e).cmd], expect |-> b, id |-> ids + 1,
             target |-> e, keys |-> {}, moved |-> IF plan = "moved" THEN b.at ELSE None]
        BY <1>6, <2>1 DEF JobOf, Job
    <2>5. job = [binding |-> [id |-> ids + 1, at |-> e, cmd |-> Seen(r, e).cmd], expect |-> b, id |-> ids + 1,
                 target |-> e, keys |-> KeysOf(r, e, plan), moved |-> IF plan = "moved" THEN b.at ELSE None]
        BY <1>5, <2>4
    <2>6. job \in Jobs
        BY <1>3, <1>4, <2>2, <2>3, <2>5 DEF Jobs, MaybeBinding
    <2>  QED BY <1>6, <2>5, <2>6 DEF JobFits
<1>7. CASE plan \in {"bound", "rebind", "stale"}
    <2>1. b \in Bindings /\ [b EXCEPT !.cmd = Seen(r, e).cmd] \in Bindings /\ b.id \in Nat
        BY <1>1, <1>2, <1>7 DEF Bindings, Entries
    <2>2. WithCommand(r, e, b) = [b EXCEPT !.cmd = Seen(r, e).cmd] /\ None \notin Bindings
        BY HeldAssumption DEF WithCommand
    <2>3. PICK nb, id : /\ JobOf(r, e, b, plan) = Job(nb, b, id, e)
                        /\ IF plan = "stale" THEN id = b.id ELSE id = 0
                        /\ nb = None \/ nb = [b EXCEPT !.cmd = Seen(r, e).cmd]
                        /\ plan = "bound" => nb = None
                        /\ plan = "rebind" => nb # None
                        /\ plan = "stale" /\ nb = None => b.cmd = Seen(r, e).cmd
        BY <1>7, <2>1, <2>2 DEF JobOf, StaleJob
    <2>4. job = [binding |-> nb, expect |-> b, id |-> id, target |-> e, keys |-> KeysOf(r, e, plan), moved |-> None]
        BY <1>5, <2>3 DEF Job
    <2>5. job \in Jobs
        BY <1>3, <2>1, <2>3, <2>4 DEF Jobs, MaybeBinding
    <2>  QED BY <1>7, <2>3, <2>4, <2>5 DEF JobFits
<1>8. CASE plan = "replace"
    <2>1. b \in Bindings /\ [b EXCEPT !.id = ids + 1] \in Bindings /\ b.at \in Places
        BY <1>2, <1>4, <1>8 DEF Bindings
    <2>  QED BY <1>3, <1>4, <1>5, <1>8, <2>1 DEF JobOf, Job, Jobs, MaybeBinding, JobFits
<1>  QED BY <1>2, <1>6, <1>7, <1>8

-----------------------------------------------------------------------------
(* Steps.  A step of one run leaves the invariant to show of that run.     *)

LEMMA StepOfOne ==
    ASSUME Inv, NEW r \in Runs, ~Idle(r) \/ AllIdle,
           NEW X \in RunStates, X.step = "idle" => X = NoRun, run' = [run EXCEPT ![r] = X],
           DiskType', NamesAreBound', BoundStood(binding)', DiskStood', RunInv(r)'
    PROVE  Inv'
<1>1. run' \in [Runs -> RunStates] /\ Alone' /\ \A q \in Runs \ {r} : run'[q] = NoRun
    BY OthersIdle DEF Inv
<1>2. \A q \in Runs : RunInv(q)'
    BY <1>1, NoRunInvNext
<1>  QED BY <1>1, <1>2 DEF Inv, TypeInv

\* A run that ends, or goes on to its next entry, with nothing newly stored.
LEMMA StepToRest ==
    ASSUME Inv, NEW r \in Runs, ~Idle(r),
           NEW X \in RunStates, run' = [run EXCEPT ![r] = X],
           UNCHANGED <<stored, binding, together>>, DiskType', DiskStood', RunStood(r)',
           X = NoRun \/ /\ X.kind = run[r].kind /\ X.known = run[r].known
                        /\ \/ X.step \in {"next", "done", "names"}
                           \/ X.kind # "protect" /\ X.step = "expect"
    PROVE  Inv'
<1>1. run'[r] = X
    BY DEF Inv, TypeInv
<1>2. NamesAreBound' /\ BoundStood(binding)'
    BY DEF Inv, NamesAreBound, BoundStood
<1>3. RunInv(r)'
    <2>1. CASE X = NoRun
        BY <1>1, <2>1, NoRunInvNext
    <2>2. CASE X # NoRun
        <3>1. Knows(r)'
            BY <1>1, <2>2 DEF Inv, RunInv, Knows
        <3>  QED BY <1>1, <2>2, <3>1 DEF RunInv, Works, Expects, Stores, Deletes, Protects, At
    <2>  QED BY <2>1, <2>2
<1>4. X.step = "idle" => X = NoRun
    OBVIOUS
<1>  QED BY <1>2, <1>3, <1>4, StepOfOne

\* What a run that is not idle has read and holds.
LEMMA RunFields ==
    ASSUME TypeInv, NEW r \in Runs
    PROVE  /\ run[r] \in RunStates
           /\ run[r].job \in Jobs
           /\ \A X \in RunStates : [run EXCEPT ![r] = X] \in [Runs -> RunStates]
BY DEF TypeInv, RunStates

LEMMA StartInv ==
    ASSUME Inv, OneAtATime, NEW r \in Runs, NEW kind \in {"protect", "unprotect"}, NEW dir \in Dirs,
           Start(r, kind, dir)
    PROVE  Inv'
<1>  DEFINE X == [NoRun EXCEPT !.kind = kind, !.step = "next", !.seen = Discovered(dir),
                               !.todo = {e \in Places : Parsed(Discovered(dir)[e])}]
<1>1. run' = [run EXCEPT ![r] = X] /\ AllIdle /\ UNCHANGED <<disk, ids, history>>
    BY DEF Start, OneAtATime
<1>2. Discovered(dir) \in [Places -> Held]
    BY DEF Discovered, Inv, TypeInv, DiskType, Held
<1>3. X \in RunStates
    BY <1>2, NoRunType DEF RunStates, Steps
<1>4. /\ X.kind \in {"protect", "unprotect"} /\ X.step = "next" /\ X.seen = Discovered(dir)
      /\ X.known = Unread /\ X.was = None /\ X.text = None
    BY DEF NoRun
<1>5. run'[r] = X
    BY <1>1 DEF Inv, TypeInv
<1>6. DiskType' /\ NamesAreBound' /\ BoundStood(binding)' /\ DiskStood'
    BY <1>1 DEF Inv, TypeInv, DiskType, NamesAreBound, BoundStood, DiskStood, disk, history
<1>7. RunStood(r)'
    <2>1. Stood(NoFile) = {} /\ Stood(None) = {}
        BY DEF Stood, IsEntry
    <2>2. \A e \in Places : Stood(Discovered(dir)[e]) \subseteq together
        BY <2>1 DEF Discovered, Inv, DiskStood
    <2>  HIDE DEF X
    <2>  QED BY <1>1, <1>4, <1>5, <2>1, <2>2 DEF RunStood, Seen, history
<1>8. RunInv(r)'
    <2>  HIDE DEF X
    <2>  QED BY <1>4, <1>5, <1>7 DEF RunInv, Knows, Works, Expects, Stores, Deletes, Protects, At
<1>  HIDE DEF X
<1>  QED BY <1>1, <1>3, <1>4, <1>6, <1>8, StepOfOne

\* A run that is done with an entry.
LEMMA PassesInv ==
    ASSUME Inv, NEW r \in Runs, ~Idle(r), Passes(r), UNCHANGED <<disk, ids, history>>
    PROVE  Inv'
<1>  DEFINE X == [run[r] EXCEPT !.todo = @ \ {First(r)}, !.step = "next", !.job = NoJob,
                                !.was = None, !.text = None]
<1>1. run' = [run EXCEPT ![r] = X] /\ run[r] \in RunStates
    BY RunFields DEF Passes, Updates, Inv
<1>2. X \in RunStates
    BY <1>1, NoRunType DEF RunStates, Steps, Kept
<1>3. X.kind = run[r].kind /\ X.known = run[r].known /\ X.step = "next" /\ X.seen = run[r].seen
      /\ X.was = None /\ X.text = None
    BY <1>1 DEF RunStates
<1>4. run'[r] = X
    BY <1>1 DEF Inv, TypeInv
<1>5. DiskType' /\ DiskStood' /\ UNCHANGED <<stored, binding, together>>
    BY DEF Inv, TypeInv, DiskType, DiskStood, disk, history
<1>  HIDE DEF X
<1>6. RunStood(r)'
    <2>1. Stood(None) = {}
        BY DEF Stood, IsEntry
    <2>  QED BY <1>3, <1>4, <1>5, <2>1 DEF Inv, RunInv, RunStood, Seen
<1>  QED BY <1>1, <1>2, <1>3, <1>5, <1>6, StepToRest

\* Two places of one scope: when one is a project the other is.
LEMMA SameScope ==
    ASSUME NEW e \in Places, NEW f \in Places, Scope(e) = Scope(f), e \in Projects
    PROVE  f \in Projects
BY NotBoth DEF Scope, Places

\* What is decided for an entry, with what is bound as it is known.
LEMMA PlanDecides ==
    ASSUME Inv, NEW r \in Runs, NEW e \in Places,
           NEW plan, plan = PlanOf(r, e, binding), plan # "left", NEW job, job = JobFor(r, e, binding)
    PROVE  /\ IsEntry(Seen(r, e))
           /\ job.target \in Places /\ IsEntry(Seen(r, job.target))
           /\ job.target # e =>
                /\ job.target \in Homes
                /\ job.keys = {} /\ Seen(r, job.target).wrapped /\ job.id # 0
                /\ job.binding # None /\ job.expect # None
                /\ job.binding.at = job.expect.at /\ job.binding.cmd = job.expect.cmd
           /\ job.binding # None =>
                /\ BoundStood(job.binding)
                /\ job.keys # {} => job.binding.at = e /\ job.binding.cmd = Seen(r, e).cmd
           /\ job.binding = None /\ job.keys # {} =>
                binding # None /\ binding.at = e /\ binding.cmd = Seen(r, e).cmd
<1>1. binding \in MaybeBinding /\ TypeInv
    BY DEF Inv, TypeInv, DiskType
<1>2. IsEntry(Seen(r, e)) /\ Seen(r, e) \in Entries
    BY <1>1, Plans, SeenType
<1>3. JobFits(r, e, binding, plan, job)
    BY <1>1, JobFields
<1>4. CASE plan = "fresh" \/ (plan = "bind" /\ binding = None)
    <2>1. job.target = e /\ job.binding = [id |-> ids + 1, at |-> e, cmd |-> Seen(r, e).cmd]
        BY <1>4, <1>3 DEF JobFits
    <2>2. e \in Projects => Names(stored) = {}
        BY <1>1, <1>4, Plans DEF BackupHolds, Inv, NamesAreBound
    <2>3. job.binding # None
        BY <1>1, <1>2, <2>1, HeldAssumption DEF Bindings, Inv, TypeInv, DiskType, Entries
    <2>  QED BY <1>2, <2>1, <2>2, <2>3 DEF BoundStood
<1>5. CASE binding \in Bindings /\ plan \in {"bind", "moved"}
    <2>1. job.target = e /\ job.binding = [id |-> ids + 1, at |-> e, cmd |-> Seen(r, e).cmd]
        BY <1>5, <1>3 DEF JobFits
    <2>2. binding.at \in Places /\ binding # None
        BY <1>5, HeldAssumption DEF Bindings
    <2>3. e \in Projects => binding.at \in Projects /\ binding.cmd = Seen(r, e).cmd
        BY <1>1, <1>5, <2>2, Plans, SameScope DEF Moved, TakesOver
    <2>4. BoundStood(binding)
        BY DEF Inv
    <2>5. job.binding # None
        BY <1>1, <1>2, <2>1, HeldAssumption DEF Bindings, Inv, TypeInv, DiskType, Entries
    <2>  QED BY <1>2, <2>1, <2>2, <2>3, <2>4, <2>5 DEF BoundStood
<1>6. CASE binding \in Bindings /\ plan \in {"bound", "rebind", "stale"}
    <2>1. /\ job.target = e
          /\ \/ job.binding = None /\ binding.cmd = Seen(r, e).cmd
             \/ plan # "bound" /\ job.binding = [binding EXCEPT !.cmd = Seen(r, e).cmd]
        <3>1. plan = "bound" => binding.cmd = Seen(r, e).cmd
            BY <1>1, <1>6, Plans
        <3>  QED BY <1>6, <1>3, <3>1 DEF JobFits
    <2>2. binding.at = e /\ binding # None /\ (plan # "bound" => e \notin Projects)
        BY <1>1, <1>6, HeldAssumption, Plans, NotBoth
    <2>3. [binding EXCEPT !.cmd = Seen(r, e).cmd].at = e
          /\ [binding EXCEPT !.cmd = Seen(r, e).cmd].cmd = Seen(r, e).cmd
        BY <1>6, <2>2 DEF Bindings
    <2>4. job.binding # None => job.binding.at = e /\ job.binding.cmd = Seen(r, e).cmd /\ e \notin Projects
        BY <2>1, <2>2, <2>3
    <2>5. [binding EXCEPT !.cmd = Seen(r, e).cmd] # None
        BY <1>2, <1>6, HeldAssumption DEF Bindings, Entries
    <2>  QED BY <1>2, <2>1, <2>2, <2>4, <2>5 DEF BoundStood
<1>7. CASE binding \in Bindings /\ plan = "replace"
    <2>1. /\ job.target = binding.at /\ job.id # 0 /\ job.expect = binding
          /\ job.binding = [binding EXCEPT !.id = ids + 1]
          /\ job.keys = {}
        BY <1>7, <1>3 DEF KeysOf, JobFits
    <2>2. binding.at \in Homes /\ binding.at \in Places /\ Wrapped(Seen(r, binding.at)) /\ binding # None
        BY <1>1, <1>7, Plans, HeldAssumption DEF Bindings
    <2>3. job.binding.at = binding.at /\ job.binding.cmd = binding.cmd /\ binding.at \notin Projects
        BY <1>7, <2>1, <2>2, NotBoth DEF Bindings
    <2>4. job.binding # None
        BY <1>7, <2>1, HeldAssumption DEF Bindings, Inv, TypeInv, DiskType
    <2>  QED BY <1>2, <2>1, <2>2, <2>3, <2>4 DEF BoundStood, Wrapped
<1>8. plan \in {"fresh", "bind", "moved", "bound", "rebind", "stale", "replace"}
      /\ (plan \notin {"fresh", "bind"} => binding \in Bindings) /\ (binding # None => binding \in Bindings)
    BY <1>1, Plans DEF MaybeBinding
<1>  QED BY <1>4, <1>5, <1>6, <1>7, <1>8

LEMMA PlanInv ==
    ASSUME Inv, NEW r \in Runs, Plan(r)
    PROVE  Inv'
<1>  DEFINE e == First(r)
            plan == PlanOf(r, e, binding)
            job == JobFor(r, e, binding)
            X == [run[r] EXCEPT !.step = IF job.binding = None THEN "secrets" ELSE "expect",
                       !.known = binding, !.job = job, !.left = job.keys,
                       !.was = IF plan = "moved" THEN backup[e] ELSE None]
<1>1. /\ At(r, "protect", "next") /\ run[r].todo # {} /\ run[r] \in RunStates
      /\ TypeInv /\ binding \in MaybeBinding /\ ~Idle(r)
    BY RunFields DEF Plan, Inv, TypeInv, DiskType, At, Idle
<1>2. e \in run[r].todo /\ e \in Places
    BY <1>1, FirstIn
<1>3. Known(r) = binding
    BY <1>1 DEF Known, Inv, RunInv, Knows, At
<1>4. CASE plan = "left"
    <2>1. Passes(r) /\ UNCHANGED <<disk, ids, history>>
        BY <1>3, <1>4 DEF Plan, history
    <2>  QED BY <1>1, <2>1, PassesInv
<1>5. CASE plan # "left"
    <2>1. /\ run' = [run EXCEPT ![r] = X]
          /\ ids' = IF job.id > ids THEN job.id ELSE ids
          /\ backup' = IF plan = "moved"
                       THEN [backup EXCEPT ![e] = backup[job.moved], ![job.moved] = None]
                       ELSE backup
          /\ UNCHANGED <<file, stored, binding, history>>
        BY <1>3, <1>5 DEF Plan, JobFor, Updates
    <2>2. job \in Jobs /\ job.expect = binding /\ (plan = "moved" => job.moved \in Places)
        <3>1. plan = "moved" => binding \in Bindings
            BY <1>1, <1>2, <1>5, Plans
        <3>2. JobFits(r, e, binding, plan, job)
            BY <1>1, <1>2, <1>5, JobFields
        <3>  QED BY <3>1, <3>2 DEF JobFits, Bindings
    <2>3. DiskType' /\ DiskStood'
        <3>1. ids' \in Nat
            BY <1>1, <2>1, <2>2 DEF TypeInv, DiskType, Jobs
        <3>2. backup' \in [Places -> Kept]
            BY <1>1, <1>2, <2>1, <2>2 DEF TypeInv, DiskType, Kept
        <3>3. Stood(None) = {}
            BY DEF Stood, IsEntry
        <3>4. \A f \in Places : Stood(backup'[f]) \subseteq together
            <4>1. \A f \in Places : backup'[f] = backup[f] \/ backup'[f] = None
                                    \/ (plan = "moved" /\ backup'[f] = backup[job.moved])
                BY <1>1, <2>1 DEF TypeInv, DiskType
            <4>  QED BY <2>2, <3>3, <4>1 DEF Inv, DiskStood
        <3>  QED BY <1>1, <2>1, <3>1, <3>2, <3>4 DEF TypeInv, DiskType, Inv, DiskStood, history
    <2>4. X \in RunStates
        <3>1. (IF plan = "moved" THEN backup[e] ELSE None) \in Kept
            BY <1>1, <1>2 DEF TypeInv, DiskType, Kept
        <3>2. job.keys \in SUBSET EnvKeys
            BY <2>2 DEF Jobs
        <3>  HIDE DEF plan, job
        <3>  QED BY <1>1, <2>2, <3>1, <3>2 DEF RunStates, Steps
    <2>5. /\ X.kind = "protect" /\ X.step = (IF job.binding = None THEN "secrets" ELSE "expect")
          /\ X.seen = run[r].seen /\ X.todo = run[r].todo /\ X.known = binding /\ X.job = job
          /\ X.left = job.keys /\ X.was \in {None, backup[e]} /\ X.text = run[r].text
        BY <1>1 DEF RunStates, At
    <2>6. run'[r] = X
        BY <2>1 DEF Inv, TypeInv
    <2>7. NamesAreBound' /\ BoundStood(binding)'
        BY <2>1 DEF Inv, NamesAreBound, BoundStood, history
    <2>8. /\ IsEntry(Seen(r, e))
          /\ job.target \in Places /\ IsEntry(Seen(r, job.target))
          /\ job.target # e =>
                /\ job.target \in Homes
                /\ job.keys = {} /\ Seen(r, job.target).wrapped /\ job.id # 0
                /\ job.binding # None /\ job.expect # None
                /\ job.binding.at = job.expect.at /\ job.binding.cmd = job.expect.cmd
          /\ job.binding # None =>
                /\ BoundStood(job.binding)
                /\ job.keys # {} => job.binding.at = e /\ job.binding.cmd = Seen(r, e).cmd
          /\ job.binding = None /\ job.keys # {} =>
                binding # None /\ binding.at = e /\ binding.cmd = Seen(r, e).cmd
        BY <1>2, <1>5, PlanDecides
    <2>  HIDE DEF X, job, plan
    <2>9. First(r)' = e /\ \A f \in Places : Seen(r, f)' = Seen(r, f)
        BY <2>5, <2>6 DEF First, Seen
    <2>  HIDE DEF e
    <2>10. RunInv(r)'
        <3>1. RunStood(r)'
            <4>1. Stood(None) = {}
                BY DEF Stood, IsEntry
            <4>2. Stood(X.was) \subseteq together /\ Stood(X.text) \subseteq together
                BY <1>2, <2>5, <4>1 DEF Inv, DiskStood, RunInv, RunStood
            <4>  QED BY <2>1, <2>6, <2>9, <4>2 DEF Inv, RunInv, RunStood, history
        <3>2. Knows(r)'
            BY <2>1, <2>5, <2>6 DEF Knows
        <3>3. Works(r)'
            BY <1>1, <2>5, <2>6, <2>8, <2>9 DEF Works, Protects, Seen
        <3>4. Expects(r)' /\ Stores(r)'
            BY <2>1, <2>2, <2>5, <2>6, <2>8, <2>9 DEF Expects, Stores, Protects, BoundStood, HeadsOwn, history
        <3>5. Deletes(r)'
            BY <2>5, <2>6 DEF Deletes, At
        <3>  QED BY <3>1, <3>2, <3>3, <3>4, <3>5 DEF RunInv
    <2>11. X.step = "idle" => X = NoRun
        BY <2>5
    <2>  QED BY <1>1, <2>1, <2>3, <2>4, <2>7, <2>10, <2>11, StepOfOne
<1>  QED BY <1>4, <1>5

\* The binding of an entry is not stored.
LEMMA LeavesInv ==
    ASSUME Inv, NEW r \in Runs, Protects(r, {"expect", "store"}), LeavesUnbound(r),
           UNCHANGED <<file, stored, binding, ids, edits, history, runs>>
    PROVE  Inv'
<1>  DEFINE X == [run[r] EXCEPT !.todo = @ \ {First(r)}, !.step = "next", !.job = NoJob, !.was = None,
                                !.refused = @ \union {First(r)}]
<1>1. run' = [run EXCEPT ![r] = X] /\ run[r] \in RunStates /\ TypeInv /\ ~Idle(r)
    BY RunFields DEF LeavesUnbound, Updates, Inv, Protects, Idle
<1>2. run[r].todo # {}
    BY DEF Inv, RunInv, Works, Protects
<1>3. First(r) \in Places
    BY <1>1, <1>2, FirstIn
<1>4. X \in RunStates
    BY <1>1, <1>3, NoRunType DEF RunStates, Steps, Kept
<1>5. X.kind = run[r].kind /\ X.known = run[r].known /\ X.step = "next" /\ X.seen = run[r].seen
      /\ X.was = None /\ X.text = run[r].text
    BY <1>1 DEF RunStates
<1>6. run'[r] = X
    BY <1>1 DEF TypeInv
<1>7. DiskType' /\ DiskStood'
    <2>1. \A f \in Places : backup'[f] \in {backup[g] : g \in Places} \union {run[r].was, backup[f]}
        BY <1>1, <1>3 DEF LeavesUnbound, TypeInv, DiskType
    <2>2. DOMAIN backup' = Places /\ backup' = [f \in Places |-> backup'[f]]
        BY <1>1 DEF LeavesUnbound, TypeInv, DiskType
    <2>3. run[r].was \in Kept /\ Stood(run[r].was) \subseteq together
        BY <1>1 DEF RunStates, Inv, RunInv, RunStood
    <2>4. \A f \in Places : backup'[f] \in Kept /\ Stood(backup'[f]) \subseteq together
        BY <1>1, <2>1, <2>3 DEF TypeInv, DiskType, Inv, DiskStood
    <2>  QED BY <1>1, <2>2, <2>4 DEF TypeInv, DiskType, Inv, DiskStood, history
<1>8. UNCHANGED together
    BY DEF history
<1>  HIDE DEF X
<1>9. RunStood(r)'
    <2>1. Stood(None) = {}
        BY DEF Stood, IsEntry
    <2>  QED BY <1>5, <1>6, <1>8, <2>1 DEF Inv, RunInv, RunStood, Seen
<1>  QED BY <1>1, <1>4, <1>5, <1>7, <1>8, <1>9, StepToRest

LEMMA ExpectInv ==
    ASSUME Inv, NEW r \in Runs, Expect(r)
    PROVE  Inv'
<1>1. /\ run[r].step = "expect" /\ run[r] \in RunStates /\ TypeInv /\ ~Idle(r)
      /\ UNCHANGED <<file, stored, binding, ids, edits, history, runs>>
    BY RunFields DEF Expect, Inv, Idle
<1>2. CASE run[r].kind = "protect" /\ binding = run[r].job.expect
    <2>  DEFINE X == [run[r] EXCEPT !.step = "store"]
    <2>1. run' = [run EXCEPT ![r] = X] /\ UNCHANGED backup
        BY <1>2 DEF Expect, Updates
    <2>2. X \in RunStates
        BY <1>1 DEF RunStates, Steps
    <2>3. /\ X.kind = "protect" /\ X.step = "store" /\ X.seen = run[r].seen /\ X.todo = run[r].todo
          /\ X.known = run[r].known /\ X.job = run[r].job /\ X.left = run[r].left
          /\ X.was = run[r].was /\ X.text = run[r].text
        BY <1>1, <1>2 DEF RunStates
    <2>4. run'[r] = X
        BY <1>1, <2>1 DEF TypeInv
    <2>  HIDE DEF X
    <2>5. DiskType' /\ NamesAreBound' /\ BoundStood(binding)' /\ DiskStood'
        BY <1>1, <2>1 DEF Inv, TypeInv, DiskType, NamesAreBound, BoundStood, DiskStood, history
    <2>6. First(r)' = First(r)
        BY <2>3, <2>4 DEF First
    <2>7. RunStood(r)' /\ Knows(r)' /\ Stores(r)' /\ Deletes(r)'
        BY <1>1, <1>2, <2>3, <2>4 DEF Inv, RunInv, RunStood, Knows, Stores, Deletes, Protects, At, Seen, history
    <2>8. Works(r)'
        <3>1. Works(r) /\ Protects(r, {"expect"})
            BY <1>1, <1>2 DEF Inv, RunInv, Protects
        <3>  QED BY <2>3, <2>4, <2>6, <3>1 DEF Works, Protects, Seen
    <2>9. Expects(r)'
        <3>1. Expects(r) /\ Protects(r, {"expect"})
            BY <1>1, <1>2 DEF Inv, RunInv, Protects
        <3>  QED BY <1>1, <2>3, <2>4, <2>6, <3>1 DEF Expects, Protects, Seen, HeadsOwn, BoundStood, history
    <2>10. RunInv(r)'
        BY <2>7, <2>8, <2>9 DEF RunInv
    <2>11. X.step = "idle" => X = NoRun
        BY <2>3
    <2>  QED BY <1>1, <2>1, <2>2, <2>5, <2>10, <2>11, StepOfOne
<1>3. CASE run[r].kind = "protect" /\ binding # run[r].job.expect
    <2>1. LeavesUnbound(r)
        BY <1>3 DEF Expect
    <2>  QED BY <1>1, <1>3, <2>1, LeavesInv DEF Protects
<1>4. CASE run[r].kind # "protect"
    <2>  DEFINE X == [run[r] EXCEPT !.step = IF binding = run[r].job.expect THEN "names" ELSE "done"]
    <2>1. run' = [run EXCEPT ![r] = X] /\ UNCHANGED backup
        BY <1>4 DEF Expect, Updates
    <2>2. X \in RunStates
        BY <1>1 DEF RunStates, Steps
    <2>3. /\ X.kind = run[r].kind /\ X.step \in {"names", "done"} /\ X.seen = run[r].seen
          /\ X.known = run[r].known /\ X.was = run[r].was /\ X.text = run[r].text
        BY <1>1 DEF RunStates
    <2>4. run'[r] = X
        BY <1>1, <2>1 DEF TypeInv
    <2>  HIDE DEF X
    <2>5. DiskType' /\ DiskStood' /\ UNCHANGED together
        BY <1>1, <2>1 DEF Inv, TypeInv, DiskType, DiskStood, history
    <2>6. RunStood(r)'
        BY <2>3, <2>4, <2>5 DEF Inv, RunInv, RunStood, Seen
    <2>  QED BY <1>1, <2>1, <2>2, <2>3, <2>5, <2>6, StepToRest
<1>  QED BY <1>2, <1>3, <1>4

LEMMA StoreBindingInv ==
    ASSUME Inv, NEW r \in Runs, StoreBinding(r)
    PROVE  Inv'
<1>  DEFINE X == [run[r] EXCEPT !.step = "secrets", !.known = run[r].job.binding, !.was = None,
                                !.holder = @ \/ ~Seen(r, First(r)).wrapped]
<1>1. /\ Protects(r, {"store"}) /\ run[r] \in RunStates /\ run[r].job \in Jobs /\ TypeInv /\ ~Idle(r)
      /\ run' = [run EXCEPT ![r] = X] /\ binding' = run[r].job.binding
      /\ UNCHANGED <<file, backup, stored, ids, history>>
    BY RunFields DEF StoreBinding, Updates, Inv, Idle, At, Protects
<1>2. X \in RunStates
    BY <1>1, ZenonT(40) DEF RunStates, Steps, Kept, Jobs
<1>3. /\ X.kind = "protect" /\ X.step = "secrets" /\ X.seen = run[r].seen /\ X.todo = run[r].todo
      /\ X.known = run[r].job.binding /\ X.job = run[r].job /\ X.left = run[r].left
      /\ X.was = None /\ X.text = run[r].text
    BY <1>1 DEF RunStates, Protects
<1>4. run'[r] = X
    BY <1>1 DEF TypeInv
<1>  HIDE DEF X
<1>5. Expects(r) /\ Works(r)
    BY DEF Inv, RunInv
<1>6. DiskType' /\ NamesAreBound' /\ BoundStood(binding)' /\ DiskStood'
    BY <1>1, <1>5 DEF Inv, TypeInv, DiskType, NamesAreBound, BoundStood, DiskStood, history, Jobs, Expects, Protects
<1>7. First(r)' = First(r)
    BY <1>3, <1>4 DEF First
<1>8. RunStood(r)'
    <2>1. Stood(None) = {}
        BY DEF Stood, IsEntry
    <2>  QED BY <1>1, <1>3, <1>4, <2>1 DEF Inv, RunInv, RunStood, Seen, history
<1>9. Works(r)'
    BY <1>1, <1>3, <1>4, <1>5, <1>7 DEF Works, Protects, Seen
<1>10. Stores(r)'
    BY <1>1, <1>3, <1>4, <1>5, <1>7 DEF Expects, Stores, Protects, HeadsOwn, Seen
<1>11. Knows(r)' /\ Expects(r)' /\ Deletes(r)'
    BY <1>1, <1>3, <1>4 DEF Knows, Expects, Deletes, Protects, At
<1>12. RunInv(r)' /\ (X.step = "idle" => X = NoRun)
    BY <1>3, <1>8, <1>9, <1>10, <1>11 DEF RunInv
<1>  QED BY <1>1, <1>2, <1>6, <1>12, StepOfOne

LEMMA StoreSecretInv ==
    ASSUME Inv, NEW r \in Runs, NEW k \in EnvKeys, StoreSecret(r, k)
    PROVE  Inv'
<1>  DEFINE X == [run[r] EXCEPT !.left = @ \ {k}]
            e == First(r)
<1>1. /\ Protects(r, {"secrets"}) /\ k \in run[r].left
      /\ run[r] \in RunStates /\ run[r].job \in Jobs /\ TypeInv /\ ~Idle(r)
      /\ run' = [run EXCEPT ![r] = X] /\ stored' = [stored EXCEPT ![k] = Seen(r, e).env[k]]
      /\ UNCHANGED <<file, backup, binding, ids, history>>
    BY RunFields DEF StoreSecret, Updates, Inv, Idle, At, Protects
<1>2. X \in RunStates
    BY <1>1 DEF RunStates
<1>3. /\ X.kind = "protect" /\ X.step = "secrets" /\ X.seen = run[r].seen /\ X.todo = run[r].todo
      /\ X.known = run[r].known /\ X.job = run[r].job /\ X.left = run[r].left \ {k}
      /\ X.was = run[r].was /\ X.text = run[r].text
    BY <1>1 DEF RunStates, Protects
<1>4. run'[r] = X
    BY <1>1 DEF TypeInv
<1>  HIDE DEF X
<1>5. /\ Works(r) /\ e \in Places /\ IsEntry(Seen(r, e)) /\ Seen(r, e) \in Entries
      /\ binding # None /\ binding.at = e /\ binding.cmd = Seen(r, e).cmd
    BY <1>1, FirstIn, SeenType DEF Inv, RunInv, Works, Stores, HeadsOwn, Protects
<1>6. DiskType' /\ NamesAreBound' /\ DiskStood'
    BY <1>1, <1>5 DEF Inv, TypeInv, DiskType, NamesAreBound, DiskStood, history, Entries
<1>7. BoundStood(binding)'
    <2>  SUFFICES ASSUME binding.at \in Projects, NEW m \in EnvKeys, stored'[m] # None
                  PROVE  <<m, stored'[m], binding.cmd>> \in together
        BY <1>1 DEF BoundStood, Names, history
    <2>1. CASE m = k
        <3>1. stored'[m] = Seen(r, e).env[m]
            BY <1>1, <2>1 DEF TypeInv, DiskType
        <3>2. <<m, stored'[m], binding.cmd>> \in Stood(Seen(r, e))
            BY <1>5, <3>1 DEF Stood, Names
        <3>  QED BY <1>5, <3>2 DEF Inv, RunInv, RunStood
    <2>2. CASE m # k
        <3>1. stored'[m] = stored[m] /\ m \in Names(stored)
            BY <1>1, <2>2 DEF TypeInv, DiskType, Names
        <3>  QED BY <1>5, <3>1 DEF Inv, BoundStood
    <2>  QED BY <2>1, <2>2
<1>8. e' = e
    BY <1>3, <1>4 DEF First
<1>9. RunStood(r)'
    BY <1>1, <1>3, <1>4 DEF Inv, RunInv, RunStood, Seen, history
<1>10. Works(r)'
    BY <1>1, <1>3, <1>4, <1>5, <1>8 DEF Works, Protects, Seen
<1>11. Stores(r)'
    BY <1>1, <1>3, <1>4, <1>5, <1>8 DEF Stores, Protects, HeadsOwn, Seen
<1>12. Knows(r)' /\ Expects(r)' /\ Deletes(r)'
    BY <1>1, <1>3, <1>4 DEF Inv, RunInv, Knows, Expects, Deletes, Protects, At
<1>13. RunInv(r)' /\ (X.step = "idle" => X = NoRun)
    BY <1>3, <1>9, <1>10, <1>11, <1>12 DEF RunInv
<1>  QED BY <1>1, <1>2, <1>6, <1>7, <1>13, StepOfOne

\* What a run makes of a config: its type, and nothing that did not stand there.
LEMMA RewrittenHeld ==
    ASSUME TypeInv, NEW r \in Runs, NEW cur \in Held
    PROVE  /\ Rewritten(r, cur) \in Held
           /\ Stood(Rewritten(r, cur)) \subseteq Stood(cur)
           /\ Rewritten(r, cur) # cur => IsEntry(cur) /\ IsEntry(Rewritten(r, cur))
<1>1. CASE Rewritten(r, cur) = cur
    BY <1>1
<1>2. CASE Rewritten(r, cur) # cur
    <2>  DEFINE new == Rewritten(r, cur)
    <2>1. IsEntry(cur) /\ cur \in Entries
        BY <1>2, HeldEntries DEF Rewritten, Kept
    <2>2. run[r].job.id \in Nat
        BY RunFields DEF Jobs
    <2>3. /\ Without(cur.env, run[r].job.keys) \in [EnvKeys -> Values \union {None}]
          /\ \A k \in EnvKeys : Without(cur.env, run[r].job.keys)[k] \in {cur.env[k], None}
        BY <2>1 DEF Without, Entries
    <2>4. /\ new \in Entries /\ new.cmd = cur.cmd
          /\ \A k \in EnvKeys : new.env[k] \in {cur.env[k], None}
        BY <1>2, <2>1, <2>2, <2>3 DEF Rewritten, Entries
    <2>5. IsEntry(new)
        BY <2>4, HeldEntries
    <2>  HIDE DEF new
    <2>6. Stood(new) \subseteq Stood(cur)
        BY <2>1, <2>4, <2>5 DEF Stood, Names
    <2>  QED BY <2>1, <2>4, <2>5, <2>6 DEF new, Held
<1>  QED BY <1>1, <1>2

LEMMA ReadConfigInv ==
    ASSUME Inv, NEW r \in Runs, ReadConfig(r)
    PROVE  Inv'
<1>  DEFINE cur == file[run[r].job.target]
            X == [run[r] EXCEPT !.step = "backup", !.was = cur, !.text = Rewritten(r, cur)]
<1>1. /\ Protects(r, {"secrets"}) /\ run[r].left = {} /\ run[r] \in RunStates /\ run[r].job \in Jobs
      /\ TypeInv /\ ~Idle(r) /\ UNCHANGED <<disk, ids, history>>
    BY RunFields DEF ReadConfig, Inv, Idle, At, Protects
<1>2. CASE Rewritten(r, cur) = cur
    <2>1. Passes(r)
        BY <1>2 DEF ReadConfig
    <2>  QED BY <1>1, <2>1, PassesInv
<1>3. CASE Rewritten(r, cur) # cur
    <2>1. run' = [run EXCEPT ![r] = X]
        BY <1>3 DEF ReadConfig, Updates
    <2>2. Works(r) /\ run[r].job.target \in Places
        BY <1>1 DEF Inv, RunInv, Works, Protects
    <2>3. cur \in Held /\ Stood(cur) \subseteq together
        BY <1>1, <2>2 DEF TypeInv, DiskType, Inv, DiskStood
    <2>4. Rewritten(r, cur) \in Held /\ Stood(Rewritten(r, cur)) \subseteq together
        BY <1>1, <2>3, RewrittenHeld
    <2>5. IsEntry(Rewritten(r, cur))
        BY <1>1, <1>3, <2>3, RewrittenHeld
    <2>6. X \in RunStates
        BY <1>1, <2>3, <2>4 DEF RunStates, Steps, Kept
    <2>7. /\ X.kind = "protect" /\ X.step = "backup" /\ X.seen = run[r].seen /\ X.todo = run[r].todo
          /\ X.known = run[r].known /\ X.job = run[r].job /\ X.left = {}
          /\ X.was = cur /\ X.text = Rewritten(r, cur)
        BY <1>1 DEF RunStates, Protects
    <2>8. run'[r] = X
        BY <1>1, <2>1 DEF TypeInv
    <2>  HIDE DEF X, cur
    <2>9. DiskType' /\ NamesAreBound' /\ BoundStood(binding)' /\ DiskStood'
        BY <1>1 DEF Inv, TypeInv, DiskType, NamesAreBound, BoundStood, DiskStood, history, disk
    <2>10. First(r)' = First(r)
        BY <2>7, <2>8 DEF First
    <2>11. RunStood(r)'
        BY <1>1, <2>3, <2>4, <2>7, <2>8 DEF Inv, RunInv, RunStood, Seen, history
    <2>12. Works(r)'
        BY <1>1, <2>2, <2>7, <2>8, <2>10, <2>5 DEF Works, Protects, Seen
    <2>13. Knows(r)' /\ Expects(r)' /\ Stores(r)' /\ Deletes(r)'
        BY <1>1, <2>7, <2>8 DEF Inv, RunInv, Knows, Expects, Stores, Deletes, Protects, At, disk
    <2>14. RunInv(r)' /\ (X.step = "idle" => X = NoRun)
        BY <2>7, <2>11, <2>12, <2>13 DEF RunInv
    <2>  QED BY <1>1, <2>1, <2>6, <2>9, <2>14, StepOfOne
<1>  QED BY <1>2, <1>3

LEMMA WriteBackupInv ==
    ASSUME Inv, NEW r \in Runs, WriteBackup(r)
    PROVE  Inv'
<1>  DEFINE e == run[r].job.target
            X == [run[r] EXCEPT !.step = "write"]
<1>1. /\ Protects(r, {"backup"}) /\ run[r] \in RunStates /\ TypeInv /\ ~Idle(r)
      /\ run' = [run EXCEPT ![r] = X]
      /\ backup' = IF Seen(r, e).wrapped /\ backup[e] # None THEN backup
                   ELSE [backup EXCEPT ![e] = run[r].was]
      /\ UNCHANGED <<file, stored, binding, ids, history>>
    BY RunFields DEF WriteBackup, Updates, Inv, Idle, At, Protects
<1>2. X \in RunStates
    BY <1>1 DEF RunStates, Steps
<1>3. /\ X.kind = "protect" /\ X.step = "write" /\ X.seen = run[r].seen /\ X.todo = run[r].todo
      /\ X.known = run[r].known /\ X.job = run[r].job /\ X.left = run[r].left
      /\ X.was = run[r].was /\ X.text = run[r].text
    BY <1>1 DEF RunStates, Protects
<1>4. run'[r] = X
    BY <1>1 DEF TypeInv
<1>  HIDE DEF X
<1>5. Works(r) /\ run[r].was \in Kept /\ Stood(run[r].was) \subseteq together
    BY <1>1 DEF Inv, RunInv, RunStood, RunStates
<1>6. DiskType' /\ NamesAreBound' /\ BoundStood(binding)' /\ DiskStood'
    <2>1. backup' \in [Places -> Kept] /\ \A f \in Places : backup'[f] \in {backup[f], run[r].was}
        BY <1>1, <1>5 DEF TypeInv, DiskType
    <2>  QED BY <1>1, <1>5, <2>1
             DEF Inv, TypeInv, DiskType, NamesAreBound, BoundStood, DiskStood, history
<1>7. First(r)' = First(r)
    BY <1>3, <1>4 DEF First
<1>8. RunStood(r)'
    BY <1>1, <1>3, <1>4 DEF Inv, RunInv, RunStood, Seen, history
<1>9. Works(r)'
    BY <1>1, <1>3, <1>4, <1>5, <1>7 DEF Works, Protects, Seen
<1>10. Knows(r)' /\ Expects(r)' /\ Stores(r)' /\ Deletes(r)'
    BY <1>1, <1>3, <1>4 DEF Inv, RunInv, Knows, Expects, Stores, Deletes, Protects, At
<1>11. RunInv(r)' /\ (X.step = "idle" => X = NoRun)
    BY <1>3, <1>8, <1>9, <1>10 DEF RunInv
<1>  QED BY <1>1, <1>2, <1>6, <1>11, StepOfOne

LEMMA WriteConfigInv ==
    ASSUME Inv, NEW r \in Runs, WriteConfig(r)
    PROVE  Inv'
<1>  DEFINE e == run[r].job.target
            seen == IF e = First(r) THEN run[r].seen ELSE [run[r].seen EXCEPT ![e].id = run[r].job.id]
            X == [run[r] EXCEPT
                  !.todo = @ \ {First(r)}, !.step = "next", !.job = NoJob, !.was = None, !.text = None,
                  !.seen = IF e = First(r) THEN @ ELSE [@ EXCEPT ![e].id = run[r].job.id]]
<1>1. /\ Protects(r, {"write"}) /\ run[r] \in RunStates /\ run[r].job \in Jobs /\ TypeInv /\ ~Idle(r)
      /\ run' = [run EXCEPT ![r] = X] /\ file' = [file EXCEPT ![e] = run[r].text]
      /\ UNCHANGED <<backup, stored, binding, ids, history>>
    BY RunFields DEF WriteConfig, Updates, Inv, Idle, At, Protects
<1>2. /\ e \in Places /\ IsEntry(Seen(r, e)) /\ Seen(r, e) \in Entries
      /\ run[r].text \in Kept /\ Stood(run[r].text) \subseteq together /\ RunStood(r)
    BY <1>1, SeenType DEF Inv, RunInv, Works, RunStood, Protects, RunStates
<1>3. /\ seen \in [Places -> Held]
      /\ \A f \in Places : Stood(seen[f]) \subseteq together
    <2>1. CASE e = First(r)
        BY <1>1, <1>2, <2>1 DEF RunStates, RunStood, Seen
    <2>2. CASE e # First(r)
        <3>  DEFINE new == [Seen(r, e) EXCEPT !.id = run[r].job.id]
        <3>1. /\ new \in Entries /\ new.env = Seen(r, e).env /\ new.cmd = Seen(r, e).cmd
            BY <1>1, <1>2 DEF Entries, Jobs
        <3>2. IsEntry(new) /\ Stood(new) = Stood(Seen(r, e))
            <4>1. IsEntry(new)
                BY <3>1, HeldEntries
            <4>  HIDE DEF new
            <4>  QED BY <1>2, <3>1, <4>1 DEF Stood
        <3>3. seen = [run[r].seen EXCEPT ![e] = new]
            BY <2>2 DEF Seen
        <3>  HIDE DEF new, seen
        <3>4. run[r].seen \in [Places -> Held]
            BY <1>1 DEF RunStates
        <3>5. \A f \in Places : seen[f] = IF f = e THEN new ELSE Seen(r, f)
            BY <3>3, <3>4 DEF Seen
        <3>6. seen \in [Places -> Held]
            BY <1>2, <3>1, <3>3, <3>4 DEF Held
        <3>  QED BY <1>2, <3>2, <3>5, <3>6 DEF RunStood
    <2>  QED BY <2>1, <2>2
<1>4. X = [run[r] EXCEPT !.todo = @ \ {First(r)}, !.step = "next", !.job = NoJob, !.was = None,
                         !.text = None, !.seen = seen]
    BY <1>1 DEF RunStates
<1>  HIDE DEF X, seen
<1>5. X \in RunStates
    BY <1>1, <1>3, <1>4, NoRunType DEF RunStates, Steps, Kept
<1>6. /\ X.kind = run[r].kind /\ X.step = "next" /\ X.seen = seen /\ X.known = run[r].known
      /\ X.was = None /\ X.text = None
    BY <1>1, <1>4 DEF RunStates
<1>7. run'[r] = X
    BY <1>1 DEF TypeInv
<1>8. RunStood(r)'
    <2>1. Stood(None) = {}
        BY DEF Stood, IsEntry
    <2>  QED BY <1>1, <1>3, <1>6, <1>7, <2>1 DEF RunStood, Seen, history
<1>9. run[r].text \in Held
    BY <1>1, <1>2, HeldEntries DEF Inv, RunInv, Works, Protects, Held
<1>10. DiskType' /\ DiskStood' /\ UNCHANGED together
    <2>1. \A f \in Places : file'[f] \in {file[f], run[r].text}
        BY <1>1 DEF TypeInv, DiskType
    <2>  QED BY <1>1, <1>2, <1>9, <2>1 DEF Inv, TypeInv, DiskType, DiskStood, history
<1>  QED BY <1>1, <1>5, <1>6, <1>8, <1>10, StepToRest

\* A write that is broken off leaves of the disk what was there, or a cut config.
LEMMA BrokenOff ==
    ASSUME DiskType, DiskStood, NEW r \in Runs, UNCHANGED <<file, history>> \/ LeavesCut(r),
           UNCHANGED <<backup, stored, binding, ids>>
    PROVE  DiskType' /\ DiskStood' /\ together' = together
<1>1. together' = together /\ \E e : file' = file \/ file' = [file EXCEPT ![e] = Cut]
    BY DEF LeavesCut, WritesOver, history
<1>2. Stood(Cut) = {}
    BY DEF Stood, IsEntry
<1>3. file' \in [Places -> Held] /\ \A f \in Places : file'[f] \in {file[f], Cut}
    BY <1>1 DEF DiskType, Held
<1>  QED BY <1>1, <1>2, <1>3 DEF DiskType, DiskStood

LEMMA WriteFailsInv ==
    ASSUME Inv, NEW r \in Runs, WriteFails(r)
    PROVE  Inv'
<1>1. /\ Protects(r, {"backup", "write", "secrets"}) /\ (run[r].step = "secrets" => run[r].left = {})
      /\ run[r] \in RunStates /\ TypeInv /\ ~Idle(r) /\ UNCHANGED <<backup, stored, binding, ids>>
    BY RunFields DEF WriteFails, Inv, Idle, Protects
<1>2. DiskType' /\ NamesAreBound' /\ BoundStood(binding)' /\ DiskStood' /\ UNCHANGED <<stored, binding, together>>
    <2>1. DiskType' /\ DiskStood' /\ together' = together
        BY <1>1, BrokenOff DEF WriteFails, Inv, TypeInv
    <2>  QED BY <1>1, <2>1 DEF Inv, NamesAreBound, BoundStood
<1>3. CASE run[r].job.target = First(r)
    <2>1. run' = [run EXCEPT ![r] = NoRun]
        BY <1>3 DEF WriteFails, Updates
    <2>2. run'[r] = NoRun
        BY <1>1, <2>1 DEF TypeInv
    <2>3. RunStood(r)'
        BY <2>2, NoRunInvNext DEF RunInv
    <2>  QED BY <1>1, <1>2, <2>1, <2>3, NoRunType, StepToRest
<1>4. CASE run[r].job.target # First(r)
    <2>  DEFINE X == [run[r] EXCEPT !.step = "back"]
    <2>1. run' = [run EXCEPT ![r] = X]
        BY <1>4 DEF WriteFails, Updates
    <2>2. X \in RunStates
        BY <1>1 DEF RunStates, Steps
    <2>3. /\ X.kind = "protect" /\ X.step = "back" /\ X.seen = run[r].seen /\ X.todo = run[r].todo
          /\ X.known = run[r].known /\ X.job = run[r].job /\ X.left = run[r].left
          /\ X.was = run[r].was /\ X.text = run[r].text
        BY <1>1 DEF RunStates, Protects
    <2>4. run'[r] = X
        BY <1>1, <2>1 DEF TypeInv
    <2>  HIDE DEF X
    <2>5. First(r)' = First(r)
        BY <2>3, <2>4 DEF First
    <2>6. RunStood(r)'
        BY <1>2, <2>3, <2>4 DEF Inv, RunInv, RunStood, Seen
    <2>7. Works(r)'
        <3>1. Works(r)
            BY DEF Inv, RunInv
        <3>  QED BY <1>1, <1>4, <2>3, <2>4, <2>5, <3>1 DEF Works, Protects, Seen
    <2>8. Knows(r)' /\ Expects(r)' /\ Stores(r)' /\ Deletes(r)'
        BY <1>2, <2>3, <2>4, <1>1 DEF Inv, RunInv, Knows, Expects, Stores, Deletes, Protects, At
    <2>9. RunInv(r)' /\ (X.step = "idle" => X = NoRun)
        BY <2>3, <2>6, <2>7, <2>8 DEF RunInv
    <2>  QED BY <1>1, <1>2, <2>1, <2>2, <2>9, StepOfOne
<1>  QED BY <1>3, <1>4

LEMMA StoreBackInv ==
    ASSUME Inv, NEW r \in Runs, StoreBack(r)
    PROVE  Inv'
<1>  DEFINE X == [run[r] EXCEPT !.todo = @ \ {First(r)}, !.step = "next", !.job = NoJob, !.was = None,
                                !.text = None, !.refused = @ \union {run[r].job.target},
                                !.known = binding']
<1>1. /\ Protects(r, {"back"}) /\ run[r] \in RunStates /\ run[r].job \in Jobs /\ TypeInv /\ ~Idle(r)
      /\ run' = [run EXCEPT ![r] = X]
      /\ binding' = binding \/ (binding' = run[r].job.expect /\ binding = run[r].job.binding)
      /\ UNCHANGED <<file, backup, stored, ids, history>>
    BY RunFields DEF StoreBack, Updates, Inv, Idle, At, Protects
<1>2. /\ run[r].job.target \in Places
      /\ run[r].job.binding # None /\ run[r].job.expect # None
      /\ run[r].job.binding.at = run[r].job.expect.at
      /\ run[r].job.binding.cmd = run[r].job.expect.cmd
    BY <1>1 DEF Inv, RunInv, Works, Protects
<1>3. DiskType' /\ NamesAreBound' /\ BoundStood(binding)' /\ DiskStood'
    <2>1. binding' \in MaybeBinding /\ (binding # None => binding' # None)
        BY <1>1, <1>2 DEF TypeInv, DiskType, Jobs
    <2>2. BoundStood(binding)'
        BY <1>1, <1>2 DEF Inv, BoundStood, history
    <2>  QED BY <1>1, <2>1, <2>2 DEF Inv, TypeInv, DiskType, NamesAreBound, DiskStood, history
<1>4. X \in RunStates
    BY <1>1, <1>2, <1>3, NoRunType DEF RunStates, Steps, Kept, DiskType
<1>5. /\ X.kind = run[r].kind /\ X.step = "next" /\ X.seen = run[r].seen /\ X.known = binding'
      /\ X.was = None /\ X.text = None
    BY <1>1 DEF RunStates
<1>6. run'[r] = X
    BY <1>1 DEF TypeInv
<1>  HIDE DEF X
<1>7. RunInv(r)'
    <2>1. Stood(None) = {}
        BY DEF Stood, IsEntry
    <2>2. RunStood(r)'
        BY <1>1, <1>5, <1>6, <2>1 DEF Inv, RunInv, RunStood, Seen, history
    <2>  QED BY <1>5, <1>6, <2>2 DEF RunInv, Knows, Works, Expects, Stores, Deletes, Protects, At
<1>  QED BY <1>1, <1>3, <1>4, <1>5, <1>7, StepOfOne

LEMMA ExitInv ==
    ASSUME Inv, NEW r \in Runs, Exit(r) \/ Kill(r)
    PROVE  Inv'
<1>1. ~Idle(r) /\ TypeInv /\ run' = [run EXCEPT ![r] = NoRun] /\ UNCHANGED <<backup, stored, binding, ids>>
    BY DEF Exit, Kill, Updates, Inv, Idle, disk, history
<1>2. run'[r] = NoRun
    BY <1>1 DEF TypeInv
<1>3. DiskType' /\ DiskStood' /\ together' = together
    BY <1>1, BrokenOff DEF Exit, Kill, Inv, TypeInv, disk
<1>4. RunStood(r)'
    BY <1>2, NoRunInvNext DEF RunInv
<1>  QED BY <1>1, <1>3, <1>4, NoRunType, StepToRest

\* A run that is done, or goes on, with what it has.
LEMMA GoesOnInv ==
    ASSUME Inv, NEW r \in Runs, Finish(r) \/ Clear(r)
    PROVE  Inv'
<1>1. PICK step, job :
        /\ step \in {"done", "expect"} /\ job \in Jobs /\ (step = "expect" => run[r].kind = "unprotect")
        /\ run' = [run EXCEPT ![r] = [run[r] EXCEPT !.step = step, !.job = job]]
    <2>1. run[r] = [run[r] EXCEPT !.job = run[r].job] /\ run[r].job \in Jobs
        BY RunFields DEF Inv, RunStates
    <2>2. [NoJob EXCEPT !.expect = binding] \in Jobs
        BY DEF Inv, TypeInv, DiskType, NoJob, Jobs, MaybeBinding
    <2>3. [run[r] EXCEPT !.step = "done"] = [run[r] EXCEPT !.step = "done", !.job = run[r].job]
        BY RunFields DEF Inv, RunStates
    <2>4. CASE run' = [run EXCEPT ![r] = [run[r] EXCEPT !.step = "done"]]
        BY <2>1, <2>3, <2>4
    <2>5. CASE /\ run[r].kind = "unprotect"
               /\ run' = [run EXCEPT ![r] = [run[r] EXCEPT !.step = "expect", !.job = [NoJob EXCEPT !.expect = binding]]]
        BY <2>2, <2>5
    <2>  QED BY <2>4, <2>5 DEF Finish, Clear, Updates, At
<1>  DEFINE X == [run[r] EXCEPT !.step = step, !.job = job]
<1>2. /\ ~Idle(r) /\ TypeInv /\ run[r] \in RunStates /\ UNCHANGED <<disk, ids, history>>
    BY RunFields DEF Finish, Clear, Inv, Idle, At
<1>3. X \in RunStates
    BY <1>1, <1>2 DEF RunStates, Steps
<1>4. /\ X.kind = run[r].kind /\ X.step = step /\ X.seen = run[r].seen /\ X.known = run[r].known
      /\ X.was = run[r].was /\ X.text = run[r].text
    BY <1>2 DEF RunStates
<1>5. run'[r] = X /\ run' = [run EXCEPT ![r] = X]
    BY <1>1, <1>2 DEF TypeInv
<1>  HIDE DEF X
<1>6. DiskType' /\ DiskStood' /\ UNCHANGED <<stored, binding, together>>
    BY <1>2 DEF Inv, TypeInv, DiskType, DiskStood, disk, history
<1>7. RunStood(r)'
    BY <1>4, <1>5, <1>6 DEF Inv, RunInv, RunStood, Seen
<1>  QED BY <1>1, <1>2, <1>3, <1>4, <1>5, <1>6, <1>7, StepToRest

LEMMA RestoreInv ==
    ASSUME Inv, NEW r \in Runs, Restore(r)
    PROVE  Inv'
<1>  DEFINE e == First(r)
            X == [run[r] EXCEPT !.todo = @ \ {First(r)}, !.restored = @ \union {e}]
<1>1. /\ ~Idle(r) /\ TypeInv /\ run[r] \in RunStates /\ e \in Places /\ run[r].step = "next"
      /\ UNCHANGED <<backup, stored, binding, ids, edits, together>>
    BY RunFields, FirstIn DEF Restore, WritesOver, Inv, Idle, At, history
<1>2. CASE backup[e] = None
    <2>1. Passes(r) /\ UNCHANGED <<disk, ids, history>>
        BY <1>2 DEF Restore, disk
    <2>  QED BY <1>1, <2>1, PassesInv
<1>3. CASE backup[e] # None
    <2>1. run' = [run EXCEPT ![r] = X] /\ file' = [file EXCEPT ![e] = backup[e]]
        BY <1>3 DEF Restore, WritesOver, Updates
    <2>2. X \in RunStates
        BY <1>1 DEF RunStates
    <2>3. /\ X.kind = run[r].kind /\ X.step = "next" /\ X.seen = run[r].seen /\ X.known = run[r].known
          /\ X.was = run[r].was /\ X.text = run[r].text
        BY <1>1 DEF RunStates
    <2>4. run'[r] = X
        BY <1>1, <2>1 DEF TypeInv
    <2>  HIDE DEF X
    <2>5. DiskType' /\ DiskStood'
        <3>1. backup[e] \in Held /\ Stood(backup[e]) \subseteq together
            BY <1>1, <1>3 DEF TypeInv, DiskType, Kept, Inv, DiskStood
        <3>2. file' \in [Places -> Held] /\ \A f \in Places : file'[f] \in {file[f], backup[e]}
            BY <1>1, <2>1, <3>1 DEF TypeInv, DiskType
        <3>  QED BY <1>1, <3>1, <3>2 DEF Inv, TypeInv, DiskType, DiskStood
    <2>6. RunStood(r)'
        BY <1>1, <2>3, <2>4 DEF Inv, RunInv, RunStood, Seen
    <2>  QED BY <1>1, <2>1, <2>2, <2>3, <2>5, <2>6, StepToRest
<1>  QED BY <1>2, <1>3

\* The names that are stored are listed, and deleted one by one.
LEMMA DeletesInv ==
    ASSUME Inv, NEW r \in Runs, ListNames(r) \/ \E k \in EnvKeys : DeleteName(r, k)
    PROVE  Inv'
<1>1. PICK X : /\ run' = [run EXCEPT ![r] = X] /\ X \in RunStates
               /\ X.kind = "unprotect" /\ X.step = "delete" /\ X.seen = run[r].seen
               /\ X.was = run[r].was /\ X.text = run[r].text
               /\ Names(stored') \subseteq X.left
    <2>1. run[r] \in RunStates /\ Names(stored) \in SUBSET EnvKeys
        BY RunFields DEF Inv, Names
    <2>2. CASE ListNames(r)
        <3>1. [run[r] EXCEPT !.step = "delete", !.left = Names(stored)] \in RunStates
            BY <2>1 DEF RunStates, Steps
        <3>  DEFINE Y == [run[r] EXCEPT !.step = "delete", !.left = Names(stored)]
        <3>2. /\ Y.kind = run[r].kind /\ Y.step = "delete" /\ Y.seen = run[r].seen
              /\ Y.was = run[r].was /\ Y.text = run[r].text /\ Y.left = Names(stored)
            BY <2>1 DEF RunStates
        <3>3. run' = [run EXCEPT ![r] = Y] /\ run[r].kind = "unprotect" /\ Names(stored') = Names(stored)
            BY <2>2 DEF ListNames, Updates, At, disk
        <3>  HIDE DEF Y
        <3>  QED BY <3>1, <3>2, <3>3 DEF Y
    <2>3. ASSUME NEW k \in EnvKeys, DeleteName(r, k)
          PROVE  /\ run' = [run EXCEPT ![r] = [run[r] EXCEPT !.left = @ \ {k}]]
                 /\ [run[r] EXCEPT !.left = @ \ {k}] \in RunStates
                 /\ run[r].kind = "unprotect" /\ run[r].step = "delete"
                 /\ Names(stored') \subseteq run[r].left \ {k}
        <3>1. Names(stored') \subseteq Names(stored) \ {k}
            BY <2>3 DEF DeleteName, Names, Inv, TypeInv, DiskType
        <3>2. [run[r] EXCEPT !.left = @ \ {k}] \in RunStates
            BY <2>1 DEF RunStates
        <3>3. Names(stored) \subseteq run[r].left
            BY <2>3 DEF DeleteName, Inv, RunInv, Deletes
        <3>  QED BY <2>3, <3>1, <3>2, <3>3 DEF DeleteName, Updates, At
    <2>4. CASE \E k \in EnvKeys : DeleteName(r, k)
        <3>1. PICK k \in EnvKeys : DeleteName(r, k)
            BY <2>4
        <3>2. /\ [run[r] EXCEPT !.left = @ \ {k}].kind = run[r].kind
              /\ [run[r] EXCEPT !.left = @ \ {k}].step = run[r].step
              /\ [run[r] EXCEPT !.left = @ \ {k}].seen = run[r].seen
              /\ [run[r] EXCEPT !.left = @ \ {k}].was = run[r].was
              /\ [run[r] EXCEPT !.left = @ \ {k}].text = run[r].text
              /\ [run[r] EXCEPT !.left = @ \ {k}].left = run[r].left \ {k}
            BY <2>1 DEF RunStates
        <3>  QED BY <2>3, <3>1, <3>2
    <2>  QED BY <2>2, <2>4
<1>2. /\ ~Idle(r) /\ TypeInv /\ UNCHANGED <<file, backup, binding, ids, together>>
      /\ stored' \in [EnvKeys -> Values \union {None}]
      /\ \A k \in EnvKeys : stored'[k] \in {stored[k], None}
    BY DEF ListNames, DeleteName, Inv, TypeInv, DiskType, Idle, At, disk, history
<1>3. DiskType' /\ NamesAreBound' /\ BoundStood(binding)' /\ DiskStood'
    <2>1. \A k \in Names(stored') : k \in Names(stored) /\ stored'[k] = stored[k]
        BY <1>2 DEF Names
    <2>2. Names(stored)' = Names(stored')
        BY DEF Names
    <2>  QED BY <1>2, <2>1, <2>2 DEF Inv, TypeInv, DiskType, NamesAreBound, BoundStood, DiskStood
<1>4. run'[r] = X
    BY <1>1, <1>2 DEF TypeInv
<1>5. RunInv(r)'
    BY <1>1, <1>2, <1>4 DEF Inv, RunInv, RunStood, Knows, Works, Expects, Stores, Deletes, Protects, At, Seen, Names
<1>  QED BY <1>1, <1>2, <1>3, <1>5, StepOfOne

LEMMA DeleteBindingInv ==
    ASSUME Inv, NEW r \in Runs, DeleteBinding(r)
    PROVE  Inv'
<1>  DEFINE X == [run[r] EXCEPT !.step = "done"]
<1>1. /\ At(r, "unprotect", "delete") /\ ~Idle(r) /\ TypeInv /\ run[r] \in RunStates
      /\ run' = [run EXCEPT ![r] = X] /\ binding' = None /\ run[r].left = {}
      /\ UNCHANGED <<file, backup, stored, ids, history>>
    BY RunFields DEF DeleteBinding, Updates, Inv, Idle, At
<1>2. Names(stored) = {}
    BY <1>1 DEF Inv, RunInv, Deletes
<1>3. X \in RunStates
    BY <1>1 DEF RunStates, Steps
<1>4. /\ X.kind = "unprotect" /\ X.step = "done" /\ X.seen = run[r].seen
      /\ X.was = run[r].was /\ X.text = run[r].text
    BY <1>1 DEF RunStates, At
<1>5. run'[r] = X
    BY <1>1 DEF TypeInv
<1>  HIDE DEF X
<1>6. DiskType' /\ NamesAreBound' /\ BoundStood(binding)' /\ DiskStood'
    BY <1>1, <1>2 DEF Inv, TypeInv, DiskType, NamesAreBound, BoundStood, DiskStood, history, MaybeBinding
<1>7. RunInv(r)'
    BY <1>1, <1>4, <1>5 DEF Inv, RunInv, RunStood, Knows, Works, Expects, Stores, Deletes, Protects, At, Seen, history
<1>  QED BY <1>1, <1>3, <1>4, <1>6, <1>7, StepOfOne

-----------------------------------------------------------------------------
(* The user's edits.                                                       *)

\* What an edit leaves of the disk.
LEMMA Edits ==
    ASSUME DiskType, DiskStood, Edit
    PROVE  /\ DiskType' /\ DiskStood' /\ together \subseteq together'
           /\ UNCHANGED <<backup, stored, binding, ids>>
<1>1. ASSUME NEW e \in Places, NEW held \in Held, Edited(e, held)
      PROVE  /\ DiskType' /\ DiskStood' /\ together \subseteq together'
             /\ UNCHANGED <<backup, stored, binding, ids>>
    <2>1. file' \in [Places -> Held] /\ \A f \in Places : file'[f] \in {file[f], held}
        BY <1>1 DEF Edited, DiskType
    <2>2. Stood(held) \subseteq together' /\ together \subseteq together'
        BY <1>1 DEF Edited
    <2>  QED BY <1>1, <2>1, <2>2 DEF Edited, DiskType, DiskStood
<1>2. PICK e \in Places :
        \/ \E k \in EnvKeys, v \in Values : SetValue(e, k, v)
        \/ \E c \in Commands : ChangeCommand(e, c)
        \/ \E k \in EnvKeys, v \in Values, c \in Commands : AddEntry(e, k, v, c)
        \/ \E held \in {NoEntry, NoFile} : RemoveEntry(e, held)
        \/ \E f \in Places : CopyEntry(e, f)
        \/ \E f \in Projects : MoveProject(e, f)
    BY DEF Edit
<1>3. file[e] \in Held /\ (IsEntry(file[e]) => file[e] \in Entries)
    BY HeldEntries DEF DiskType, Kept
<1>4. CASE \E k \in EnvKeys, v \in Values : SetValue(e, k, v)
    <2>1. PICK k \in EnvKeys, v \in Values : SetValue(e, k, v)
        BY <1>4
    <2>2. [file[e] EXCEPT !.env[k] = v] \in Held
        BY <1>3, <2>1 DEF SetValue, Entries, Held
    <2>  QED BY <1>1, <2>1, <2>2 DEF SetValue
<1>5. CASE \E c \in Commands : ChangeCommand(e, c)
    <2>1. PICK c \in Commands : ChangeCommand(e, c)
        BY <1>5
    <2>2. [file[e] EXCEPT !.cmd = c] \in Held
        BY <1>3, <2>1 DEF ChangeCommand, Entries, Held
    <2>  QED BY <1>1, <2>1, <2>2 DEF ChangeCommand
<1>6. CASE \E k \in EnvKeys, v \in Values, c \in Commands : AddEntry(e, k, v, c)
    <2>1. PICK k \in EnvKeys, v \in Values, c \in Commands : AddEntry(e, k, v, c)
        BY <1>6
    <2>2. Entry([NoSecrets EXCEPT ![k] = v], c) \in Held
        BY DEF Entry, NoSecrets, Entries, Held
    <2>  QED BY <1>1, <2>1, <2>2 DEF AddEntry
<1>7. CASE \E held \in {NoEntry, NoFile} : RemoveEntry(e, held)
    BY <1>1, <1>7 DEF RemoveEntry, Held
<1>8. CASE \E f \in Places : CopyEntry(e, f)
    BY <1>1, <1>3, <1>8 DEF CopyEntry
<1>9. CASE \E f \in Projects : MoveProject(e, f)
    <2>1. PICK f \in Projects : MoveProject(e, f)
        BY <1>9
    <2>2. file' \in [Places -> Held] /\ \A g \in Places : file'[g] \in {file[g], file[e], NoFile}
        BY <1>3, <2>1 DEF MoveProject, DiskType, Held
    <2>3. Stood(NoFile) = {}
        BY DEF Stood, IsEntry
    <2>  QED BY <2>1, <2>2, <2>3 DEF MoveProject, DiskType, DiskStood, history
<1>  QED BY <1>2, <1>4, <1>5, <1>6, <1>7, <1>8, <1>9

LEMMA UserEditsInv ==
    ASSUME Inv, UserEdits
    PROVE  Inv'
<1>1. /\ DiskType' /\ DiskStood' /\ together \subseteq together'
      /\ UNCHANGED <<backup, stored, binding, ids, run>>
    BY Edits DEF Inv, TypeInv, UserEdits
<1>2. TypeInv' /\ NamesAreBound' /\ BoundStood(binding)' /\ Alone'
    BY <1>1 DEF Inv, TypeInv, NamesAreBound, BoundStood, Alone, Idle
<1>3. ASSUME NEW r \in Runs PROVE RunInv(r)'
    <2>1. RunInv(r) /\ First(r)' = First(r) /\ \A b : BoundStood(b) => BoundStood(b)'
        BY <1>1 DEF Inv, First, BoundStood
    <2>2. RunStood(r)' /\ Knows(r)' /\ Works(r)' /\ Stores(r)' /\ Deletes(r)'
        BY <1>1, <2>1 DEF RunInv, RunStood, Knows, Works, Stores, Deletes, Protects, HeadsOwn, At, Seen
    <2>3. Expects(r)'
        BY <1>1, <2>1 DEF RunInv, Expects, Protects, HeadsOwn, BoundStood, Seen
    <2>  QED BY <2>2, <2>3 DEF RunInv
<1>  QED BY <1>1, <1>2, <1>3 DEF Inv

-----------------------------------------------------------------------------
(* The invariant holds, as long as no two runs overlap.                    *)

LEMMA InvInit == Init => Inv
<1>  SUFFICES ASSUME Init PROVE Inv
    OBVIOUS
<1>1. NoSecrets \in [EnvKeys -> Values \union {None}] /\ Names(stored) = {}
    BY DEF Init, NoSecrets, Names
<1>2. TypeInv
    BY <1>1, NoRunType, InitsAssumption DEF Init, TypeInv, DiskType, Held, Kept, MaybeBinding
<1>3. DiskStood
    <2>1. Stood(None) = {}
        BY DEF Stood, IsEntry
    <2>  QED BY <2>1 DEF Init, DiskStood
<1>4. Alone
    BY DEF Init, Alone, Idle, NoRun
<1>5. \A r \in Runs : RunInv(r)
    BY NoRunInv DEF Init
<1>  QED BY <1>1, <1>2, <1>3, <1>4, <1>5 DEF Inv, NamesAreBound, BoundStood, Init

LEMMA InvStutters ==
    ASSUME Inv, UNCHANGED vars
    PROVE  Inv'
BY DEF vars, disk, history, Inv, TypeInv, DiskType, NamesAreBound, BoundStood, DiskStood, Alone, Idle, Names,
       RunInv, RunStood, Knows, Works, Expects, Stores, Deletes, Protects, HeadsOwn, At, Seen, First

LEMMA InvNext ==
    ASSUME OneAtATime, Inv, [Next]_vars
    PROVE  Inv'
<1>1. ASSUME NEW r \in Runs, NEW kind \in {"protect", "unprotect"}, NEW dir \in Dirs, Start(r, kind, dir)
      PROVE  Inv'
    BY <1>1, StartInv
<1>2. ASSUME NEW r \in Runs, Expect(r) \/ Exit(r) \/ Kill(r)
      PROVE  Inv'
    BY <1>2, ExpectInv, ExitInv
<1>3. ASSUME NEW r \in Runs, ProtectStep(r)
      PROVE  Inv'
    <2>1. CASE Refused(r)
        BY <2>1, LeavesInv DEF Refused, Protects, At
    <2>  QED BY <1>3, <2>1, PlanInv, StoreBindingInv, StoreSecretInv, ReadConfigInv, WriteBackupInv,
                WriteConfigInv, WriteFailsInv, StoreBackInv, GoesOnInv DEF ProtectStep
<1>4. ASSUME NEW r \in Runs, UnprotectStep(r)
      PROVE  Inv'
    BY <1>4, RestoreInv, GoesOnInv, DeletesInv, DeleteBindingInv DEF UnprotectStep
<1>  QED BY <1>1, <1>2, <1>3, <1>4, UserEditsInv, InvStutters DEF Next

THEOREM InvHolds == OneAtATime => (Spec => []Inv)
<1>  SUFFICES ASSUME OneAtATime PROVE Spec => []Inv
    OBVIOUS
<1>  QED BY InvInit, InvNext, PTL DEF Spec

\* Whatever the user edits meanwhile, and wherever a run is killed: what is
\* stored has a binding.
THEOREM NamesBound == OneAtATime => (Spec => []NamesAreBound)
<1>1. Inv => NamesAreBound
    BY DEF Inv
<1>  QED BY <1>1, InvHolds, PTL

\* A project's entry is started with the pair only when the pair is its own,
\* and by a command that every stored value has stood with.
THEOREM ProjectsStartTheirOwn == OneAtATime => (Spec => []ProjectStartsItsOwn)
<1>1. Inv => ProjectStartsItsOwn
    <2>  SUFFICES ASSUME Inv, NEW d \in Projects, Starts(d, d)
                  PROVE  /\ binding.at = d
                         /\ \A k \in Names(stored) : <<k, stored[k], file[d].cmd>> \in together
        BY DEF ProjectStartsItsOwn
    <2>1. binding # None /\ file[d].id = binding.id /\ file[d].cmd = binding.cmd /\ IsEntry(file[d])
        BY DEF Starts, LaunchAllows, Wrapped
    <2>2. binding.at = d
        BY <2>1 DEF Starts, PlaceAllows
    <2>  QED BY <2>1, <2>2 DEF Inv, BoundStood
<1>  QED BY <1>1, InvHolds, PTL

-----------------------------------------------------------------------------
(* While the user waits: the configs are as a run has read them.           *)

LEMMA WaitStep ==
    ASSUME WaitInv, Inv', NEW r \in Runs, ~Idle(r) \/ AllIdle, \A q \in Runs \ {r} : run'[q] = run[q],
           Fresh(r)', FindsGone(r)', Writes(r)'
    PROVE  WaitInv'
<1>1. ASSUME NEW q \in Runs \ {r} PROVE (Fresh(q) /\ FindsGone(q) /\ Writes(q))'
    <2>1. run'[q] = NoRun
        BY DEF WaitInv, Inv, Alone, AllIdle
    <2>  QED BY <2>1, NoRunInvNext
<1>  QED BY <1>1 DEF WaitInv

\* A run that ends.
LEMMA WaitEnds ==
    ASSUME WaitInv, Inv', NEW r \in Runs, ~Idle(r), run' = [run EXCEPT ![r] = NoRun]
    PROVE  WaitInv'
<1>1. run'[r] = NoRun /\ \A q \in Runs \ {r} : run'[q] = run[q]
    BY DEF WaitInv, Inv, TypeInv
<1>  QED BY <1>1, NoRunInvNext, WaitStep

\* A run that leaves the configs alone, and is about to store no binding and write no config.
LEMMA WaitQuiet ==
    ASSUME WaitInv, Inv', NEW r \in Runs, ~Idle(r), NEW X, run' = [run EXCEPT ![r] = X],
           X.kind = run[r].kind,
           \/ X.kind # "protect"
           \/ /\ file' = file /\ X.seen = run[r].seen /\ X.todo \subseteq run[r].todo
              /\ X.step \notin {"expect", "store", "backup", "write"}
    PROVE  WaitInv'
<1>1. run'[r] = X /\ \A q \in Runs \ {r} : run'[q] = run[q]
    BY DEF WaitInv, Inv, TypeInv
<1>2. Fresh(r)'
    <2>1. Fresh(r)
        BY DEF WaitInv
    <2>  QED BY <1>1, <2>1 DEF Fresh, Seen
<1>3. FindsGone(r)' /\ Writes(r)'
    BY <1>1 DEF FindsGone, Writes, Protects
<1>  QED BY <1>1, <1>2, <1>3, WaitStep

LEMMA StartWaits ==
    ASSUME WaitInv, Inv', UserWaits, NEW r \in Runs, NEW kind \in {"protect", "unprotect"}, NEW dir \in Dirs,
           Start(r, kind, dir)
    PROVE  WaitInv'
<1>1. /\ AllIdle /\ file' = file
      /\ run' = [run EXCEPT ![r] = [NoRun EXCEPT !.kind = kind, !.step = "next", !.seen = Discovered(dir),
                                        !.todo = {e \in Places : Parsed(Discovered(dir)[e])}]]
    BY DEF Start, UserWaits, disk
<1>2. /\ run'[r].step = "next" /\ run'[r].seen = Discovered(dir)
      /\ run'[r].todo = {e \in Places : Parsed(Discovered(dir)[e])}
      /\ \A q \in Runs \ {r} : run'[q] = run[q]
    BY <1>1 DEF WaitInv, Inv, TypeInv, NoRun
<1>3. \A e \in Places : Discovered(dir)[e] \in {file[e], NoFile}
    BY DEF Discovered
<1>4. Fresh(r)'
    <2>1. \A e \in run'[r].todo : Discovered(dir)[e] = file[e]
        BY <1>2, <1>3 DEF Parsed
    <2>2. \A e \in Places : Discovered(dir)[e] = NoEntry => ~IsEntry(file[e])
        BY <1>3, HeldAssumption DEF IsEntry
    <2>  QED BY <1>1, <1>2, <2>1, <2>2 DEF Fresh, Seen
<1>5. FindsGone(r)' /\ Writes(r)'
    BY <1>2 DEF FindsGone, Writes, Protects
<1>  QED BY <1>1, <1>2, <1>4, <1>5, WaitStep

\* A plan takes a binding only from an entry that is gone.
LEMMA PlanFindsGone ==
    ASSUME WaitInv, NEW r \in Runs, run[r].kind = "protect", NEW e \in Places, binding # None,
           NEW plan, plan = PlanOf(r, e, binding), plan # "left", NEW job, job = JobFor(r, e, binding),
           job.binding # None, job.binding.at # binding.at
    PROVE  ~IsEntry(file[binding.at])
<1>1. binding \in Bindings /\ binding \in MaybeBinding /\ binding.at \in Places /\ TypeInv
    BY DEF WaitInv, Inv, TypeInv, DiskType, MaybeBinding, Bindings
<1>2. JobFits(r, e, binding, plan, job)
    BY <1>1, JobFields
<1>3. Orphaned(r, binding) => ~IsEntry(file[binding.at])
    BY <1>1 DEF Orphaned, WaitInv, Fresh, IsEntry
<1>4. CASE plan = "fresh"
    <2>1. job.binding.at = e
        BY <1>2, <1>4 DEF JobFits
    <2>2. Orphaned(r, binding)
        BY <1>1, <1>4, <2>1, Plans
    <2>  QED BY <1>3, <2>2
<1>5. CASE plan = "bind"
    <2>1. Orphaned(r, binding)
        <3>1. plan = WrappedPlan(r, e, binding)
            BY <1>5 DEF PlanOf, FreshPlan
        <3>  QED BY <1>1, <1>5, <3>1, WrappedPlans
    <2>  QED BY <1>3, <2>1
<1>6. CASE plan = "moved"
    <2>1. Moved(r, e, binding)
        BY <1>1, <1>6, Plans
    <2>  QED BY <2>1 DEF Moved, IsEntry
<1>7. CASE plan \in {"rebind", "stale", "replace", "bound"}
    <2>1. [binding EXCEPT !.cmd = Seen(r, e).cmd].at = binding.at /\ [binding EXCEPT !.id = ids + 1].at = binding.at
        BY <1>1 DEF Bindings
    <2>  QED BY <1>2, <1>7, <2>1 DEF JobFits
<1>8. plan \in {"fresh", "bind", "moved", "bound", "rebind", "stale", "replace"}
    BY <1>1, Plans
<1>  QED BY <1>4, <1>5, <1>6, <1>7, <1>8

LEMMA PlanWaits ==
    ASSUME WaitInv, Inv', NEW r \in Runs, Plan(r)
    PROVE  WaitInv'
<1>  DEFINE e == First(r)
            plan == PlanOf(r, e, binding)
            job == JobFor(r, e, binding)
            X == [run[r] EXCEPT !.step = IF job.binding = None THEN "secrets" ELSE "expect",
                       !.known = binding, !.job = job, !.left = job.keys,
                       !.was = IF plan = "moved" THEN backup[e] ELSE None]
<1>1. /\ At(r, "protect", "next") /\ run[r].todo # {} /\ run[r] \in RunStates /\ Inv
      /\ TypeInv /\ ~Idle(r)
    BY RunFields DEF Plan, WaitInv, Inv, At, Idle
<1>2. e \in Places
    BY <1>1, FirstIn
<1>3. Known(r) = binding
    BY <1>1 DEF Known, Inv, RunInv, Knows, At
<1>4. CASE plan = "left"
    <2>  DEFINE Y == [run[r] EXCEPT !.todo = @ \ {First(r)}, !.step = "next", !.job = NoJob,
                                    !.was = None, !.text = None]
    <2>1. run' = [run EXCEPT ![r] = Y] /\ file' = file
        BY <1>3, <1>4 DEF Plan, Passes, Updates, disk
    <2>2. Y.kind = run[r].kind /\ Y.seen = run[r].seen /\ Y.todo \subseteq run[r].todo /\ Y.step = "next"
        BY <1>1 DEF RunStates
    <2>  HIDE DEF Y
    <2>  QED BY <1>1, <2>1, <2>2, WaitQuiet
<1>5. CASE plan # "left"
    <2>1. run' = [run EXCEPT ![r] = X] /\ file' = file /\ binding' = binding
        BY <1>3, <1>5 DEF Plan, JobFor, Updates
    <2>2. /\ X.kind = "protect" /\ X.step = (IF job.binding = None THEN "secrets" ELSE "expect")
          /\ X.seen = run[r].seen /\ X.todo = run[r].todo /\ X.job = job
        BY <1>1 DEF RunStates, At
    <2>3. run'[r] = X /\ \A q \in Runs \ {r} : run'[q] = run[q]
        BY <1>1, <2>1 DEF TypeInv
    <2>4. binding # None /\ job.binding # None /\ job.binding.at # binding.at => ~IsEntry(file[binding.at])
        BY <1>1, <1>2, <1>5, PlanFindsGone DEF At
    <2>  HIDE DEF X, e, job, plan
    <2>5. Fresh(r)'
        BY <1>1, <2>1, <2>2, <2>3 DEF WaitInv, Fresh, Seen, At
    <2>6. FindsGone(r)' /\ Writes(r)'
        BY <2>1, <2>2, <2>3, <2>4 DEF FindsGone, Writes, Protects
    <2>  QED BY <1>1, <2>3, <2>5, <2>6, WaitStep
<1>  QED BY <1>4, <1>5

LEMMA LeavesWaits ==
    ASSUME WaitInv, Inv', NEW r \in Runs, ~Idle(r), LeavesUnbound(r), UNCHANGED file
    PROVE  WaitInv'
<1>  DEFINE X == [run[r] EXCEPT !.todo = @ \ {First(r)}, !.step = "next", !.job = NoJob, !.was = None,
                                !.refused = @ \union {First(r)}]
<1>1. run' = [run EXCEPT ![r] = X] /\ run[r] \in RunStates
    BY RunFields DEF LeavesUnbound, Updates, WaitInv, Inv
<1>2. X.kind = run[r].kind /\ X.seen = run[r].seen /\ X.todo \subseteq run[r].todo /\ X.step = "next"
    BY <1>1 DEF RunStates
<1>  HIDE DEF X
<1>  QED BY <1>1, <1>2, WaitQuiet

LEMMA ExpectWaits ==
    ASSUME WaitInv, Inv', NEW r \in Runs, Expect(r)
    PROVE  WaitInv'
<1>1. /\ run[r].step = "expect" /\ run[r] \in RunStates /\ TypeInv /\ ~Idle(r)
      /\ UNCHANGED <<file, binding>>
    BY RunFields DEF Expect, WaitInv, Inv, Idle
<1>2. CASE run[r].kind = "protect" /\ binding = run[r].job.expect
    <2>  DEFINE X == [run[r] EXCEPT !.step = "store"]
    <2>1. run' = [run EXCEPT ![r] = X]
        BY <1>2 DEF Expect, Updates
    <2>2. X.kind = "protect" /\ X.step = "store" /\ X.seen = run[r].seen /\ X.todo = run[r].todo /\ X.job = run[r].job
        BY <1>1, <1>2 DEF RunStates
    <2>3. run'[r] = X /\ \A q \in Runs \ {r} : run'[q] = run[q]
        BY <1>1, <2>1 DEF TypeInv
    <2>  HIDE DEF X
    <2>4. Fresh(r) /\ FindsGone(r) /\ Protects(r, {"expect"})
        BY <1>1, <1>2 DEF WaitInv, Protects
    <2>5. Fresh(r)' /\ FindsGone(r)' /\ Writes(r)'
        BY <1>1, <1>2, <2>2, <2>3, <2>4 DEF Fresh, FindsGone, Writes, Protects, Seen
    <2>  QED BY <1>1, <2>3, <2>5, WaitStep
<1>3. CASE run[r].kind = "protect" /\ binding # run[r].job.expect
    BY <1>1, <1>3, LeavesWaits DEF Expect
<1>4. CASE run[r].kind # "protect"
    <2>  DEFINE X == [run[r] EXCEPT !.step = IF binding = run[r].job.expect THEN "names" ELSE "done"]
    <2>1. run' = [run EXCEPT ![r] = X] /\ X.kind = run[r].kind
        BY <1>1, <1>4 DEF Expect, Updates, RunStates
    <2>  HIDE DEF X
    <2>  QED BY <1>1, <1>4, <2>1, WaitQuiet
<1>  QED BY <1>2, <1>3, <1>4

\* The steps that decide neither a binding nor what a config will be.
LEMMA QuietWaits ==
    ASSUME WaitInv, Inv', NEW r \in Runs,
           \/ StoreBinding(r) \/ (\E k \in EnvKeys : StoreSecret(r, k)) \/ WriteFails(r) \/ StoreBack(r)
           \/ Finish(r) \/ UnprotectStep(r)
    PROVE  WaitInv'
<1>1. run[r] \in RunStates /\ TypeInv
    BY RunFields DEF WaitInv, Inv
<1>2. CASE StoreBinding(r)
    <2>  DEFINE X == [run[r] EXCEPT !.step = "secrets", !.known = run[r].job.binding, !.was = None,
                                    !.holder = @ \/ ~Seen(r, First(r)).wrapped]
    <2>1. X.kind = run[r].kind /\ X.seen = run[r].seen /\ X.todo = run[r].todo /\ X.step = "secrets"
        BY <1>1 DEF RunStates
    <2>2. run' = [run EXCEPT ![r] = X] /\ file' = file /\ ~Idle(r)
        BY <1>2 DEF StoreBinding, Updates, At, Idle
    <2>  HIDE DEF X
    <2>  QED BY <2>1, <2>2, WaitQuiet
<1>3. CASE \E k \in EnvKeys : StoreSecret(r, k)
    <2>1. PICK k \in EnvKeys : StoreSecret(r, k)
        BY <1>3
    <2>  DEFINE X == [run[r] EXCEPT !.left = @ \ {k}]
    <2>2. X.kind = run[r].kind /\ X.seen = run[r].seen /\ X.todo = run[r].todo /\ X.step = run[r].step
        BY <1>1 DEF RunStates
    <2>3. run' = [run EXCEPT ![r] = X] /\ file' = file /\ ~Idle(r) /\ run[r].step = "secrets"
        BY <2>1 DEF StoreSecret, Updates, At, Idle
    <2>  HIDE DEF X
    <2>  QED BY <2>2, <2>3, WaitQuiet
<1>4. CASE WriteFails(r)
    <2>  DEFINE X == [run[r] EXCEPT !.step = "back"]
    <2>1. X.kind = run[r].kind /\ X.seen = run[r].seen /\ X.todo = run[r].todo /\ X.step = "back"
        BY <1>1 DEF RunStates
    <2>2. run'[r] = X => X.job = run[r].job
        BY <1>1 DEF RunStates
    <2>3. ~Idle(r) /\ run[r].kind = "protect"
        BY <1>4 DEF WriteFails, Idle
    <2>4. \/ run' = [run EXCEPT ![r] = NoRun]
          \/ run' = [run EXCEPT ![r] = X] /\ run[r].job.target # First(r)
        BY <1>4 DEF WriteFails, Updates
    <2>  HIDE DEF X
    <2>5. CASE run' = [run EXCEPT ![r] = NoRun]
        BY <2>3, <2>5, WaitEnds
    <2>6. CASE run' = [run EXCEPT ![r] = X] /\ run[r].job.target # First(r)
        <3>1. run'[r] = X /\ \A q \in Runs \ {r} : run'[q] = run[q]
            BY <1>1, <2>6 DEF TypeInv
        <3>2. run[r].job.target \in Homes
            BY <1>4, <2>3, <2>6 DEF WriteFails, WaitInv, Inv, RunInv, Works, Protects
        <3>3. \A f \in Places : file'[f] = file[f] \/ (f = run[r].job.target /\ file'[f] = Cut)
            BY <1>1, <1>4, <2>3 DEF WriteFails, LeavesCut, WritesOver, At, TypeInv, DiskType
        <3>4. Fresh(r)'
            <4>1. Fresh(r) /\ run[r].todo \subseteq Places /\ ~IsEntry(Cut)
                BY <1>1 DEF WaitInv, RunStates, IsEntry
            <4>2. ASSUME NEW f \in run[r].todo PROVE Seen(r, f) = file'[f] \/ (file'[f] = Cut /\ f \in Homes)
                BY <2>3, <3>2, <3>3, <4>1 DEF Fresh
            <4>3. ASSUME NEW f \in Places, Seen(r, f) = NoEntry PROVE ~IsEntry(file'[f])
                BY <2>3, <3>3, <4>1, <4>3 DEF Fresh
            <4>  QED BY <2>1, <3>1, <4>2, <4>3 DEF Fresh, Seen
        <3>5. FindsGone(r)' /\ Writes(r)'
            BY <2>1, <3>1 DEF FindsGone, Writes, Protects
        <3>  QED BY <2>3, <3>1, <3>4, <3>5, WaitStep
    <2>  QED BY <2>4, <2>5, <2>6
<1>5. CASE StoreBack(r)
    <2>  DEFINE X == [run[r] EXCEPT !.todo = @ \ {First(r)}, !.step = "next", !.job = NoJob, !.was = None,
                                    !.text = None, !.refused = @ \union {run[r].job.target},
                                    !.known = binding']
    <2>1. X.kind = run[r].kind /\ X.seen = run[r].seen /\ X.todo \subseteq run[r].todo /\ X.step = "next"
        BY <1>1 DEF RunStates
    <2>2. run' = [run EXCEPT ![r] = X] /\ file' = file /\ ~Idle(r)
        BY <1>5 DEF StoreBack, Updates, At, Idle
    <2>  HIDE DEF X
    <2>  QED BY <2>1, <2>2, WaitQuiet
<1>6. CASE Finish(r)
    <2>  DEFINE X == [run[r] EXCEPT !.step = "done"]
    <2>1. X.kind = run[r].kind /\ X.seen = run[r].seen /\ X.todo = run[r].todo /\ X.step = "done"
        BY <1>1 DEF RunStates
    <2>2. run' = [run EXCEPT ![r] = X] /\ file' = file /\ ~Idle(r)
        BY <1>6 DEF Finish, Updates, At, Idle, disk
    <2>  HIDE DEF X
    <2>  QED BY <2>1, <2>2, WaitQuiet
<1>7. CASE UnprotectStep(r)
    <2>1. run[r].kind = "unprotect" /\ ~Idle(r)
        BY <1>7 DEF UnprotectStep, Restore, Clear, ListNames, DeleteName, DeleteBinding, At, Idle
    <2>2. PICK X : run' = [run EXCEPT ![r] = X] /\ X.kind = run[r].kind
        BY <1>1, <1>7 DEF UnprotectStep, Restore, Clear, ListNames, DeleteName, DeleteBinding, Passes, Updates, RunStates
    <2>  QED BY <2>1, <2>2, WaitQuiet
<1>  QED BY <1>2, <1>3, <1>4, <1>5, <1>6, <1>7

LEMMA ReadConfigWaits ==
    ASSUME WaitInv, Inv', NEW r \in Runs, ReadConfig(r)
    PROVE  WaitInv'
<1>  DEFINE cur == file[run[r].job.target]
            X == [run[r] EXCEPT !.step = "backup", !.was = cur, !.text = Rewritten(r, cur)]
            Y == [run[r] EXCEPT !.todo = @ \ {First(r)}, !.step = "next", !.job = NoJob,
                                !.was = None, !.text = None]
<1>1. /\ Protects(r, {"secrets"}) /\ run[r] \in RunStates /\ TypeInv /\ Inv /\ ~Idle(r) /\ file' = file
    BY RunFields DEF ReadConfig, WaitInv, Inv, Idle, At, Protects, disk
<1>2. CASE Rewritten(r, cur) = cur
    <2>1. run' = [run EXCEPT ![r] = Y]
        BY <1>2 DEF ReadConfig, Passes, Updates
    <2>2. Y.kind = run[r].kind /\ Y.seen = run[r].seen /\ Y.todo \subseteq run[r].todo /\ Y.step = "next"
        BY <1>1 DEF RunStates
    <2>  HIDE DEF Y
    <2>  QED BY <1>1, <2>1, <2>2, WaitQuiet
<1>3. CASE Rewritten(r, cur) # cur
    <2>1. run' = [run EXCEPT ![r] = X]
        BY <1>3 DEF ReadConfig, Updates
    <2>2. cur \in Held
        BY <1>1 DEF Inv, RunInv, Works, Protects, TypeInv, DiskType
    <2>3. IsEntry(cur)
        BY <1>1, <1>3, <2>2, RewrittenHeld
    <2>4. /\ X.kind = "protect" /\ X.step = "backup" /\ X.seen = run[r].seen /\ X.todo = run[r].todo
          /\ X.job = run[r].job /\ X.text = Rewritten(r, cur)
        BY <1>1 DEF RunStates, Protects
    <2>5. run'[r] = X /\ \A q \in Runs \ {r} : run'[q] = run[q]
        BY <1>1, <2>1 DEF TypeInv
    <2>  HIDE DEF X
    <2>6. Fresh(r)'
        <3>1. Fresh(r)
            BY DEF WaitInv
        <3>  QED BY <1>1, <2>4, <2>5, <3>1 DEF Fresh, Seen, Protects
    <2>7. Writes(r)'
        BY <1>1, <2>3, <2>4, <2>5 DEF Writes, Rewritten, Seen
    <2>8. FindsGone(r)'
        BY <2>4, <2>5 DEF FindsGone, Protects
    <2>  QED BY <1>1, <2>5, <2>6, <2>7, <2>8, WaitStep
<1>  QED BY <1>2, <1>3

LEMMA WriteBackupWaits ==
    ASSUME WaitInv, Inv', NEW r \in Runs, WriteBackup(r)
    PROVE  WaitInv'
<1>  DEFINE X == [run[r] EXCEPT !.step = "write"]
<1>1. /\ Protects(r, {"backup"}) /\ run[r] \in RunStates /\ TypeInv /\ ~Idle(r)
      /\ run' = [run EXCEPT ![r] = X] /\ file' = file
    BY RunFields DEF WriteBackup, Updates, WaitInv, Inv, Idle, At, Protects
<1>2. /\ X.kind = "protect" /\ X.step = "write" /\ X.seen = run[r].seen /\ X.todo = run[r].todo
      /\ X.job = run[r].job /\ X.text = run[r].text
    BY <1>1 DEF RunStates, Protects
<1>3. run'[r] = X /\ \A q \in Runs \ {r} : run'[q] = run[q]
    BY <1>1 DEF TypeInv
<1>  HIDE DEF X
<1>4. Fresh(r) /\ Writes(r)
    BY DEF WaitInv
<1>5. Fresh(r)' /\ FindsGone(r)'
    BY <1>1, <1>2, <1>3, <1>4 DEF Fresh, FindsGone, Seen, Protects
<1>6. Writes(r)'
    <2>1. IsEntry(file[run[r].job.target]) /\ run[r].text = Rewritten(r, file[run[r].job.target])
        BY <1>1, <1>4 DEF Writes, Protects
    <2>2. /\ run'[r].job = run[r].job /\ run'[r].seen = run[r].seen /\ run'[r].text = run[r].text
          /\ file' = file
        BY <1>1, <1>2, <1>3
    <2>  QED BY <2>2, <2>1 DEF Writes, Rewritten, Seen
<1>  QED BY <1>1, <1>3, <1>5, <1>6, WaitStep

\* Where a run writes another entry's binding, it gives the config's entry its new id.
LEMMA ReplacesId ==
    ASSUME TypeInv, NEW r \in Runs, Works(r), Protects(r, {"backup", "write"}), run[r].job.target # First(r),
           NEW cur \in Entries, cur = Seen(r, run[r].job.target)
    PROVE  Rewritten(r, cur) = [cur EXCEPT !.id = run[r].job.id]
<1>1. /\ run[r].job.keys = {} /\ cur.wrapped /\ run[r].job.id # 0
      /\ Seen(r, run[r].job.target).wrapped /\ IsEntry(cur)
    BY DEF Works, Protects
<1>2. Without(cur.env, {}) = cur.env
    BY DEF Without, Entries
<1>3. Rewritten(r, cur) = [cur EXCEPT !.id = run[r].job.id, !.env = Without(@, {})]
    BY <1>1 DEF Rewritten
<1>  QED BY <1>2, <1>3 DEF Entries

LEMMA WriteConfigWaits ==
    ASSUME WaitInv, Inv', NEW r \in Runs, WriteConfig(r)
    PROVE  WaitInv'
<1>  DEFINE e == run[r].job.target
            X == [run[r] EXCEPT
                  !.todo = @ \ {First(r)}, !.step = "next", !.job = NoJob, !.was = None, !.text = None,
                  !.seen = IF e = First(r) THEN @ ELSE [@ EXCEPT ![e].id = run[r].job.id]]
<1>1. /\ Protects(r, {"write"}) /\ run[r] \in RunStates /\ TypeInv /\ Inv /\ ~Idle(r)
      /\ run' = [run EXCEPT ![r] = X] /\ file' = [file EXCEPT ![e] = run[r].text]
      /\ Works(r) /\ Fresh(r)
    BY RunFields DEF WriteConfig, Updates, WaitInv, Inv, RunInv, Idle, At, Protects
<1>2. /\ e \in Places /\ IsEntry(Seen(r, e)) /\ Seen(r, e) \in Entries /\ IsEntry(file[e])
      /\ run[r].text = Rewritten(r, file[e])
    BY <1>1, SeenType DEF Works, Protects, WaitInv, Writes
<1>3. /\ X.kind = "protect" /\ X.step = "next" /\ X.todo = run[r].todo \ {First(r)}
      /\ X.seen = IF e = First(r) THEN run[r].seen ELSE [run[r].seen EXCEPT ![e].id = run[r].job.id]
    BY <1>1 DEF RunStates, Protects
<1>4. run'[r] = X /\ \A q \in Runs \ {r} : run'[q] = run[q]
    BY <1>1 DEF TypeInv
<1>5. run[r].seen \in [Places -> Held] /\ file \in [Places -> Held] /\ run[r].todo \in SUBSET Places
    BY <1>1 DEF RunStates, TypeInv, DiskType
<1>  HIDE DEF X
<1>6. ASSUME NEW f \in Places, f # e PROVE X.seen[f] = Seen(r, f) /\ file'[f] = file[f]
    BY <1>1, <1>3, <1>5, <1>6 DEF Seen
<1>7. X.seen[e] # NoEntry
    <2>1. [Seen(r, e) EXCEPT !.id = run[r].job.id] \in Entries
        BY <1>1, <1>2, RunFields DEF Entries, Jobs
    <2>2. X.seen[e] \in {Seen(r, e), [Seen(r, e) EXCEPT !.id = run[r].job.id]}
        BY <1>2, <1>3, <1>5 DEF Seen
    <2>  QED BY <1>2, <2>1, <2>2, HeldAssumption
<1>8. ASSUME e \in X.todo PROVE X.seen[e] = file'[e]
    <2>1. e # First(r) /\ e \in run[r].todo
        BY <1>3, <1>8
    <2>2. file[e] = Seen(r, e)
        BY <1>1, <1>2, <2>1 DEF Fresh, Protects, IsEntry
    <2>3. run[r].text = [Seen(r, e) EXCEPT !.id = run[r].job.id]
        BY <1>1, <1>2, <2>1, <2>2, ReplacesId DEF Protects
    <2>4. X.seen[e] = [Seen(r, e) EXCEPT !.id = run[r].job.id]
        BY <1>2, <1>3, <1>5, <2>1 DEF Seen
    <2>5. file'[e] = run[r].text
        BY <1>1, <1>2, <1>5
    <2>  QED BY <2>3, <2>4, <2>5
<1>9. Fresh(r)'
    <2>1. ASSUME NEW f \in X.todo PROVE X.seen[f] = file'[f] \/ (file'[f] = Cut /\ f \in Homes)
        <3>1. f \in Places /\ f \in run[r].todo
            BY <1>3, <1>5
        <3>  QED BY <1>1, <1>6, <1>8, <3>1 DEF Fresh, Protects
    <2>2. ASSUME NEW f \in Places, X.seen[f] = NoEntry PROVE ~IsEntry(file'[f])
        BY <1>1, <1>6, <1>7, <2>2 DEF Fresh, Protects
    <2>  QED BY <1>3, <1>4, <2>1, <2>2 DEF Fresh, Seen
<1>10. FindsGone(r)' /\ Writes(r)'
    BY <1>3, <1>4 DEF FindsGone, Writes, Protects
<1>  QED BY <1>1, <1>4, <1>9, <1>10, WaitStep

LEMMA WaitNext ==
    ASSUME UserWaits, WaitInv, [Next]_vars
    PROVE  WaitInv'
<1>1. OneAtATime /\ Inv /\ Inv'
    BY InvNext DEF UserWaits, OneAtATime, WaitInv
<1>2. ASSUME NEW r \in Runs, NEW kind \in {"protect", "unprotect"}, NEW dir \in Dirs, Start(r, kind, dir)
      PROVE  WaitInv'
    BY <1>1, <1>2, StartWaits
<1>3. ASSUME NEW r \in Runs, Exit(r) \/ Kill(r)
      PROVE  WaitInv'
    BY <1>1, <1>3, WaitEnds DEF Exit, Kill, Updates, Idle
<1>4. ASSUME NEW r \in Runs, Expect(r)
      PROVE  WaitInv'
    BY <1>1, <1>4, ExpectWaits
<1>5. ASSUME NEW r \in Runs, ProtectStep(r)
      PROVE  WaitInv'
    <2>1. CASE Refused(r)
        BY <1>1, <2>1, LeavesWaits DEF Refused, At, Idle
    <2>  QED BY <1>1, <1>5, <2>1, PlanWaits, QuietWaits, ReadConfigWaits, WriteBackupWaits, WriteConfigWaits
             DEF ProtectStep
<1>6. ASSUME NEW r \in Runs, UnprotectStep(r)
      PROVE  WaitInv'
    BY <1>1, <1>6, QuietWaits
<1>7. CASE UserEdits \/ UNCHANGED vars
    <2>1. CASE UserEdits
        <3>1. \A r \in Runs : run'[r] = NoRun
            BY <1>1, <2>1 DEF UserEdits, UserWaits, AllIdle, Inv, Alone
        <3>  QED BY <1>1, <3>1, NoRunInvNext DEF WaitInv
    <2>2. CASE UNCHANGED vars
        <3>1. UNCHANGED <<file, binding, run>>
            BY <2>2 DEF vars, disk
        <3>2. ASSUME NEW r \in Runs PROVE Fresh(r)' /\ FindsGone(r)' /\ Writes(r)'
            <4>1. Fresh(r) /\ FindsGone(r) /\ Writes(r)
                BY DEF WaitInv
            <4>  QED BY <3>1, <4>1 DEF Fresh, FindsGone, Writes, Rewritten, Seen, Protects
        <3>  QED BY <1>1, <3>2 DEF WaitInv
    <2>  QED BY <1>7, <2>1, <2>2
<1>  QED BY <1>2, <1>3, <1>4, <1>5, <1>6, <1>7 DEF Next

LEMMA WaitInit == Init => WaitInv
BY InvInit, NoRunInv DEF Init, WaitInv

\* While the user waits for a run to end, what is stored for an entry is
\* bound to another one only when the entry is gone from its config.
THEOREM BindingsTakenFromGone == UserWaits => (Spec => TakenOnlyFromGone)
<1>  SUFFICES ASSUME UserWaits PROVE Spec => TakenOnlyFromGone
    OBVIOUS
<1>  DEFINE Taken == binding # None /\ binding' # None /\ binding'.at # binding.at
<1>1. WaitInv /\ [Next]_vars => [Taken => ~IsEntry(file[binding.at])]_vars
    <2>  SUFFICES ASSUME WaitInv, Next, Taken PROVE ~IsEntry(file[binding.at])
        OBVIOUS
    <2>1. binding' # binding
        OBVIOUS
    <2>2. ASSUME NEW r \in Runs, StoreBinding(r) PROVE ~IsEntry(file[binding.at])
        BY <2>2 DEF StoreBinding, WaitInv, FindsGone, Protects, At
    <2>3. ASSUME NEW r \in Runs, StoreBack(r) PROVE FALSE
        <3>1. /\ binding' = run[r].job.expect /\ binding = run[r].job.binding
              /\ Protects(r, {"back"}) /\ Works(r)
            BY <2>1, <2>3 DEF StoreBack, WaitInv, Inv, RunInv, Protects, At
        <3>  QED BY <3>1 DEF Works, Protects
    <2>4. ASSUME NEW r \in Runs, DeleteBinding(r) PROVE FALSE
        BY <2>4 DEF DeleteBinding
    <2>5. ASSUME UserEdits PROVE FALSE
        BY <2>1, <2>5, Edits DEF UserEdits, WaitInv, Inv, TypeInv
    <2>6. ASSUME NEW r \in Runs, Exit(r) \/ Kill(r) \/ Expect(r) \/ Refused(r) PROVE binding' = binding
        BY <2>6 DEF Exit, Kill, Expect, Refused, disk
    <2>7. ASSUME NEW r \in Runs, NEW kind \in {"protect", "unprotect"}, NEW dir \in Dirs, Start(r, kind, dir)
          PROVE  binding' = binding
        BY <2>7 DEF Start, disk
    <2>8. ASSUME NEW r \in Runs, NEW k \in EnvKeys, StoreSecret(r, k) \/ DeleteName(r, k) PROVE binding' = binding
        BY <2>8 DEF StoreSecret, DeleteName
    <2>9. ASSUME NEW r \in Runs, Plan(r) PROVE binding' = binding
        BY <2>9 DEF Plan, disk
    <2>10. ASSUME NEW r \in Runs, ReadConfig(r) \/ WriteBackup(r) \/ WriteConfig(r) \/ WriteFails(r) \/ Finish(r)
           PROVE  binding' = binding
        BY <2>10 DEF ReadConfig, WriteBackup, WriteConfig, WriteFails, Finish, disk
    <2>11. ASSUME NEW r \in Runs, Restore(r) \/ Clear(r) \/ ListNames(r) PROVE binding' = binding
        BY <2>11 DEF Restore, Clear, ListNames, disk
    <2>  QED BY <2>1, <2>2, <2>3, <2>4, <2>5, <2>6, <2>7, <2>8, <2>9, <2>10, <2>11 DEF Next, ProtectStep, UnprotectStep
<1>2. Init => WaitInv
    BY WaitInit
<1>3. WaitInv /\ [Next]_vars => WaitInv'
    BY WaitNext
<1>  QED BY <1>1, <1>2, <1>3, PTL DEF Spec, TakenOnlyFromGone

-----------------------------------------------------------------------------
(* No secret is lost.                                                      *)

LEMMA LossStep ==
    ASSUME LossInv, WaitInv', NEW r \in Runs, ~Idle(r) \/ AllIdle, \A q \in Runs \ {r} : run'[q] = run[q],
           OwedIsHeld', Copied(r)', Returned(r)', Moves(r)'
    PROVE  LossInv'
<1>1. ASSUME NEW q \in Runs \ {r} PROVE (Copied(q) /\ Returned(q) /\ Moves(q))'
    <2>1. run'[q] = NoRun
        BY DEF LossInv, WaitInv, Inv, Alone, AllIdle
    <2>  QED BY <2>1, NoRunInvNext
<1>  QED BY <1>1 DEF LossInv

LEMMA StandsNext ==
    ASSUME NEW e \in Places
    PROVE  Stands(e)' = InClear(IF file'[e] = Cut THEN backup'[e] ELSE file'[e])
BY DEF Stands, InClear, IsEntry, Pairs, Names

\* What is held stays held, when no config and no backup of a cut one loses a secret.
LEMMA StillHeld ==
    ASSUME OwedIsHeld, UNCHANGED <<owed, overwritten>>, Pairs(stored) \subseteq Pairs(stored'),
           \A e \in Places : \A o \in Stands(e) : o \in Stands(e)' \/ o \in Pairs(stored')
    PROVE  OwedIsHeld'
<1>1. Pairs(stored)' = Pairs(stored')
    BY DEF Pairs, Names
<1>  QED BY <1>1 DEF OwedIsHeld

\* The backup of a cut config is what it was.
BackupsStand == \A f \in Places : file[f] = Cut => backup'[f] = backup[f]

LEMMA HeldQuietly ==
    ASSUME OwedIsHeld, UNCHANGED <<file, stored, owed, overwritten>>, BackupsStand
    PROVE  OwedIsHeld'
<1>1. \A e \in Places : Stands(e)' = Stands(e)
    BY StandsNext DEF Stands, BackupsStand
<1>2. Pairs(stored) = Pairs(stored')
    BY DEF Pairs, Names
<1>  QED BY <1>1, <1>2, StillHeld

\* The config at e is written over, and holds its backup, or is cut.
LEMMA OverwrittenIsKnown ==
    ASSUME DiskType, OwedIsHeld, NEW e \in Places, NEW secrets, OnlyAt(e) \subseteq secrets,
           NEW held \in {Cut, backup[e]}, WritesOver(e, held, secrets), UNCHANGED <<backup, stored>>
    PROVE  OwedIsHeld'
<1>1. \A f \in Places : file'[f] = IF f = e THEN held ELSE file[f]
    BY DEF WritesOver, DiskType
<1>2. Stands(e)' = InClear(backup[e]) /\ \A f \in Places \ {e} : Stands(f)' = Stands(f)
    BY <1>1, StandsNext DEF Stands
<1>3. Pairs(stored)' = Pairs(stored)
    BY DEF Pairs, Names
<1>  SUFFICES ASSUME NEW o \in owed \ overwritten'
              PROVE  o \in Pairs(stored) \/ \E f \in Places : o \in Stands(f)'
    BY <1>3 DEF OwedIsHeld, WritesOver
<1>4. CASE o \in InClear(backup[e])
    BY <1>2, <1>4
<1>5. CASE o \notin InClear(backup[e])
    <2>1. o \notin overwritten /\ o \notin OnlyAt(e)
        BY <1>5 DEF WritesOver
    <2>2. o \in Pairs(stored) \/ \E f \in Places : o \in Stands(f)
        BY <2>1 DEF OwedIsHeld
    <2>3. o \in Pairs(stored) \/ \E f \in Places \ {e} : o \in Stands(f)
        BY <2>1, <2>2 DEF OnlyAt
    <2>  QED BY <1>2, <2>3
<1>  QED BY <1>4, <1>5

\* What a run writes keeps every secret of the config but those it has stored.
LEMMA WrittenKeeps ==
    ASSUME LossInv, NEW r \in Runs, Protects(r, {"write"})
    PROVE  /\ run[r].job.target \in Places
           /\ IsEntry(file[run[r].job.target]) /\ IsEntry(run[r].text)
           /\ \A o \in InClear(file[run[r].job.target]) : o \in InClear(run[r].text) \/ o \in Pairs(stored)
<1>  DEFINE e == run[r].job.target
            text == run[r].text
<1>1. TypeInv /\ Works(r) /\ Fresh(r) /\ Writes(r) /\ Copied(r) /\ run[r].kind = "protect"
    BY DEF LossInv, WaitInv, Inv, RunInv, Protects
<1>2. /\ e \in Places /\ file[e] \in Entries /\ IsEntry(file[e]) /\ text = Rewritten(r, file[e])
      /\ run[r].left = {} /\ run[r].todo # {} /\ IsEntry(text)
    BY <1>1, HeldEntries DEF Works, Writes, Protects, TypeInv, DiskType, Kept
<1>3. \A k \in EnvKeys : text.env[k] = file[e].env[k] \/ (k \in run[r].job.keys /\ text.env[k] = None)
    <2>1. \A k \in EnvKeys : Without(file[e].env, run[r].job.keys)[k] =
                IF k \in run[r].job.keys THEN None ELSE file[e].env[k]
        BY DEF Without
    <2>  QED BY <1>2, <2>1 DEF Rewritten, Entries
<1>4. ASSUME NEW k \in run[r].job.keys, k \in EnvKeys
      PROVE  stored[k] = file[e].env[k]
    <2>1. e = First(r)
        BY <1>1, <1>4 DEF Works, Protects
    <2>2. e \in run[r].todo
        BY <1>1, <1>2, <2>1, FirstIn
    <2>3. Seen(r, e) = file[e]
        BY <1>1, <1>2, <2>2 DEF Fresh, IsEntry
    <2>  QED BY <1>1, <1>2, <2>1, <2>3 DEF Copied, Protects
<1>5. ASSUME NEW o \in InClear(file[e]) PROVE o \in InClear(text) \/ o \in Pairs(stored)
    <2>  HIDE DEF text, e
    <2>1. PICK k \in EnvKeys : o = <<k, file[e].env[k]>> /\ file[e].env[k] # None
        BY <1>2 DEF InClear, Pairs, Names
    <2>2. CASE text.env[k] = file[e].env[k]
        BY <1>2, <2>1, <2>2 DEF InClear, Pairs, Names
    <2>3. CASE k \in run[r].job.keys
        BY <1>4, <2>1, <2>3 DEF Pairs, Names
    <2>  QED BY <1>3, <2>2, <2>3
<1>  QED BY <1>2, <1>5

\* A write that is broken off overwrites no other secret than it is known to.
LEMMA BrokenKeepsOwed ==
    ASSUME LossInv, NEW r \in Runs, UNCHANGED <<file, history>> \/ LeavesCut(r), UNCHANGED <<backup, stored>>
    PROVE  OwedIsHeld'
<1>1. DiskType /\ TypeInv /\ OwedIsHeld
    BY DEF LossInv, WaitInv, Inv, TypeInv
<1>2. CASE UNCHANGED <<file, history>>
    BY <1>1, <1>2, HeldQuietly DEF BackupsStand, history
<1>3. CASE At(r, "protect", "write") /\ WritesOver(run[r].job.target, Cut, InClear(run[r].text))
    <2>  DEFINE e == run[r].job.target
    <2>1. /\ e \in Places /\ IsEntry(file[e])
          /\ \A o \in InClear(file[e]) : o \in InClear(run[r].text) \/ o \in Pairs(stored)
        BY <1>3, WrittenKeeps DEF At, Protects
    <2>2. OnlyAt(e) \subseteq InClear(run[r].text)
        <3>1. Stands(e) = InClear(file[e])
            BY <2>1 DEF Stands, IsEntry
        <3>  QED BY <2>1, <3>1 DEF OnlyAt
    <2>  QED BY <1>1, <1>3, <2>1, <2>2, OverwrittenIsKnown
<1>4. CASE run[r].todo # {} /\ WritesOver(First(r), Cut, Stands(First(r)))
    BY <1>1, <1>4, FirstIn, OverwrittenIsKnown DEF OnlyAt
<1>  QED BY <1>2, <1>3, <1>4 DEF LeavesCut

\* The steps at which a run owes the secrets it moves, and those it has given back.
Moving == {"expect", "store", "secrets", "backup", "write"}
Clearing == {"expect", "names", "delete"}

\* A step that changes no config, stores nothing and deletes nothing.
LEMMA LossQuiet ==
    ASSUME LossInv, WaitInv', NEW r \in Runs, ~Idle(r) \/ AllIdle, NEW X, run' = [run EXCEPT ![r] = X],
           UNCHANGED <<file, stored, owed, overwritten>>, BackupsStand,
           \/ X.kind # "protect" \/ X.step \notin Moving
           \/ /\ Protects(r, Moving)
              /\ X.seen = run[r].seen /\ X.todo = run[r].todo /\ X.job = run[r].job /\ X.left = run[r].left
              /\ X.step \in {"expect", "store"} => run[r].step \in {"expect", "store"},
           \/ X.kind # "unprotect" \/ X.step \notin Clearing
           \/ run[r].kind = "unprotect" /\ run[r].step \in Clearing
    PROVE  LossInv'
<1>1. run'[r] = X /\ \A q \in Runs \ {r} : run'[q] = run[q]
    BY DEF LossInv, WaitInv, Inv, TypeInv
<1>2. Copied(r) /\ Returned(r) /\ Moves(r) /\ OwedIsHeld
    BY DEF LossInv
<1>3. OwedIsHeld'
    BY <1>2, HeldQuietly
<1>4. Copied(r)'
    <2>1. Protects(r, Moving)' => /\ Protects(r, Moving) /\ run'[r].job = run[r].job /\ run'[r].left = run[r].left
                                  /\ run'[r].seen = run[r].seen /\ First(r)' = First(r)
        BY <1>1 DEF Protects, First
    <2>  QED BY <1>2, <2>1 DEF Copied, Moving, Seen
<1>5. Returned(r)'
    BY <1>1, <1>2 DEF Returned, Clearing, Pairs, Names
<1>6. Moves(r)'
    <2>1. Protects(r, {"expect", "store"})' =>
            Protects(r, {"expect", "store"}) /\ run'[r].job = run[r].job /\ First(r)' = First(r)
        BY <1>1 DEF Protects, First, Moving
    <2>  QED BY <1>2, <2>1 DEF Moves
<1>  QED BY <1>1, <1>3, <1>4, <1>5, <1>6, LossStep

\* A run that ends.
LEMMA LossEnds ==
    ASSUME LossInv, WaitInv', NEW r \in Runs, ~Idle(r), run' = [run EXCEPT ![r] = NoRun], OwedIsHeld'
    PROVE  LossInv'
<1>1. run'[r] = NoRun /\ \A q \in Runs \ {r} : run'[q] = run[q]
    BY DEF LossInv, WaitInv, Inv, TypeInv
<1>  QED BY <1>1, NoRunInvNext, LossStep

\* What a plan moves may be stored.
LEMMA PlanCopies ==
    ASSUME TypeInv, NEW r \in Runs, NEW e \in Places, NEW b \in MaybeBinding,
           NEW plan, plan = PlanOf(r, e, b), plan # "left", NEW k \in KeysOf(r, e, plan)
    PROVE  k \in EnvKeys /\ Seen(r, e).env[k] # None /\ stored[k] \in {None, Seen(r, e).env[k]}
<1>1. k \in Names(Seen(r, e).env)
    BY DEF KeysOf
<1>2. CASE plan = "fresh"
    <2>1. Pairs(stored) \subseteq Pairs(Seen(r, e).env)
        BY <1>2 DEF PlanOf, FreshPlan, UnboundPlan, WrappedPlan
    <2>2. ASSUME stored[k] # None PROVE stored[k] = Seen(r, e).env[k]
        <3>1. <<k, stored[k]>> \in Pairs(Seen(r, e).env)
            BY <1>1, <2>1, <2>2 DEF Pairs, Names
        <3>  QED BY <3>1 DEF Pairs
    <2>  QED BY <1>1, <2>2 DEF Names
<1>3. CASE plan # "fresh"
    <2>1. MayStore(r, e)
        BY <1>3 DEF KeysOf
    <2>  QED BY <1>1, <2>1 DEF MayStore, Names
<1>  QED BY <1>2, <1>3

LEMMA PlanLoses ==
    ASSUME LossInv, WaitInv', NEW r \in Runs, Plan(r)
    PROVE  LossInv'
<1>  DEFINE e == First(r)
            plan == PlanOf(r, e, binding)
            job == JobFor(r, e, binding)
            X == [run[r] EXCEPT !.step = IF job.binding = None THEN "secrets" ELSE "expect",
                       !.known = binding, !.job = job, !.left = job.keys,
                       !.was = IF plan = "moved" THEN backup[e] ELSE None]
<1>1. /\ At(r, "protect", "next") /\ run[r].todo # {} /\ run[r] \in RunStates /\ Inv /\ Fresh(r)
      /\ TypeInv /\ ~Idle(r) /\ binding \in MaybeBinding /\ OwedIsHeld
    BY RunFields DEF Plan, LossInv, WaitInv, Inv, TypeInv, DiskType, At, Idle
<1>2. e \in Places /\ e \in run[r].todo
    BY <1>1, FirstIn
<1>3. Known(r) = binding
    BY <1>1 DEF Known, Inv, RunInv, Knows, At
<1>4. CASE plan = "left"
    <2>  DEFINE Y == [run[r] EXCEPT !.todo = @ \ {First(r)}, !.step = "next", !.job = NoJob,
                                    !.was = None, !.text = None]
    <2>1. run' = [run EXCEPT ![r] = Y] /\ UNCHANGED <<file, backup, stored, owed, overwritten>>
        BY <1>3, <1>4 DEF Plan, Passes, Updates, disk, history
    <2>2. Y.step = "next"
        BY <1>1 DEF RunStates
    <2>  HIDE DEF Y
    <2>  QED BY <1>1, <2>1, <2>2, LossQuiet DEF Moving, Clearing, BackupsStand
<1>5. CASE plan # "left"
    <2>1. /\ run' = [run EXCEPT ![r] = X] /\ UNCHANGED <<file, stored, owed, overwritten>>
          /\ backup' = IF plan = "moved" THEN [backup EXCEPT ![e] = backup[job.moved], ![job.moved] = None]
                       ELSE backup
        BY <1>3, <1>5 DEF Plan, JobFor, Updates, history
    <2>2. X.kind = "protect" /\ X.seen = run[r].seen /\ X.todo = run[r].todo /\ X.job = job /\ X.left = job.keys
        BY <1>1 DEF RunStates, At
    <2>3. run'[r] = X /\ \A q \in Runs \ {r} : run'[q] = run[q]
        BY <1>1, <2>1 DEF TypeInv
    <2>4. JobFits(r, e, binding, plan, job)
        BY <1>1, <1>2, <1>5, JobFields
    <2>5. \A k \in job.keys : Seen(r, e).env[k] # None /\ stored[k] \in {None, Seen(r, e).env[k]}
        BY <1>1, <1>2, <1>5, <2>4, PlanCopies DEF JobFits
    <2>6. plan = "moved" => file[job.moved] # Cut /\ file[e] # Cut
        <3>1. ASSUME plan = "moved"
              PROVE  Moved(r, e, binding) /\ job.moved = binding.at /\ IsEntry(Seen(r, e))
            BY <1>1, <1>2, <1>5, <2>4, <3>1, Plans DEF JobFits
        <3>2. ASSUME Moved(r, e, binding), IsEntry(Seen(r, e))
              PROVE  file[binding.at] # Cut /\ file[e] # Cut
            BY <1>1, <1>2, <3>2, NotBoth, HeldAssumption DEF Moved, Fresh, At, IsEntry
        <3>  QED BY <3>1, <3>2
    <2>7. BackupsStand
        <3>1. CASE plan = "moved"
            BY <1>1, <2>1, <2>6, <3>1 DEF BackupsStand, TypeInv, DiskType
        <3>2. CASE plan # "moved"
            BY <2>1, <3>2 DEF BackupsStand
        <3>  QED BY <3>1, <3>2
    <2>8. job.moved # None => plan = "moved"
        BY <2>4 DEF JobFits
    <2>  HIDE DEF X, job, plan
    <2>9. First(r)' = e
        BY <2>2, <2>3 DEF First
    <2>10. Copied(r)' /\ Moves(r)'
        BY <2>1, <2>2, <2>3, <2>5, <2>6, <2>8, <2>9 DEF Copied, Moves, Seen
    <2>11. Returned(r)' /\ OwedIsHeld'
        BY <1>1, <2>1, <2>2, <2>3, <2>7, HeldQuietly DEF Returned
    <2>  QED BY <1>1, <2>3, <2>10, <2>11, LossStep
<1>  QED BY <1>4, <1>5

LEMMA StoreSecretLoses ==
    ASSUME LossInv, WaitInv', NEW r \in Runs, NEW k \in EnvKeys, StoreSecret(r, k)
    PROVE  LossInv'
<1>  DEFINE X == [run[r] EXCEPT !.left = @ \ {k}]
            e == First(r)
<1>1. /\ Protects(r, {"secrets"}) /\ k \in run[r].left
      /\ run[r] \in RunStates /\ TypeInv /\ Works(r) /\ Copied(r) /\ OwedIsHeld /\ ~Idle(r)
      /\ run' = [run EXCEPT ![r] = X] /\ stored' = [stored EXCEPT ![k] = Seen(r, e).env[k]]
      /\ UNCHANGED <<file, backup, owed, overwritten>>
    BY RunFields DEF StoreSecret, Updates, LossInv, WaitInv, Inv, RunInv, Idle, At, Protects, history
<1>2. /\ X.kind = "protect" /\ X.seen = run[r].seen /\ X.todo = run[r].todo /\ X.step = "secrets"
      /\ X.job = run[r].job /\ X.left = run[r].left \ {k}
    BY <1>1 DEF RunStates, Protects
<1>3. run'[r] = X /\ \A q \in Runs \ {r} : run'[q] = run[q]
    BY <1>1 DEF TypeInv
<1>  HIDE DEF X
<1>4. /\ Seen(r, e).env[k] # None
      /\ stored[k] \in {None, Seen(r, e).env[k]}
    BY <1>1 DEF Works, Copied, Protects
<1>5. /\ stored'[k] = Seen(r, e).env[k]
      /\ \A m \in EnvKeys : m # k => stored'[m] = stored[m]
    BY <1>1 DEF TypeInv, DiskType
<1>6. Pairs(stored) \subseteq Pairs(stored')
    BY <1>4, <1>5 DEF Pairs, Names
<1>7. OwedIsHeld'
    <2>1. \A f \in Places : Stands(f)' = Stands(f)
        BY <1>1, StandsNext DEF Stands
    <2>  QED BY <1>1, <1>6, <2>1, StillHeld
<1>8. Copied(r)'
    <2>1. First(r)' = e
        BY <1>2, <1>3 DEF First
    <2>2. run[r].job.keys \subseteq EnvKeys
        BY <1>1 DEF RunStates, Jobs
    <2>3. \A m \in run[r].job.keys :
            /\ Seen(r, e).env[m] # None
            /\ stored'[m] = Seen(r, e).env[m] \/ (m \in run[r].left \ {k} /\ stored'[m] = None)
        BY <1>1, <1>5, <2>2 DEF Copied, Protects
    <2>  QED BY <1>2, <1>3, <2>1, <2>3 DEF Copied, Seen
<1>9. Returned(r)' /\ Moves(r)'
    BY <1>2, <1>3 DEF Returned, Moves, Protects
<1>  QED BY <1>1, <1>3, <1>7, <1>8, <1>9, LossStep

LEMMA WriteConfigLoses ==
    ASSUME LossInv, WaitInv', NEW r \in Runs, WriteConfig(r)
    PROVE  LossInv'
<1>  DEFINE e == run[r].job.target
            text == run[r].text
<1>1. /\ Protects(r, {"write"}) /\ run[r] \in RunStates /\ TypeInv /\ ~Idle(r) /\ OwedIsHeld
      /\ file' = [file EXCEPT ![e] = text] /\ UNCHANGED <<backup, stored, owed, overwritten>>
    BY RunFields DEF WriteConfig, Updates, LossInv, WaitInv, Inv, Idle, At, Protects, history
<1>2. /\ run'[r].step = "next" /\ run'[r].kind = "protect" /\ \A q \in Runs \ {r} : run'[q] = run[q]
    BY <1>1 DEF WriteConfig, Updates, TypeInv, RunStates, Protects
<1>3. /\ e \in Places /\ IsEntry(file[e]) /\ IsEntry(text)
      /\ \A o \in InClear(file[e]) : o \in InClear(text) \/ o \in Pairs(stored)
    BY <1>1, WrittenKeeps
<1>4. \A f \in Places : file'[f] = IF f = e THEN text ELSE file[f]
    BY <1>1 DEF TypeInv, DiskType
<1>  HIDE DEF text, e
<1>5. PICK f \in Places : f = e
    BY <1>3
<1>6. /\ Stands(f) = InClear(file[f]) /\ Stands(f)' = InClear(text)
      /\ \A g \in Places \ {f} : Stands(g)' = Stands(g)
    BY <1>1, <1>3, <1>4, <1>5, StandsNext DEF Stands, IsEntry
<1>7. OwedIsHeld'
    BY <1>1, <1>3, <1>5, <1>6, StillHeld
<1>8. Copied(r)' /\ Returned(r)' /\ Moves(r)'
    BY <1>2 DEF Copied, Returned, Moves, Protects
<1>  QED BY <1>1, <1>2, <1>7, <1>8, LossStep

\* An entry that is left unbound has its backup put back, where one was moved.
LEMMA UnboundKeepsBackups ==
    ASSUME TypeInv, NEW r \in Runs, LeavesUnbound(r), Moves(r), Protects(r, {"expect", "store"})
    PROVE  BackupsStand
<1>1. CASE run[r].job.moved = None
    BY <1>1 DEF LeavesUnbound, BackupsStand
<1>2. CASE run[r].job.moved # None
    <2>1. file[run[r].job.moved] # Cut /\ file[First(r)] # Cut
        BY <1>2 DEF Moves
    <2>  QED BY <1>2, <2>1 DEF LeavesUnbound, BackupsStand, TypeInv, DiskType
<1>  QED BY <1>1, <1>2

\* The steps of protect-mcp that change no config and store no secret, but for
\* a write that is broken off.
LEMMA ProtectLoses ==
    ASSUME LossInv, WaitInv', NEW r \in Runs,
           \/ Refused(r) \/ StoreBinding(r) \/ ReadConfig(r) \/ WriteBackup(r)
           \/ StoreBack(r) \/ Finish(r)
    PROVE  LossInv'
<1>1. run[r] \in RunStates /\ TypeInv /\ Moves(r) /\ Writes(r)
    BY RunFields DEF LossInv, WaitInv, Inv
<1>2. /\ run[r].kind = "protect" /\ ~Idle(r) /\ UNCHANGED <<file, stored, owed, overwritten>>
    BY DEF Refused, StoreBinding, ReadConfig, WriteBackup, StoreBack, Finish, At, Idle, disk, history
<1>3. BackupsStand
    <2>1. CASE Refused(r)
        BY <1>1, <2>1, UnboundKeepsBackups DEF Refused, At, Protects
    <2>2. CASE WriteBackup(r)
        <3>1. file[run[r].job.target] # Cut
            BY <1>1, <2>2 DEF WriteBackup, At, Writes, Protects, IsEntry
        <3>  QED BY <1>1, <2>2, <3>1 DEF WriteBackup, BackupsStand, TypeInv, DiskType
    <2>3. CASE StoreBinding(r) \/ ReadConfig(r) \/ StoreBack(r) \/ Finish(r)
        BY <2>3 DEF StoreBinding, ReadConfig, StoreBack, Finish, disk, BackupsStand
    <2>  QED BY <2>1, <2>2, <2>3
<1>4. PICK X : /\ run' = [run EXCEPT ![r] = X]
               /\ \/ X.step \notin Moving
                  \/ /\ run[r].step \in Moving
                     /\ X.seen = run[r].seen /\ X.todo = run[r].todo
                     /\ X.job = run[r].job /\ X.left = run[r].left
                     /\ X.step \notin {"expect", "store"}
               /\ X.kind # "unprotect"
    <2>1. CASE Refused(r) \/ StoreBack(r) \/ Finish(r)
        <3>  DEFINE X == [run[r] EXCEPT !.todo = @ \ {First(r)}, !.step = "next", !.job = NoJob, !.was = None,
                                        !.refused = @ \union {First(r)}]
                    Y == [run[r] EXCEPT !.todo = @ \ {First(r)}, !.step = "next", !.job = NoJob, !.was = None,
                                        !.text = None, !.refused = @ \union {run[r].job.target},
                                        !.known = binding']
                    Z == [run[r] EXCEPT !.step = "done"]
        <3>1. /\ X.step = "next" /\ Y.step = "next" /\ Z.step = "done"
              /\ X.kind = "protect" /\ Y.kind = "protect" /\ Z.kind = "protect"
            BY <1>1, <1>2 DEF RunStates
        <3>2. \/ run' = [run EXCEPT ![r] = X]
              \/ run' = [run EXCEPT ![r] = Y]
              \/ run' = [run EXCEPT ![r] = Z]
            BY <2>1 DEF Refused, LeavesUnbound, StoreBack, Finish, Updates
        <3>  HIDE DEF X, Y, Z
        <3>  QED BY <3>1, <3>2 DEF Moving
    <2>2. CASE StoreBinding(r)
        <3>  DEFINE X == [run[r] EXCEPT !.step = "secrets", !.known = run[r].job.binding, !.was = None,
                                        !.holder = @ \/ ~Seen(r, First(r)).wrapped]
        <3>1. /\ X.seen = run[r].seen /\ X.todo = run[r].todo /\ X.step = "secrets"
              /\ X.job = run[r].job /\ X.left = run[r].left /\ X.kind = run[r].kind
            BY <1>1 DEF RunStates
        <3>2. run' = [run EXCEPT ![r] = X] /\ run[r].step \in Moving
            BY <2>2 DEF StoreBinding, Updates, At, Moving
        <3>  HIDE DEF X
        <3>  QED BY <1>2, <3>1, <3>2
    <2>3. CASE WriteBackup(r)
        <3>  DEFINE X == [run[r] EXCEPT !.step = "write"]
        <3>1. /\ X.seen = run[r].seen /\ X.todo = run[r].todo /\ X.step = "write"
              /\ X.job = run[r].job /\ X.left = run[r].left /\ X.kind = run[r].kind
            BY <1>1 DEF RunStates
        <3>2. run' = [run EXCEPT ![r] = X] /\ run[r].step \in Moving
            BY <2>3 DEF WriteBackup, Updates, At, Moving
        <3>  HIDE DEF X
        <3>  QED BY <1>2, <3>1, <3>2
    <2>4. CASE ReadConfig(r)
        <3>  DEFINE cur == file[run[r].job.target]
                    X == [run[r] EXCEPT !.step = "backup", !.was = cur, !.text = Rewritten(r, cur)]
        <3>1. /\ X.seen = run[r].seen /\ X.todo = run[r].todo /\ X.step = "backup"
              /\ X.job = run[r].job /\ X.left = run[r].left /\ X.kind = run[r].kind
            BY <1>1 DEF RunStates
        <3>2. CASE run' = [run EXCEPT ![r] = X]
            <4>1. run[r].step \in Moving
                BY <2>4 DEF ReadConfig, At, Moving
            <4>  HIDE DEF X
            <4>  QED BY <1>2, <3>1, <3>2, <4>1
        <3>3. CASE Passes(r)
            <4>  DEFINE Y == [run[r] EXCEPT !.todo = @ \ {First(r)}, !.step = "next", !.job = NoJob,
                                            !.was = None, !.text = None]
            <4>1. run' = [run EXCEPT ![r] = Y] /\ Y.step = "next" /\ Y.kind = "protect"
                BY <1>1, <1>2, <3>3 DEF Passes, Updates, RunStates
            <4>  HIDE DEF Y
            <4>  QED BY <4>1 DEF Moving
        <3>  QED BY <2>4, <3>2, <3>3 DEF ReadConfig, Updates
    <2>  QED BY <2>1, <2>2, <2>3, <2>4
<1>  QED BY <1>2, <1>3, <1>4, LossQuiet DEF Protects

LEMMA WriteFailsLoses ==
    ASSUME LossInv, WaitInv', NEW r \in Runs, WriteFails(r)
    PROVE  LossInv'
<1>  DEFINE X == [run[r] EXCEPT !.step = "back"]
<1>1. run[r] \in RunStates /\ TypeInv /\ run[r].kind = "protect" /\ ~Idle(r)
    BY RunFields DEF LossInv, WaitInv, Inv, WriteFails, Idle
<1>2. OwedIsHeld'
    BY BrokenKeepsOwed DEF WriteFails
<1>3. X.step = "back" /\ X.kind = "protect"
    BY <1>1 DEF RunStates
<1>  HIDE DEF X
<1>4. CASE run' = [run EXCEPT ![r] = X]
    <2>1. run'[r] = X /\ \A q \in Runs \ {r} : run'[q] = run[q]
        BY <1>1, <1>4 DEF TypeInv
    <2>2. Copied(r)' /\ Returned(r)' /\ Moves(r)'
        BY <1>3, <2>1 DEF Copied, Returned, Moves, Protects
    <2>  QED BY <1>1, <1>2, <2>1, <2>2, LossStep
<1>5. CASE run' = [run EXCEPT ![r] = NoRun]
    BY <1>1, <1>2, <1>5, LossEnds
<1>  QED BY <1>4, <1>5 DEF WriteFails, Updates, X

LEMMA ExpectLoses ==
    ASSUME LossInv, WaitInv', NEW r \in Runs, Expect(r)
    PROVE  LossInv'
<1>1. /\ run[r] \in RunStates /\ ~Idle(r) /\ UNCHANGED <<file, stored, owed, overwritten>>
      /\ run[r].step = "expect" /\ TypeInv /\ Moves(r)
    BY RunFields DEF LossInv, WaitInv, Inv, Expect, Idle, history
<1>2. CASE binding = run[r].job.expect \/ run[r].kind # "protect"
    <2>1. PICK step \in {"store", "names", "done"} :
                /\ run' = [run EXCEPT ![r] = [run[r] EXCEPT !.step = step]]
                /\ step = "store" => run[r].kind = "protect"
        BY <1>2 DEF Expect, Updates
    <2>  DEFINE X == [run[r] EXCEPT !.step = step]
    <2>2. /\ X.kind = run[r].kind /\ X.step = step /\ X.seen = run[r].seen /\ X.todo = run[r].todo
          /\ X.job = run[r].job /\ X.left = run[r].left
        BY <1>1 DEF RunStates
    <2>3. run' = [run EXCEPT ![r] = X] /\ BackupsStand
        BY <1>2, <2>1 DEF Expect, BackupsStand
    <2>  HIDE DEF X
    <2>  QED BY <1>1, <2>2, <2>3, LossQuiet DEF Protects, Moving, Clearing
<1>3. CASE binding # run[r].job.expect /\ run[r].kind = "protect"
    <2>  DEFINE X == [run[r] EXCEPT !.todo = @ \ {First(r)}, !.step = "next", !.job = NoJob, !.was = None,
                                    !.refused = @ \union {First(r)}]
    <2>1. run' = [run EXCEPT ![r] = X] /\ X.step = "next"
        BY <1>1, <1>3 DEF Expect, LeavesUnbound, Updates, RunStates
    <2>2. BackupsStand
        BY <1>1, <1>3, UnboundKeepsBackups DEF Expect, Protects
    <2>  HIDE DEF X
    <2>  QED BY <1>1, <2>1, <2>2, LossQuiet DEF Moving, Clearing
<1>  QED BY <1>2, <1>3

LEMMA RestoreLoses ==
    ASSUME LossInv, WaitInv', NEW r \in Runs, Restore(r)
    PROVE  LossInv'
<1>  DEFINE e == First(r)
<1>1. /\ run[r] \in RunStates /\ TypeInv /\ DiskType /\ ~Idle(r) /\ e \in Places /\ OwedIsHeld
      /\ run[r].kind = "unprotect" /\ run[r].step = "next" /\ UNCHANGED <<backup, stored>>
    BY RunFields, FirstIn DEF LossInv, WaitInv, Inv, Restore, Idle, At, TypeInv
<1>2. /\ run'[r].kind = "unprotect" /\ run'[r].step = "next"
      /\ \A q \in Runs \ {r} : run'[q] = run[q]
    <2>  DEFINE X == [run[r] EXCEPT !.todo = @ \ {First(r)}, !.step = "next", !.job = NoJob,
                                    !.was = None, !.text = None]
                Y == [run[r] EXCEPT !.todo = @ \ {First(r)}, !.restored = @ \union {e}]
    <2>1. X.kind = "unprotect" /\ X.step = "next" /\ Y.kind = "unprotect" /\ Y.step = "next"
        BY <1>1 DEF RunStates
    <2>2. run' = [run EXCEPT ![r] = X] \/ run' = [run EXCEPT ![r] = Y]
        BY DEF Restore, Passes, Updates
    <2>  HIDE DEF X, Y
    <2>  QED BY <1>1, <2>1, <2>2 DEF TypeInv
<1>3. OwedIsHeld'
    <2>1. CASE UNCHANGED <<file, history>>
        BY <1>1, <2>1, HeldQuietly DEF BackupsStand, history
    <2>2. CASE WritesOver(e, backup[e], Stands(e))
        BY <1>1, <2>2, OverwrittenIsKnown DEF OnlyAt
    <2>  QED BY <2>1, <2>2 DEF Restore
<1>4. Copied(r)' /\ Returned(r)' /\ Moves(r)'
    BY <1>2 DEF Copied, Returned, Moves, Protects
<1>  QED BY <1>1, <1>2, <1>3, <1>4, LossStep

LEMMA ClearLoses ==
    ASSUME LossInv, WaitInv', NEW r \in Runs, Clear(r)
    PROVE  LossInv'
<1>  DEFINE reading == {e \in run[r].restored : Wrapped(Seen(r, e))}
<1>1. /\ run[r] \in RunStates /\ TypeInv /\ ~Idle(r) /\ OwedIsHeld /\ run[r].kind = "unprotect"
      /\ UNCHANGED <<file, backup, stored, owed, overwritten>>
    BY RunFields DEF LossInv, WaitInv, Inv, Clear, Idle, At, disk, history
<1>2. /\ run'[r].kind = "unprotect" /\ \A q \in Runs \ {r} : run'[q] = run[q]
      /\ \/ run'[r].step = "done"
         \/ run'[r].step = "expect" /\ reading # {} /\ MayClear(r, Earliest(reading))
    <2>  DEFINE X == [run[r] EXCEPT !.step = "done"]
                Y == [run[r] EXCEPT !.step = "expect", !.job = [NoJob EXCEPT !.expect = binding]]
    <2>1. X.kind = "unprotect" /\ X.step = "done" /\ Y.kind = "unprotect" /\ Y.step = "expect"
        BY <1>1 DEF RunStates
    <2>2. \/ run' = [run EXCEPT ![r] = X]
          \/ run' = [run EXCEPT ![r] = Y] /\ reading # {} /\ MayClear(r, Earliest(reading))
        BY DEF Clear, Updates
    <2>  HIDE DEF X, Y
    <2>  QED BY <1>1, <2>1, <2>2 DEF TypeInv
<1>3. reading \in SUBSET Places
    BY <1>1 DEF RunStates
<1>  HIDE DEF reading
<1>4. Returned(r)'
    <2>1. CASE run'[r].step = "done"
        BY <2>1 DEF Returned
    <2>2. CASE reading # {} /\ MayClear(r, Earliest(reading))
        <3>1. Earliest(reading) \in Places
            BY <1>3, <2>2, EarliestIn
        <3>2. PICK f \in Places : IsEntry(file[f]) /\ Pairs(stored) \subseteq Pairs(file[f].env)
            BY <2>2, <3>1 DEF MayClear
        <3>  QED BY <1>1, <3>2 DEF Returned, Pairs, Names, IsEntry
    <2>  QED BY <1>2, <2>1, <2>2
<1>5. OwedIsHeld'
    BY <1>1, HeldQuietly DEF BackupsStand
<1>6. Copied(r)' /\ Moves(r)'
    BY <1>2 DEF Copied, Moves, Protects
<1>  QED BY <1>1, <1>2, <1>4, <1>5, <1>6, LossStep

LEMMA DeleteNameLoses ==
    ASSUME LossInv, WaitInv', NEW r \in Runs, NEW k \in EnvKeys, DeleteName(r, k)
    PROVE  LossInv'
<1>1. /\ run[r] \in RunStates /\ TypeInv /\ ~Idle(r) /\ OwedIsHeld /\ Returned(r)
      /\ run[r].kind = "unprotect" /\ run[r].step = "delete"
      /\ stored' = [stored EXCEPT ![k] = None] /\ UNCHANGED <<file, backup, owed, overwritten>>
    BY RunFields DEF LossInv, WaitInv, Inv, DeleteName, Idle, At, history
<1>2. /\ run'[r].kind = "unprotect" /\ run'[r].step = "delete"
      /\ \A q \in Runs \ {r} : run'[q] = run[q]
    BY <1>1 DEF DeleteName, Updates, TypeInv, RunStates
<1>3. PICK f \in Places : IsEntry(file[f]) /\ Pairs(stored) \subseteq Pairs(file[f].env)
    BY <1>1 DEF Returned
<1>4. Pairs(stored') \subseteq Pairs(stored)
    BY <1>1 DEF Pairs, Names, TypeInv, DiskType
<1>5. Returned(r)'
    <2>1. IsEntry(file'[f]) /\ Pairs(stored') \subseteq Pairs(file'[f].env)
        BY <1>1, <1>3, <1>4
    <2>2. Pairs(stored)' = Pairs(stored')
        BY DEF Pairs, Names
    <2>  QED BY <1>3, <2>1, <2>2 DEF Returned, Pairs, Names, IsEntry
<1>6. OwedIsHeld'
    <2>1. Pairs(stored) \subseteq Stands(f)
        BY <1>3 DEF Stands, InClear, IsEntry
    <2>2. \A o \in owed \ overwritten : \E g \in Places : o \in Stands(g)
        BY <1>1, <1>3, <2>1 DEF OwedIsHeld
    <2>3. \A g \in Places : Stands(g)' = Stands(g)
        BY <1>1, StandsNext DEF Stands
    <2>  QED BY <1>1, <2>2, <2>3 DEF OwedIsHeld
<1>7. Copied(r)' /\ Moves(r)'
    BY <1>2 DEF Copied, Moves, Protects
<1>  QED BY <1>1, <1>2, <1>5, <1>6, <1>7, LossStep

LEMMA UnprotectLoses ==
    ASSUME LossInv, WaitInv', NEW r \in Runs, ListNames(r) \/ DeleteBinding(r)
    PROVE  LossInv'
<1>1. /\ run[r] \in RunStates /\ ~Idle(r) /\ UNCHANGED <<file, backup, stored, owed, overwritten>>
      /\ run[r].kind = "unprotect" /\ run[r].step \in Clearing
    BY RunFields DEF LossInv, WaitInv, Inv, ListNames, DeleteBinding, Idle, At, disk, history, Clearing
<1>  DEFINE X == [run[r] EXCEPT !.step = "delete", !.left = Names(stored)]
            Y == [run[r] EXCEPT !.step = "done"]
<1>2. X.kind = "unprotect" /\ Y.kind = "unprotect"
    BY <1>1 DEF RunStates
<1>3. run' = [run EXCEPT ![r] = X] \/ run' = [run EXCEPT ![r] = Y]
    BY DEF ListNames, DeleteBinding, Updates
<1>  HIDE DEF X, Y
<1>  QED BY <1>1, <1>2, <1>3, LossQuiet DEF BackupsStand

\* What only the edited config held is not owed any more, or stands in it.
LEMMA EditedKeepsOwed ==
    ASSUME DiskType, OwedIsHeld, NEW e \in Places, NEW held, IsEntry(held) \/ held \in {NoEntry, NoFile},
           Edited(e, held)
    PROVE  OwedIsHeld'
<1>1. /\ \A f \in Places : file'[f] = IF f = e THEN held ELSE file[f]
      /\ UNCHANGED <<backup, stored>>
      /\ owed' = (owed \ OnlyAt(e)) \union InClear(held)
      /\ overwritten' = overwritten \ InClear(held)
    BY DEF Edited, DiskType
<1>2. held # Cut
    BY HeldAssumption DEF IsEntry
<1>3. Stands(e)' = InClear(held) /\ \A f \in Places \ {e} : Stands(f)' = Stands(f)
    <2>1. file'[e] = held
        BY <1>1
    <2>2. Stands(e)' = InClear(held)
        BY <1>2, <2>1, StandsNext
    <2>3. ASSUME NEW f \in Places \ {e} PROVE Stands(f)' = Stands(f)
        BY <1>1, StandsNext DEF Stands
    <2>  QED BY <2>2, <2>3
<1>4. Pairs(stored)' = Pairs(stored)
    BY <1>1 DEF Pairs, Names
<1>  SUFFICES ASSUME NEW o \in owed' \ overwritten'
              PROVE  o \in Pairs(stored) \/ \E f \in Places : o \in Stands(f)'
    BY <1>4 DEF OwedIsHeld
<1>5. CASE o \in InClear(held)
    BY <1>3, <1>5
<1>6. CASE o \notin InClear(held)
    <2>1. o \in owed /\ o \notin overwritten /\ o \notin OnlyAt(e)
        BY <1>1, <1>6
    <2>2. o \in Pairs(stored) \/ \E f \in Places : o \in Stands(f)
        BY <2>1 DEF OwedIsHeld
    <2>3. o \in Pairs(stored) \/ \E f \in Places \ {e} : o \in Stands(f)
        BY <2>1, <2>2 DEF OnlyAt
    <2>  QED BY <1>3, <2>3
<1>  QED BY <1>5, <1>6

\* An edit takes no secret away but the one the user changes or takes out.
LEMMA EditsKeepOwed ==
    ASSUME DiskType, OwedIsHeld, Edit
    PROVE  OwedIsHeld'
<1>1. PICK e \in Places :
        \/ \E k \in EnvKeys, v \in Values : SetValue(e, k, v)
        \/ \E c \in Commands : ChangeCommand(e, c)
        \/ \E k \in EnvKeys, v \in Values, c \in Commands : AddEntry(e, k, v, c)
        \/ \E held \in {NoEntry, NoFile} : RemoveEntry(e, held)
        \/ \E f \in Places : CopyEntry(e, f)
        \/ \E f \in Projects : MoveProject(e, f)
    BY DEF Edit
<1>2. IsEntry(file[e]) => file[e] \in Entries
    BY HeldEntries DEF DiskType, Kept
<1>3. ASSUME NEW k \in EnvKeys, NEW v \in Values, SetValue(e, k, v) PROVE OwedIsHeld'
    <2>  DEFINE held == [file[e] EXCEPT !.env[k] = v]
    <2>1. held \in Entries /\ Edited(e, held)
        BY <1>2, <1>3 DEF SetValue, Entries
    <2>2. IsEntry(held)
        BY <2>1, HeldEntries
    <2>  HIDE DEF held
    <2>  QED BY <2>1, <2>2, EditedKeepsOwed
<1>4. ASSUME NEW c \in Commands, ChangeCommand(e, c) PROVE OwedIsHeld'
    <2>  DEFINE held == [file[e] EXCEPT !.cmd = c]
    <2>1. held \in Entries /\ Edited(e, held)
        BY <1>2, <1>4 DEF ChangeCommand, Entries
    <2>2. IsEntry(held)
        BY <2>1, HeldEntries
    <2>  HIDE DEF held
    <2>  QED BY <2>1, <2>2, EditedKeepsOwed
<1>5. ASSUME NEW k \in EnvKeys, NEW v \in Values, NEW c \in Commands, AddEntry(e, k, v, c) PROVE OwedIsHeld'
    <2>  DEFINE held == Entry([NoSecrets EXCEPT ![k] = v], c)
    <2>1. held \in Entries /\ Edited(e, held)
        BY <1>5 DEF AddEntry, Entry, NoSecrets, Entries
    <2>2. IsEntry(held)
        BY <2>1, HeldEntries
    <2>  HIDE DEF held
    <2>  QED BY <2>1, <2>2, EditedKeepsOwed
<1>6. ASSUME NEW held \in {NoEntry, NoFile}, RemoveEntry(e, held) PROVE OwedIsHeld'
    BY <1>6, EditedKeepsOwed DEF RemoveEntry
<1>7. ASSUME NEW f \in Places, CopyEntry(e, f) PROVE OwedIsHeld'
    BY <1>7, EditedKeepsOwed DEF CopyEntry
<1>8. ASSUME NEW f \in Projects, MoveProject(e, f) PROVE OwedIsHeld'
    <2>1. f \in Places /\ f # e /\ IsEntry(file[e]) /\ file[f] = NoFile
          /\ UNCHANGED <<backup, stored, owed, overwritten>>
        BY <1>8 DEF MoveProject, Places, IsEntry, history
    <2>2. \A g \in Places : file'[g] = IF g = f THEN file[e] ELSE IF g = e THEN NoFile ELSE file[g]
        BY <1>8, <2>1 DEF MoveProject, DiskType
    <2>3. Stands(f)' = Stands(e) /\ Stands(f) = {} /\ \A g \in Places \ {e, f} : Stands(g)' = Stands(g)
        BY <2>1, <2>2, StandsNext, HeldAssumption DEF Stands, InClear, IsEntry
    <2>4. Pairs(stored)' = Pairs(stored)
        BY <2>1 DEF Pairs, Names
    <2>  QED BY <2>1, <2>3, <2>4 DEF OwedIsHeld
<1>  QED BY <1>1, <1>3, <1>4, <1>5, <1>6, <1>7, <1>8

LEMMA LossInit == Init => LossInv
<1>  SUFFICES ASSUME Init PROVE LossInv
    OBVIOUS
<1>1. \A e \in Places : InClear(file[e]) \subseteq Stands(e)
    BY DEF Stands, InClear, IsEntry
<1>2. OwedIsHeld
    BY <1>1 DEF Init, OwedIsHeld
<1>  QED BY <1>2, WaitInit, NoRunInv DEF Init, LossInv

LEMMA LossNext ==
    ASSUME UserWaits, LossInv, [Next]_vars
    PROVE  LossInv'
<1>1. WaitInv /\ Inv /\ TypeInv /\ DiskType /\ WaitInv'
    BY WaitNext DEF LossInv, WaitInv, Inv, TypeInv
<1>2. ASSUME NEW r \in Runs, NEW kind \in {"protect", "unprotect"}, NEW dir \in Dirs, Start(r, kind, dir)
      PROVE  LossInv'
    <2>  DEFINE X == [NoRun EXCEPT !.kind = kind, !.step = "next", !.seen = Discovered(dir),
                                   !.todo = {e \in Places : Parsed(Discovered(dir)[e])}]
    <2>1. AllIdle /\ run' = [run EXCEPT ![r] = X] /\ UNCHANGED <<file, backup, stored, owed, overwritten>>
        BY <1>2 DEF Start, UserWaits, disk, history
    <2>2. X.step = "next"
        BY DEF NoRun
    <2>  HIDE DEF X
    <2>  QED BY <1>1, <2>1, <2>2, LossQuiet DEF Moving, Clearing, BackupsStand
<1>3. ASSUME NEW r \in Runs, Exit(r) \/ Kill(r)
      PROVE  LossInv'
    <2>1. ~Idle(r) /\ run' = [run EXCEPT ![r] = NoRun]
        BY <1>3 DEF Exit, Kill, Updates, Idle
    <2>2. (UNCHANGED <<file, history>> \/ LeavesCut(r)) /\ UNCHANGED <<backup, stored>>
        BY <1>3 DEF Exit, Kill, disk
    <2>  QED BY <1>1, <2>1, <2>2, BrokenKeepsOwed, LossEnds
<1>4. ASSUME NEW r \in Runs, Expect(r)
      PROVE  LossInv'
    BY <1>1, <1>4, ExpectLoses
<1>5. ASSUME NEW r \in Runs, ProtectStep(r)
      PROVE  LossInv'
    BY <1>1, <1>5, PlanLoses, StoreSecretLoses, WriteConfigLoses, ProtectLoses, WriteFailsLoses DEF ProtectStep
<1>6. ASSUME NEW r \in Runs, UnprotectStep(r)
      PROVE  LossInv'
    BY <1>1, <1>6, RestoreLoses, ClearLoses, DeleteNameLoses, UnprotectLoses DEF UnprotectStep
<1>7. CASE UserEdits
    <2>1. \A r \in Runs : run'[r] = NoRun
        BY <1>1, <1>7 DEF UserEdits, UserWaits, AllIdle, Inv, Alone
    <2>2. OwedIsHeld'
        BY <1>1, <1>7, EditsKeepOwed DEF UserEdits, LossInv
    <2>  QED BY <1>1, <2>1, <2>2, NoRunInvNext DEF LossInv
<1>8. CASE UNCHANGED vars
    <2>1. UNCHANGED <<file, backup, stored, owed, overwritten, run>>
        BY <1>8 DEF vars, disk, history
    <2>2. OwedIsHeld'
        BY <2>1, HeldQuietly DEF LossInv, BackupsStand
    <2>3. ASSUME NEW r \in Runs PROVE (Copied(r) /\ Returned(r) /\ Moves(r))'
        <3>1. Copied(r) /\ Returned(r) /\ Moves(r)
            BY DEF LossInv
        <3>  QED BY <2>1, <3>1 DEF Copied, Returned, Moves, Protects, Seen, First, Pairs, Names, IsEntry
    <2>  QED BY <1>1, <2>2, <2>3 DEF LossInv
<1>  QED BY <1>2, <1>3, <1>4, <1>5, <1>6, <1>7, <1>8 DEF Next

\* While the user waits for a run to end: a secret the user put in a config,
\* and neither changed nor took out, is in a config, in the backup of one that
\* was left cut, or stored, wherever a run is killed; but for one newer than
\* the backup that a command wrote over.
THEOREM SecretsKept == UserWaits => (Spec => []NoSecretLost)
<1>  SUFFICES ASSUME UserWaits PROVE Spec => []NoSecretLost
    OBVIOUS
<1>1. Init => LossInv
    BY LossInit
<1>2. LossInv /\ [Next]_vars => LossInv'
    BY LossNext
<1>3. LossInv => NoSecretLost
    BY DEF LossInv, OwedIsHeld, NoSecretLost
<1>  QED BY <1>1, <1>2, <1>3, PTL DEF Spec

-----------------------------------------------------------------------------
(* A finished run leaves a home's entry able to start.                     *)

LEMMA HealStep ==
    ASSUME HealInv, WaitInv', NEW r \in Runs, ~Idle(r) \/ AllIdle, \A q \in Runs \ {r} : run'[q] = run[q],
           binding' # None => binding'.id # 0,
           Heals(r)', (At(r, "protect", "done") => run[r].todo = {})',
           (run[r].kind = "protect")' => \A h \in Homes : Healed(r, h)'
    PROVE  HealInv'
<1>1. ASSUME NEW q \in Runs \ {r}
      PROVE  /\ Heals(q)' /\ (At(q, "protect", "done") => run[q].todo = {})'
             /\ (run[q].kind = "protect" => \A h \in Homes : Healed(q, h))'
    <2>1. run'[q] = NoRun
        BY DEF HealInv, WaitInv, Inv, Alone, AllIdle
    <2>2. NoRun.kind = "none"
        BY DEF NoRun
    <2>  QED BY <2>1, <2>2 DEF Heals, Protects, At
<1>  QED BY <1>1 DEF HealInv

\* A step of mcp-unprotect, and the end of a run.
LEMMA HealOther ==
    ASSUME HealInv, WaitInv', NEW r \in Runs, ~Idle(r), NEW X, run' = [run EXCEPT ![r] = X],
           X.kind # "protect", binding' \in {binding, None}
    PROVE  HealInv'
<1>1. run'[r] = X /\ \A q \in Runs \ {r} : run'[q] = run[q]
    BY DEF HealInv, WaitInv, Inv, TypeInv
<1>2. binding' # None => binding'.id # 0
    BY DEF HealInv
<1>3. Heals(r)' /\ (At(r, "protect", "done") => run[r].todo = {})'
    BY <1>1 DEF Heals, Protects, At
<1>  QED BY <1>1, <1>2, <1>3, HealStep

\* What a run is done with stays as it is, while the run leaves the configs and the binding alone.
LEMMA HealedKept ==
    ASSUME NEW r \in Runs, NEW h \in Homes, Healed(r, h), UNCHANGED <<file, binding>>,
           run'[r].seen = run[r].seen, run[r].todo \ {h} = run'[r].todo \ {h}, run[r].refused \subseteq run'[r].refused,
           \/ h \in run'[r].todo \/ h \notin run[r].todo
           \/ h \in run'[r].refused
           \/ Wrapped(file[h]) /\ Readers(r) \subseteq {h} /\ (binding = None \/ binding.at = h) => LaunchAllows(h, binding)
    PROVE  Healed(r, h)'
<1>1. Readers(r)' = Readers(r)
    BY DEF Readers, Seen
<1>2. LaunchAllows(h, binding)' = LaunchAllows(h, binding) /\ Wrapped(file[h])' = Wrapped(file[h])
    BY DEF LaunchAllows, Wrapped, IsEntry
<1>  QED BY <1>1, <1>2 DEF Healed

\* A wrapped entry that alone reads the pair is not left.
LEMMA NotLeft ==
    ASSUME NEW r \in Runs, NEW e \in Homes, Wrapped(Seen(r, e)), Readers(r) \subseteq {e},
           binding = None \/ binding.at = e
    PROVE  PlanOf(r, e, binding) # "left"
<1>1. Readers(r) = {e} /\ IsEntry(Seen(r, e)) /\ Seen(r, e).wrapped
    BY DEF Readers, Wrapped, Places
<1>2. CASE binding = None
    BY <1>1, <1>2 DEF PlanOf, UnboundPlan
<1>3. CASE binding # None
    BY <1>1, <1>3 DEF PlanOf, WrappedPlan
<1>  QED BY <1>2, <1>3

\* What is planned for an entry fits it.
LEMMA PlanFits ==
    ASSUME Inv, binding # None => binding.id # 0, NEW r \in Runs, NEW e \in Places,
           NEW plan, plan = PlanOf(r, e, binding), plan # "left", NEW job, job = JobFor(r, e, binding)
    PROVE  /\ job.expect # None => job.expect.id # 0
           /\ job.binding # None => job.binding.id # 0
           /\ job.target # e => Seen(r, e).wrapped
           /\ job.target = e /\ job.binding # None => FitsEntry(e, Seen(r, e), job.id, job.binding)
           /\ job.target = e /\ job.binding = None => FitsEntry(e, Seen(r, e), job.id, binding)
<1>1. TypeInv /\ binding \in MaybeBinding /\ ids + 1 # 0 /\ ids + 1 \in Nat
    BY DEF Inv, TypeInv, DiskType
<1>2. IsEntry(Seen(r, e)) /\ Seen(r, e) \in Entries
    BY <1>1, Plans, SeenType
<1>3. JobFits(r, e, binding, plan, job)
    BY <1>1, JobFields
<1>4. plan # "fresh" => Seen(r, e).wrapped
    BY DEF PlanOf, FreshPlan
<1>5. plan \in {"bound", "rebind"} => Seen(r, e).id = binding.id
    BY DEF PlanOf, FreshPlan, UnboundPlan, WrappedPlan
<1>6. CASE plan \in {"fresh", "bind", "moved"}
    <2>1. /\ job.target = e /\ job.expect = binding /\ job.id = ids + 1
          /\ job.binding = [id |-> ids + 1, at |-> e, cmd |-> Seen(r, e).cmd]
        BY <1>3, <1>6 DEF JobFits
    <2>2. job.binding # None
        BY <1>1, <1>2, <2>1, HeldAssumption DEF Bindings, Entries
    <2>  QED BY <1>1, <2>1, <2>2 DEF FitsEntry
<1>7. CASE plan \in {"bound", "rebind", "stale"}
    <2>1. binding \in Bindings /\ binding.at = e /\ binding # None
        BY <1>1, <1>7, Plans, HeldAssumption
    <2>2. /\ job.target = e /\ job.expect = binding
          /\ IF plan = "stale" THEN job.id = binding.id ELSE job.id = 0
          /\ job.binding = None \/ job.binding = [binding EXCEPT !.cmd = Seen(r, e).cmd]
          /\ job.binding = None => plan = "bound" \/ binding.cmd = Seen(r, e).cmd
        <3>1. [binding EXCEPT !.cmd = Seen(r, e).cmd] # None
            BY <1>2, <2>1, HeldAssumption DEF Bindings, Entries
        <3>  QED BY <1>3, <1>7, <3>1 DEF JobFits
    <2>3. plan = "bound" => binding.cmd = Seen(r, e).cmd
        BY <1>1, Plans
    <2>4. LET new == [binding EXCEPT !.cmd = Seen(r, e).cmd]
          IN  new.id = binding.id /\ new.at = e /\ new.cmd = Seen(r, e).cmd
        BY <2>1 DEF Bindings
    <2>  QED BY <1>4, <1>5, <1>7, <2>1, <2>2, <2>3, <2>4 DEF FitsEntry
<1>8. CASE plan = "replace"
    <2>1. binding \in Bindings /\ binding.at # e
        BY <1>1, <1>8, Plans
    <2>2. /\ job.target = binding.at /\ job.expect = binding
          /\ job.binding = [binding EXCEPT !.id = ids + 1]
        BY <1>3, <1>8 DEF JobFits
    <2>3. job.binding.id = ids + 1
        BY <2>1, <2>2 DEF Bindings
    <2>  QED BY <1>1, <1>4, <1>8, <2>1, <2>2, <2>3
<1>9. plan \in {"fresh", "bind", "moved", "bound", "rebind", "stale", "replace"}
    BY <1>1, Plans
<1>  QED BY <1>6, <1>7, <1>8, <1>9

\* An entry that is written as its binding fits it starts.
LEMMA FitsWritten ==
    ASSUME NEW r \in Runs, NEW e \in Places, NEW cur \in Entries, cur = Seen(r, e),
           run[r].job.target = e, NEW b, FitsEntry(e, cur, run[r].job.id, b), Wrapped(Rewritten(r, cur))
    PROVE  /\ b # None /\ Rewritten(r, cur).id # 0
           /\ Rewritten(r, cur).id = b.id /\ Rewritten(r, cur).cmd = b.cmd
<1>1. IsEntry(cur)
    BY HeldEntries
<1>2. CASE ~cur.wrapped
    <2>1. Rewritten(r, cur) = [cur EXCEPT !.wrapped = TRUE, !.id = run[r].job.id, !.env = Without(@, run[r].job.keys)]
        BY <1>1, <1>2 DEF Rewritten
    <2>2. Rewritten(r, cur).id = run[r].job.id /\ Rewritten(r, cur).cmd = cur.cmd
        BY <2>1 DEF Entries
    <2>  QED BY <1>2, <2>2 DEF FitsEntry
<1>3. CASE cur.wrapped
    <2>1. Rewritten(r, cur) = [cur EXCEPT !.id = IF cur.wrapped /\ run[r].job.id # 0 THEN run[r].job.id ELSE @,
                                          !.env = Without(@, run[r].job.keys)]
        BY <1>1, <1>3 DEF Rewritten
    <2>2. /\ Rewritten(r, cur).id = IF run[r].job.id # 0 THEN run[r].job.id ELSE cur.id
          /\ Rewritten(r, cur).cmd = cur.cmd
        BY <1>3, <2>1 DEF Entries
    <2>  QED BY <2>2 DEF FitsEntry
<1>  QED BY <1>2, <1>3

\* What every step of protect-mcp starts from.
LEMMA ProtectFields ==
    ASSUME HealInv, NEW r \in Runs, run[r].kind = "protect", ~Idle(r)
    PROVE  /\ run[r] \in RunStates /\ run[r].job \in Jobs /\ run[r].seen \in [Places -> Held]
           /\ TypeInv /\ Inv /\ WaitInv
           /\ Works(r) /\ Knows(r) /\ Fresh(r) /\ Writes(r) /\ Heals(r) /\ \A h \in Homes : Healed(r, h)
           /\ binding # None => binding.id # 0
           /\ \A X : run' = [run EXCEPT ![r] = X] => run'[r] = X /\ \A q \in Runs \ {r} : run'[q] = run[q]
BY RunFields DEF HealInv, WaitInv, Inv, RunInv, TypeInv, RunStates

LEMMA StartHeals ==
    ASSUME HealInv, WaitInv', UserWaits, NEW r \in Runs, NEW kind \in {"protect", "unprotect"}, NEW dir \in Dirs,
           Start(r, kind, dir)
    PROVE  HealInv'
<1>1. /\ AllIdle /\ UNCHANGED <<file, binding>>
      /\ run' = [run EXCEPT ![r] = [NoRun EXCEPT !.kind = kind, !.step = "next", !.seen = Discovered(dir),
                                        !.todo = {e \in Places : Parsed(Discovered(dir)[e])}]]
    BY DEF Start, UserWaits, disk
<1>2. /\ run'[r].step = "next" /\ run'[r].todo = {e \in Places : Parsed(Discovered(dir)[e])}
      /\ \A q \in Runs \ {r} : run'[q] = run[q]
    BY <1>1 DEF HealInv, WaitInv, Inv, TypeInv, NoRun
<1>3. ASSUME NEW h \in Homes, h \notin run'[r].todo PROVE ~Wrapped(file[h])
    BY <1>2, <1>3 DEF Discovered, Visible, Parsed, Places, Wrapped, IsEntry
<1>4. \A h \in Homes : Healed(r, h)'
    BY <1>1, <1>3 DEF Healed, Wrapped, IsEntry
<1>5. Heals(r)' /\ (At(r, "protect", "done") => run[r].todo = {})' /\ (binding' # None => binding'.id # 0)
    BY <1>1, <1>2 DEF Heals, Protects, At, HealInv
<1>  QED BY <1>1, <1>2, <1>4, <1>5, HealStep

\* Where a run replaces another entry's binding two entries read the pair.
LEMMA TwoReaders ==
    ASSUME HealInv, NEW r \in Runs,
           Protects(r, {"expect", "store", "secrets", "backup", "write", "back"}),
           run[r].job.target # First(r), NEW h
    PROVE  ~(Readers(r) \subseteq {h})
<1>1. run[r].kind = "protect" /\ ~Idle(r)
    BY DEF Protects, Idle
<1>2. Works(r) /\ Heals(r) /\ TypeInv
    BY <1>1, ProtectFields
<1>3. First(r) \in Places /\ run[r].job.target \in Places
    BY <1>2, FirstIn DEF Works
<1>4. Wrapped(Seen(r, First(r))) /\ Wrapped(Seen(r, run[r].job.target))
    BY <1>2 DEF Works, Heals, Wrapped
<1>5. {First(r), run[r].job.target} \subseteq Readers(r)
    BY <1>3, <1>4 DEF Readers
<1>  QED BY <1>5

\* A run that is done with an entry, which it refused or which starts.
LEMMA DoneHeals ==
    ASSUME HealInv, WaitInv', NEW r \in Runs, run[r].kind = "protect", ~Idle(r),
           NEW X, run' = [run EXCEPT ![r] = X], X.step = "next", X.seen = run[r].seen,
           X.todo = run[r].todo \ {First(r)}, run[r].refused \subseteq X.refused, UNCHANGED <<file, binding>>,
           \/ First(r) \in X.refused
           \/ /\ First(r) \in Homes /\ Wrapped(file[First(r)]) /\ Readers(r) \subseteq {First(r)}
              /\ binding = None \/ binding.at = First(r)
              => LaunchAllows(First(r), binding)
    PROVE  HealInv'
<1>1. run'[r] = X /\ (\A q \in Runs \ {r} : run'[q] = run[q]) /\ (binding # None => binding.id # 0)
    BY ProtectFields
<1>2. Heals(r)' /\ (At(r, "protect", "done") => run[r].todo = {})'
    BY <1>1 DEF Heals, Protects, At
<1>3. ASSUME NEW h \in Homes PROVE Healed(r, h)'
    <2>1. Healed(r, h)
        BY ProtectFields
    <2>2. run[r].todo \ {h} = run'[r].todo \ {h} \/ h # First(r)
        BY <1>1
    <2>3. run'[r].seen = run[r].seen /\ run[r].refused \subseteq run'[r].refused
        BY <1>1
    <2>4. Readers(r)' = Readers(r)
        BY <2>3 DEF Readers, Seen
    <2>5. LaunchAllows(h, binding)' = LaunchAllows(h, binding) /\ Wrapped(file[h])' = Wrapped(file[h])
        BY DEF LaunchAllows, Wrapped, IsEntry
    <2>6. CASE h = First(r)
        BY <1>1, <2>3, <2>4, <2>5, <2>6 DEF Healed
    <2>7. CASE h # First(r)
        BY <1>1, <2>1, <2>3, <2>4, <2>5, <2>7 DEF Healed
    <2>  QED BY <2>6, <2>7
<1>  QED BY <1>1, <1>2, <1>3, HealStep

\* A run that goes on with an entry.
LEMMA WorkHeals ==
    ASSUME HealInv, WaitInv', NEW r \in Runs, run[r].kind = "protect", ~Idle(r),
           NEW X, run' = [run EXCEPT ![r] = X], X.step # "done", X.seen = run[r].seen,
           X.todo = run[r].todo, X.refused = run[r].refused, UNCHANGED <<file, binding>>, Heals(r)'
    PROVE  HealInv'
<1>1. run'[r] = X /\ (\A q \in Runs \ {r} : run'[q] = run[q]) /\ (binding # None => binding.id # 0)
    BY ProtectFields
<1>2. ASSUME NEW h \in Homes PROVE Healed(r, h)'
    <2>1. Healed(r, h)
        BY ProtectFields
    <2>  QED BY <1>1, <2>1, HealedKept
<1>  QED BY <1>1, <1>2, HealStep DEF At

LEMMA PlanHeals ==
    ASSUME HealInv, WaitInv', NEW r \in Runs, Plan(r)
    PROVE  HealInv'
<1>  DEFINE e == First(r)
            plan == PlanOf(r, e, binding)
            job == JobFor(r, e, binding)
            X == [run[r] EXCEPT !.step = IF job.binding = None THEN "secrets" ELSE "expect",
                       !.known = binding, !.job = job, !.left = job.keys,
                       !.was = IF plan = "moved" THEN backup[e] ELSE None]
            Y == [run[r] EXCEPT !.todo = @ \ {First(r)}, !.step = "next", !.job = NoJob,
                                !.was = None, !.text = None]
<1>1. run[r].kind = "protect" /\ run[r].step = "next" /\ ~Idle(r) /\ run[r].todo # {}
    BY DEF Plan, At, Idle
<1>2. e \in run[r].todo /\ e \in Places /\ run[r] \in RunStates
    BY <1>1, ProtectFields, FirstIn
<1>3. Known(r) = binding
    BY <1>1, ProtectFields DEF Known, Knows
<1>4. UNCHANGED <<file, binding>>
    BY DEF Plan, disk
<1>5. CASE plan = "left"
    <2>1. run' = [run EXCEPT ![r] = Y]
        BY <1>3, <1>5 DEF Plan, Passes, Updates
    <2>2. /\ Y.seen = run[r].seen /\ Y.step = "next" /\ Y.todo = run[r].todo \ {e} /\ Y.refused = run[r].refused
        BY <1>2 DEF RunStates
    <2>3. Seen(r, e) = file[e] \/ ~Wrapped(file[e])
        BY <1>1, <1>2, ProtectFields DEF Fresh, Wrapped, IsEntry
    <2>4. ~(e \in Homes /\ Wrapped(file[e]) /\ Readers(r) \subseteq {e} /\ (binding = None \/ binding.at = e))
        BY <1>5, <2>3, NotLeft
    <2>  HIDE DEF Y
    <2>  QED BY <1>1, <1>4, <2>1, <2>2, <2>4, DoneHeals
<1>6. CASE plan # "left"
    <2>1. run' = [run EXCEPT ![r] = X]
        BY <1>3, <1>6 DEF Plan, JobFor, Updates
    <2>2. X.step = IF job.binding = None THEN "secrets" ELSE "expect"
        <3>  HIDE DEF job, plan
        <3>  QED BY <1>2 DEF RunStates
    <2>3. X.seen = run[r].seen /\ X.todo = run[r].todo /\ X.refused = run[r].refused /\ X.job = job
        <3>  HIDE DEF job, plan
        <3>  QED BY <1>2 DEF RunStates
    <2>4. run'[r] = X
        <3>  HIDE DEF X
        <3>  QED BY <1>1, <2>1, ProtectFields
    <2>5. /\ job.expect # None => job.expect.id # 0
          /\ job.binding # None => job.binding.id # 0
          /\ job.target # e => Seen(r, e).wrapped
          /\ job.target = e /\ job.binding # None => FitsEntry(e, Seen(r, e), job.id, job.binding)
          /\ job.target = e /\ job.binding = None => FitsEntry(e, Seen(r, e), job.id, binding)
        BY <1>1, <1>2, <1>6, ProtectFields, PlanFits
    <2>  HIDE DEF X, job, plan
    <2>6. First(r)' = e /\ run'[r].seen[e] = Seen(r, e)
        BY <2>3, <2>4 DEF First, Seen
    <2>  HIDE DEF e
    <2>7. Heals(r)'
        BY <1>4, <2>2, <2>3, <2>4, <2>5, <2>6 DEF Heals, Protects, Fits, FitsEntry, Seen
    <2>  QED BY <1>1, <1>4, <2>1, <2>2, <2>3, <2>7, WorkHeals
<1>  QED BY <1>5, <1>6

\* The binding is not stored: the entry is refused.
LEMMA LeavesHeals ==
    ASSUME HealInv, WaitInv', NEW r \in Runs, run[r].kind = "protect", ~Idle(r), LeavesUnbound(r),
           UNCHANGED <<file, binding>>
    PROVE  HealInv'
<1>  DEFINE X == [run[r] EXCEPT !.todo = @ \ {First(r)}, !.step = "next", !.job = NoJob, !.was = None,
                                !.refused = @ \union {First(r)}]
<1>1. run' = [run EXCEPT ![r] = X] /\ run[r] \in RunStates
    BY ProtectFields DEF LeavesUnbound, Updates
<1>2. /\ X.step = "next" /\ X.seen = run[r].seen /\ X.todo = run[r].todo \ {First(r)}
      /\ X.refused = run[r].refused \union {First(r)}
    BY <1>1 DEF RunStates
<1>  HIDE DEF X
<1>  QED BY <1>1, <1>2, DoneHeals

LEMMA ExpectHeals ==
    ASSUME HealInv, WaitInv', NEW r \in Runs, Expect(r)
    PROVE  HealInv'
<1>1. run[r].step = "expect" /\ ~Idle(r) /\ UNCHANGED <<file, binding>>
    BY DEF Expect, Idle
<1>2. CASE run[r].kind = "protect" /\ binding = run[r].job.expect
    <2>  DEFINE X == [run[r] EXCEPT !.step = "store"]
    <2>1. run' = [run EXCEPT ![r] = X] /\ run[r] \in RunStates /\ Heals(r)
        BY <1>1, <1>2, ProtectFields DEF Expect, Updates
    <2>2. /\ X.kind = "protect" /\ X.step = "store" /\ X.seen = run[r].seen /\ X.todo = run[r].todo
          /\ X.job = run[r].job /\ X.refused = run[r].refused
        BY <1>2, <2>1 DEF RunStates
    <2>3. run'[r] = X
        BY <1>1, <1>2, <2>1, ProtectFields
    <2>  HIDE DEF X
    <2>4. First(r)' = First(r)
        BY <2>2, <2>3 DEF First
    <2>5. Heals(r)'
        BY <1>1, <1>2, <2>1, <2>2, <2>3, <2>4 DEF Heals, Protects, Fits, FitsEntry, Seen
    <2>  QED BY <1>1, <1>2, <2>1, <2>2, <2>5, WorkHeals
<1>3. CASE run[r].kind = "protect" /\ binding # run[r].job.expect
    BY <1>1, <1>3, LeavesHeals DEF Expect
<1>4. CASE run[r].kind # "protect"
    <2>  DEFINE X == [run[r] EXCEPT !.step = IF binding = run[r].job.expect THEN "names" ELSE "done"]
    <2>1. run[r] \in RunStates
        BY RunFields DEF HealInv, WaitInv, Inv
    <2>2. run' = [run EXCEPT ![r] = X] /\ X.kind = run[r].kind
        BY <1>1, <1>4, <2>1 DEF Expect, Updates, RunStates
    <2>  HIDE DEF X
    <2>  QED BY <1>1, <1>4, <2>2, HealOther
<1>  QED BY <1>2, <1>3, <1>4

LEMMA StoreBindingHeals ==
    ASSUME HealInv, WaitInv', NEW r \in Runs, StoreBinding(r)
    PROVE  HealInv'
<1>  DEFINE X == [run[r] EXCEPT !.step = "secrets", !.known = run[r].job.binding, !.was = None,
                                !.holder = @ \/ ~Seen(r, First(r)).wrapped]
<1>1. /\ Protects(r, {"store"}) /\ run[r].kind = "protect" /\ ~Idle(r)
      /\ file' = file /\ binding' = run[r].job.binding /\ run' = [run EXCEPT ![r] = X]
    BY DEF StoreBinding, Updates, Protects, At, Idle
<1>2. run[r] \in RunStates /\ Works(r) /\ Heals(r) /\ TypeInv
    BY <1>1, ProtectFields
<1>3. /\ X.kind = "protect" /\ X.step = "secrets" /\ X.seen = run[r].seen /\ X.todo = run[r].todo
      /\ X.job = run[r].job
    BY <1>1, <1>2 DEF RunStates
<1>4. run'[r] = X /\ \A q \in Runs \ {r} : run'[q] = run[q]
    <2>  HIDE DEF X
    <2>  QED BY <1>1, ProtectFields
<1>  HIDE DEF X
<1>5. First(r)' = First(r) /\ Readers(r)' = Readers(r)
    BY <1>3, <1>4 DEF First, Readers, Seen
<1>6. Heals(r)'
    BY <1>1, <1>2, <1>3, <1>4, <1>5 DEF Heals, Protects, Fits, FitsEntry, Seen
<1>7. ASSUME NEW h \in Homes PROVE Healed(r, h)'
    <2>1. CASE run[r].job.target # First(r)
        BY <1>1, <1>5, <2>1, TwoReaders DEF Healed, Protects
    <2>2. CASE run[r].job.target = First(r)
        <3>1. binding' # None /\ binding'.at = First(r)
            BY <1>1, <1>2, <2>2 DEF Heals, Protects, Fits, FitsEntry
        <3>2. First(r) \in run'[r].todo
            BY <1>1, <1>2, <1>3, <1>4, FirstIn DEF Works, Protects
        <3>  QED BY <3>1, <3>2 DEF Healed
    <2>  QED BY <2>1, <2>2
<1>8. (At(r, "protect", "done") => run[r].todo = {})' /\ (binding' # None => binding'.id # 0)
    BY <1>1, <1>2, <1>3, <1>4 DEF Heals, Protects, At
<1>  QED BY <1>1, <1>4, <1>6, <1>7, <1>8, HealStep

\* The steps of a run at work that leave the configs and the binding alone.
LEMMA WorkingHeals ==
    ASSUME HealInv, WaitInv', NEW r \in Runs,
           \/ \E k \in EnvKeys : StoreSecret(r, k)
           \/ WriteBackup(r)
    PROVE  HealInv'
<1>1. Protects(r, {"secrets", "backup"}) /\ run[r].kind = "protect" /\ ~Idle(r) /\ UNCHANGED <<file, binding>>
    BY DEF StoreSecret, WriteBackup, Protects, At, Idle
<1>2. run[r] \in RunStates /\ Heals(r)
    BY <1>1, ProtectFields
<1>3. PICK X : /\ run' = [run EXCEPT ![r] = X]
               /\ X.kind = "protect" /\ X.step \in {"secrets", "write"} /\ X.seen = run[r].seen
               /\ X.todo = run[r].todo /\ X.job = run[r].job /\ X.refused = run[r].refused
    <2>1. CASE \E k \in EnvKeys : StoreSecret(r, k)
        <3>1. PICK k \in EnvKeys : StoreSecret(r, k)
            BY <2>1
        <3>  DEFINE Y == [run[r] EXCEPT !.left = @ \ {k}]
        <3>2. run' = [run EXCEPT ![r] = Y] /\ run[r].step = "secrets"
            BY <3>1 DEF StoreSecret, Updates, At
        <3>3. /\ Y.kind = "protect" /\ Y.step = run[r].step /\ Y.seen = run[r].seen /\ Y.todo = run[r].todo
              /\ Y.job = run[r].job /\ Y.refused = run[r].refused
            BY <1>1, <1>2 DEF RunStates
        <3>  HIDE DEF Y
        <3>  QED BY <3>2, <3>3
    <2>2. CASE WriteBackup(r)
        <3>  DEFINE Y == [run[r] EXCEPT !.step = "write"]
        <3>1. run' = [run EXCEPT ![r] = Y]
            BY <2>2 DEF WriteBackup, Updates
        <3>2. /\ Y.kind = "protect" /\ Y.step = "write" /\ Y.seen = run[r].seen /\ Y.todo = run[r].todo
              /\ Y.job = run[r].job /\ Y.refused = run[r].refused
            BY <1>1, <1>2 DEF RunStates
        <3>  HIDE DEF Y
        <3>  QED BY <3>1, <3>2
    <2>  QED BY <2>1, <2>2
<1>4. run'[r] = X
    BY <1>1, <1>3, ProtectFields
<1>5. First(r)' = First(r)
    BY <1>3, <1>4 DEF First
<1>6. Heals(r)'
    BY <1>1, <1>2, <1>3, <1>4, <1>5 DEF Heals, Protects, Fits, FitsEntry, Seen
<1>  QED BY <1>1, <1>3, <1>6, WorkHeals

LEMMA ReadConfigHeals ==
    ASSUME HealInv, WaitInv', NEW r \in Runs, ReadConfig(r)
    PROVE  HealInv'
<1>  DEFINE e == run[r].job.target
            cur == file[e]
            X == [run[r] EXCEPT !.step = "backup", !.was = cur, !.text = Rewritten(r, cur)]
            Y == [run[r] EXCEPT !.todo = @ \ {First(r)}, !.step = "next", !.job = NoJob,
                                !.was = None, !.text = None]
<1>1. Protects(r, {"secrets"}) /\ run[r].kind = "protect" /\ ~Idle(r) /\ UNCHANGED <<file, binding>>
    BY DEF ReadConfig, Protects, At, Idle, disk
<1>2. run[r] \in RunStates /\ Heals(r) /\ Works(r) /\ Fresh(r) /\ TypeInv
    BY <1>1, ProtectFields
<1>3. CASE Rewritten(r, cur) = cur
    <2>1. run' = [run EXCEPT ![r] = Y]
        BY <1>3 DEF ReadConfig, Passes, Updates
    <2>2. Y.step = "next" /\ Y.seen = run[r].seen /\ Y.todo = run[r].todo \ {First(r)} /\ Y.refused = run[r].refused
        BY <1>2 DEF RunStates
    <2>  HIDE DEF Y
    <2>3. CASE e # First(r)
        <3>1. ~(Readers(r) \subseteq {First(r)})
            BY <1>1, <2>3, TwoReaders DEF Protects
        <3>  QED BY <1>1, <2>1, <2>2, <3>1, DoneHeals
    <2>4. CASE e = First(r)
        <3>1. First(r) \in run[r].todo /\ First(r) \in Places
            BY <1>1, <1>2, FirstIn DEF Works, Protects
        <3>2. Wrapped(cur) => cur = Seen(r, e) /\ cur \in Entries
            <4>1. cur = Seen(r, e) \/ cur = Cut
                BY <1>1, <2>4, <3>1, <1>2 DEF Fresh
            <4>2. cur \in Kept
                BY <1>2, <2>4, <3>1 DEF TypeInv, DiskType, Kept
            <4>  HIDE DEF cur
            <4>3. IsEntry(cur) => cur # Cut
                BY DEF IsEntry
            <4>4. IsEntry(cur) => cur \in Entries
                BY <4>2, HeldEntries
            <4>  QED BY <4>1, <4>3, <4>4 DEF Wrapped
        <3>3. Wrapped(cur) => FitsEntry(e, cur, run[r].job.id, binding)
            BY <1>1, <1>2, <2>4, <3>2 DEF Heals, Fits, Protects
        <3>4. Wrapped(cur) => LaunchAllows(e, binding)
            <4>1. ASSUME Wrapped(cur) PROVE LaunchAllows(e, binding)
                <5>1. Wrapped(Rewritten(r, cur)) /\ e \in Places
                    BY <1>3, <2>4, <3>1, <4>1
                <5>  HIDE DEF cur, e
                <5>2. e = run[r].job.target
                    BY DEF e
                <5>3. binding # None /\ cur.id # 0 /\ cur.id = binding.id /\ cur.cmd = binding.cmd
                    BY <1>3, <3>2, <3>3, <4>1, <5>1, <5>2, FitsWritten
                <5>  QED BY <5>3 DEF LaunchAllows, cur
            <4>  QED BY <4>1
        <3>  QED BY <1>1, <2>1, <2>2, <2>4, <3>4, DoneHeals
    <2>  QED BY <2>3, <2>4
<1>4. CASE Rewritten(r, cur) # cur
    <2>1. run' = [run EXCEPT ![r] = X]
        BY <1>4 DEF ReadConfig, Updates
    <2>2. /\ X.kind = "protect" /\ X.step = "backup" /\ X.seen = run[r].seen /\ X.todo = run[r].todo
          /\ X.job = run[r].job /\ X.refused = run[r].refused
        BY <1>1, <1>2 DEF RunStates
    <2>  HIDE DEF X
    <2>3. run'[r] = X
        BY <1>1, <2>1, ProtectFields
    <2>4. First(r)' = First(r)
        BY <2>2, <2>3 DEF First
    <2>5. Heals(r)'
        BY <1>1, <1>2, <2>2, <2>3, <2>4 DEF Heals, Protects, Fits, FitsEntry, Seen
    <2>  QED BY <1>1, <2>1, <2>2, <2>5, WorkHeals
<1>  QED BY <1>3, <1>4

LEMMA WriteConfigHeals ==
    ASSUME HealInv, WaitInv', NEW r \in Runs, WriteConfig(r)
    PROVE  HealInv'
<1>  DEFINE e == run[r].job.target
            X == [run[r] EXCEPT
                  !.todo = @ \ {First(r)}, !.step = "next", !.job = NoJob, !.was = None, !.text = None,
                  !.seen = IF e = First(r) THEN @ ELSE [@ EXCEPT ![e].id = run[r].job.id]]
<1>1. /\ Protects(r, {"write"}) /\ run[r].kind = "protect" /\ ~Idle(r) /\ binding' = binding
      /\ run' = [run EXCEPT ![r] = X] /\ file' = [file EXCEPT ![e] = run[r].text]
    BY DEF WriteConfig, Updates, Protects, At, Idle
<1>2. /\ run[r] \in RunStates /\ Heals(r) /\ Works(r) /\ Fresh(r) /\ Writes(r) /\ TypeInv
      /\ \A h \in Homes : Healed(r, h)
    BY <1>1, ProtectFields
<1>3. /\ X.step = "next" /\ X.todo = run[r].todo \ {First(r)} /\ X.refused = run[r].refused
      /\ X.seen = IF e = First(r) THEN run[r].seen ELSE [run[r].seen EXCEPT ![e].id = run[r].job.id]
    BY <1>2 DEF RunStates
<1>4. run'[r] = X /\ \A q \in Runs \ {r} : run'[q] = run[q]
    <2>  HIDE DEF X
    <2>  QED BY <1>1, ProtectFields
<1>5. /\ e \in Places /\ First(r) \in run[r].todo /\ First(r) \in Places
      /\ IsEntry(Seen(r, e)) /\ Seen(r, e) \in Entries /\ IsEntry(Seen(r, First(r)))
      /\ run[r].text = Rewritten(r, file[e]) /\ file \in [Places -> Held] /\ run[r].seen \in [Places -> Held]
    BY <1>1, <1>2, FirstIn, SeenType, ProtectFields DEF Works, Protects, Writes, TypeInv, DiskType
<1>  HIDE DEF X
<1>6. ASSUME NEW h \in Homes PROVE Healed(r, h)'
    <2>1. CASE e # First(r)
        <3>1. Seen(r, e).wrapped /\ Seen(r, First(r)).wrapped
            BY <1>1, <1>2, <2>1 DEF Works, Heals, Protects
        <3>2. [Seen(r, e) EXCEPT !.id = run[r].job.id] \in Entries /\ [Seen(r, e) EXCEPT !.id = run[r].job.id].wrapped
            BY <1>2, <1>5, <3>1, RunFields DEF Entries, Jobs
        <3>3. X.seen[e] = [Seen(r, e) EXCEPT !.id = run[r].job.id] /\ X.seen[First(r)] = Seen(r, First(r))
            BY <1>3, <1>5, <2>1 DEF Seen
        <3>4. Wrapped(X.seen[e]) /\ Wrapped(X.seen[First(r)])
            BY <1>5, <3>1, <3>2, <3>3, HeldEntries DEF Wrapped
        <3>5. {e, First(r)} \subseteq Readers(r)'
            BY <1>4, <1>5, <3>4 DEF Readers, Seen, Wrapped, IsEntry
        <3>  QED BY <2>1, <3>5 DEF Healed
    <2>2. CASE e = First(r) /\ h # e
        <3>1. Readers(r)' = Readers(r) /\ run'[r].refused = run[r].refused /\ run'[r].todo = run[r].todo \ {e}
            BY <1>3, <1>4, <2>2 DEF Readers, Seen
        <3>2. file'[h] = file[h]
            BY <1>1, <1>5, <2>2 DEF Places
        <3>3. LaunchAllows(h, binding)' = LaunchAllows(h, binding) /\ Wrapped(file[h])' = Wrapped(file[h])
            BY <1>1, <3>2 DEF LaunchAllows, Wrapped, IsEntry
        <3>4. Healed(r, h)
            BY <1>2
        <3>  QED BY <1>1, <2>2, <3>1, <3>3, <3>4 DEF Healed
    <2>3. CASE e = First(r) /\ h = e
        <3>1. file[e] = Seen(r, e)
            BY <1>1, <1>2, <1>5, <2>3 DEF Fresh, Writes, Protects, IsEntry
        <3>2. FitsEntry(e, Seen(r, e), run[r].job.id, binding)
            BY <1>1, <1>2, <2>3 DEF Heals, Fits, Protects
        <3>3. file'[e] = Rewritten(r, Seen(r, e))
            BY <1>1, <1>5, <3>1
        <3>4. ASSUME Wrapped(file'[e])
              PROVE  binding # None /\ file'[e].id # 0 /\ file'[e].id = binding.id /\ file'[e].cmd = binding.cmd
            <4>  HIDE DEF e
            <4>1. e = run[r].job.target
                BY DEF e
            <4>  QED BY <1>5, <3>2, <3>3, <3>4, <4>1, FitsWritten
        <3>5. Wrapped(file[h])' => LaunchAllows(h, binding)'
            BY <1>1, <2>3, <3>4 DEF LaunchAllows, Wrapped, IsEntry
        <3>  QED BY <1>1, <3>5 DEF Healed
    <2>  QED BY <2>1, <2>2, <2>3
<1>7. Heals(r)' /\ (At(r, "protect", "done") => run[r].todo = {})' /\ (binding' # None => binding'.id # 0)
    BY <1>1, <1>3, <1>4, ProtectFields DEF Heals, Protects, At
<1>  QED BY <1>1, <1>4, <1>6, <1>7, HealStep

LEMMA WriteFailsHeals ==
    ASSUME HealInv, WaitInv', NEW r \in Runs, WriteFails(r)
    PROVE  HealInv'
<1>  DEFINE X == [run[r] EXCEPT !.step = "back"]
<1>1. Protects(r, {"secrets", "backup", "write"}) /\ run[r].kind = "protect" /\ ~Idle(r) /\ binding' = binding
    BY DEF WriteFails, Protects, Idle
<1>2. CASE run[r].job.target = First(r)
    <2>1. NoRun.kind # "protect"
        BY DEF NoRun
    <2>2. run' = [run EXCEPT ![r] = NoRun]
        BY <1>2 DEF WriteFails, Updates
    <2>  QED BY <1>1, <2>1, <2>2, HealOther
<1>3. CASE run[r].job.target # First(r)
    <2>1. run' = [run EXCEPT ![r] = X] /\ run[r] \in RunStates /\ Heals(r) /\ (binding # None => binding.id # 0)
        BY <1>1, <1>3, ProtectFields DEF WriteFails, Updates
    <2>2. /\ X.kind = "protect" /\ X.step = "back" /\ X.seen = run[r].seen /\ X.todo = run[r].todo
          /\ X.job = run[r].job /\ X.refused = run[r].refused
        BY <1>1, <2>1 DEF RunStates
    <2>  HIDE DEF X
    <2>3. run'[r] = X /\ \A q \in Runs \ {r} : run'[q] = run[q]
        BY <1>1, <2>1, ProtectFields
    <2>4. First(r)' = First(r) /\ Readers(r)' = Readers(r)
        BY <2>2, <2>3 DEF First, Readers, Seen
    <2>5. Heals(r)'
        BY <1>1, <1>3, <2>1, <2>2, <2>3, <2>4 DEF Heals, Protects, Seen
    <2>6. \A h \in Homes : Healed(r, h)'
        BY <1>1, <1>3, <2>4, TwoReaders DEF Healed, Protects
    <2>7. (At(r, "protect", "done") => run[r].todo = {})' /\ (binding' # None => binding'.id # 0)
        BY <1>1, <2>1, <2>2, <2>3 DEF At
    <2>  QED BY <1>1, <2>3, <2>5, <2>6, <2>7, HealStep
<1>  QED BY <1>2, <1>3

LEMMA StoreBackHeals ==
    ASSUME HealInv, WaitInv', NEW r \in Runs, StoreBack(r)
    PROVE  HealInv'
<1>  DEFINE X == [run[r] EXCEPT !.todo = @ \ {First(r)}, !.step = "next", !.job = NoJob, !.was = None,
                                !.text = None, !.refused = @ \union {run[r].job.target},
                                !.known = binding']
<1>1. /\ Protects(r, {"back"}) /\ run[r].kind = "protect" /\ ~Idle(r) /\ file' = file
      /\ binding' \in {binding, run[r].job.expect} /\ run' = [run EXCEPT ![r] = X]
    BY DEF StoreBack, Updates, Protects, At, Idle
<1>2. run[r] \in RunStates /\ Heals(r) /\ Works(r) /\ (binding # None => binding.id # 0)
    BY <1>1, ProtectFields
<1>3. X.step = "next" /\ X.seen = run[r].seen
    BY <1>2 DEF RunStates
<1>4. run'[r] = X /\ \A q \in Runs \ {r} : run'[q] = run[q]
    <2>  HIDE DEF X
    <2>  QED BY <1>1, ProtectFields
<1>  HIDE DEF X
<1>5. Readers(r)' = Readers(r)
    BY <1>3, <1>4 DEF Readers, Seen
<1>6. run[r].job.target # First(r)
    BY <1>1, <1>2 DEF Works, Protects
<1>7. \A h \in Homes : Healed(r, h)'
    BY <1>1, <1>5, <1>6, TwoReaders DEF Healed, Protects
<1>8. Heals(r)' /\ (At(r, "protect", "done") => run[r].todo = {})' /\ (binding' # None => binding'.id # 0)
    BY <1>1, <1>2, <1>3, <1>4 DEF Heals, Protects, At
<1>  QED BY <1>1, <1>4, <1>7, <1>8, HealStep

LEMMA FinishHeals ==
    ASSUME HealInv, WaitInv', NEW r \in Runs, Finish(r)
    PROVE  HealInv'
<1>  DEFINE X == [run[r] EXCEPT !.step = "done"]
<1>1. /\ run[r].kind = "protect" /\ ~Idle(r) /\ run[r].todo = {} /\ UNCHANGED <<file, binding>>
      /\ run' = [run EXCEPT ![r] = X]
    BY DEF Finish, Updates, At, Idle, disk
<1>2. run[r] \in RunStates /\ \A h \in Homes : Healed(r, h)
    BY <1>1, ProtectFields
<1>3. X.step = "done" /\ X.seen = run[r].seen /\ X.todo = {} /\ X.refused = run[r].refused
    BY <1>1, <1>2 DEF RunStates
<1>4. run'[r] = X /\ \A q \in Runs \ {r} : run'[q] = run[q]
    <2>  HIDE DEF X
    <2>  QED BY <1>1, ProtectFields
<1>  HIDE DEF X
<1>5. ASSUME NEW h \in Homes PROVE Healed(r, h)'
    <2>1. Healed(r, h)
        BY <1>2
    <2>  QED BY <1>1, <1>3, <1>4, <2>1, HealedKept
<1>6. Heals(r)' /\ (At(r, "protect", "done") => run[r].todo = {})' /\ (binding' # None => binding'.id # 0)
    BY <1>1, <1>3, <1>4, ProtectFields DEF Heals, Protects, At
<1>  QED BY <1>1, <1>4, <1>5, <1>6, HealStep

LEMMA UnprotectHeals ==
    ASSUME HealInv, WaitInv', NEW r \in Runs, UnprotectStep(r)
    PROVE  HealInv'
<1>1. run[r] \in RunStates
    BY RunFields DEF HealInv, WaitInv, Inv
<1>2. run[r].kind = "unprotect" /\ ~Idle(r)
    BY DEF UnprotectStep, Restore, Clear, ListNames, DeleteName, DeleteBinding, At, Idle
<1>3. PICK X : run' = [run EXCEPT ![r] = X] /\ X.kind = run[r].kind
    BY <1>1 DEF UnprotectStep, Restore, Clear, ListNames, DeleteName, DeleteBinding, Passes, Updates, RunStates
<1>4. binding' \in {binding, None}
    BY DEF UnprotectStep, Restore, Clear, ListNames, DeleteName, DeleteBinding, disk
<1>  QED BY <1>2, <1>3, <1>4, HealOther

LEMMA HealInit == Init => HealInv
<1>  SUFFICES ASSUME Init PROVE HealInv
    OBVIOUS
<1>1. WaitInv /\ binding = None
    BY WaitInit DEF Init
<1>2. \A r \in Runs : run[r] = NoRun
    BY DEF Init
<1>3. NoRun.kind = "none"
    BY DEF NoRun
<1>  QED BY <1>1, <1>2, <1>3 DEF HealInv, Heals, Protects, At

LEMMA HealNext ==
    ASSUME UserWaits, HealInv, [Next]_vars
    PROVE  HealInv'
<1>1. WaitInv /\ WaitInv' /\ (binding # None => binding.id # 0)
    BY WaitNext DEF HealInv
<1>2. NoRun.kind = "none"
    BY DEF NoRun
<1>3. ASSUME NEW r \in Runs, NEW kind \in {"protect", "unprotect"}, NEW dir \in Dirs, Start(r, kind, dir)
      PROVE  HealInv'
    BY <1>1, <1>3, StartHeals
<1>4. ASSUME NEW r \in Runs, Exit(r) \/ Kill(r)
      PROVE  HealInv'
    <2>1. ~Idle(r) /\ run' = [run EXCEPT ![r] = NoRun] /\ binding' = binding
        BY <1>4 DEF Exit, Kill, Updates, Idle, disk
    <2>  QED BY <1>1, <1>2, <2>1, HealOther
<1>5. ASSUME NEW r \in Runs, Expect(r)
      PROVE  HealInv'
    BY <1>1, <1>5, ExpectHeals
<1>6. ASSUME NEW r \in Runs, ProtectStep(r)
      PROVE  HealInv'
    <2>1. CASE Refused(r)
        BY <1>1, <2>1, LeavesHeals DEF Refused, At, Idle
    <2>  QED BY <1>1, <1>6, <2>1, PlanHeals, StoreBindingHeals, WorkingHeals, ReadConfigHeals, WriteConfigHeals,
                WriteFailsHeals, StoreBackHeals, FinishHeals DEF ProtectStep
<1>7. ASSUME NEW r \in Runs, UnprotectStep(r)
      PROVE  HealInv'
    BY <1>1, <1>7, UnprotectHeals
<1>8. CASE UserEdits
    <2>1. \A r \in Runs : run'[r] = NoRun
        BY <1>1, <1>8 DEF UserEdits, UserWaits, AllIdle, WaitInv, Inv, Alone
    <2>2. binding' = binding
        BY <1>8 DEF UserEdits, Edit, Edited, SetValue, ChangeCommand, AddEntry, RemoveEntry, CopyEntry, MoveProject
    <2>  QED BY <1>1, <1>2, <2>1, <2>2 DEF HealInv, Heals, Protects, At
<1>9. CASE UNCHANGED vars
    <2>1. UNCHANGED <<file, binding, run>>
        BY <1>9 DEF vars, disk
    <2>2. ASSUME NEW r \in Runs PROVE Heals(r)' /\ (At(r, "protect", "done") => run[r].todo = {})'
        <3>1. First(r)' = First(r)
            BY <2>1 DEF First
        <3>2. Heals(r) /\ (At(r, "protect", "done") => run[r].todo = {})
            BY DEF HealInv
        <3>  QED BY <2>1, <3>1, <3>2 DEF Heals, Protects, Fits, FitsEntry, Seen, At
    <2>3. ASSUME NEW r \in Runs, NEW h \in Homes, run'[r].kind = "protect" PROVE Healed(r, h)'
        <3>1. Healed(r, h)
            BY <2>1, <2>3 DEF HealInv
        <3>  QED BY <2>1, <3>1, HealedKept
    <2>  QED BY <1>1, <2>1, <2>2, <2>3 DEF HealInv
<1>  QED BY <1>3, <1>4, <1>5, <1>6, <1>7, <1>8, <1>9 DEF Next

\* While the user waits for a run to end, one of protect-mcp leaves an entry
\* of a home, whose pair is its own and which no other entry of the run
\* reads, with the binding it is allowed to start with: whatever state the
\* runs killed before it, or the user's edits between them, left behind.
THEOREM HomesHeal == UserWaits => (Spec => []HealsHome)
<1>1. ASSUME HealInv PROVE HealsHome
    <2>1. ASSUME NEW r \in Runs, NEW h \in Homes, At(r, "protect", "done")
          PROVE  h \notin run[r].todo /\ Healed(r, h)
        BY <1>1, <2>1 DEF HealInv, At
    <2>  QED BY <2>1 DEF HealsHome, Healed
<1>  SUFFICES ASSUME UserWaits PROVE Spec => []HealsHome
    OBVIOUS
<1>2. HealInv /\ [Next]_vars => HealInv'
    BY HealNext
<1>  QED BY <1>1, <1>2, HealInit, PTL DEF Spec

=============================================================================
