------------------------ MODULE IdentityVaultProofs ------------------------
(***************************************************************************)
(* The identity vault, for every set of processes, namespaces and keys,    *)
(* every migration and any number of commands, kills and losses of the     *)
(* identity.                                                               *)
(*                                                                         *)
(* The argument has four layers.  Where a command is tells what it is      *)
(* and what it holds (PlacesInv).  A command that is between the two parts *)
(* of a change owes the second to its namespace (PartsInv).  And while no  *)
(* two inits overlap there is one key: no file, credential or command has  *)
(* another one, and none at all has one before there is a vault, but for   *)
(* the init that makes it (KeyInv).  What is done and not logged is        *)
(* pending with the command that did it (LogInv).                          *)
(***************************************************************************)
EXTENDS IdentityVault, TLAPS

-----------------------------------------------------------------------------
(* The inductive invariant.                                                *)

InitPlaces == {"readIdentity", "createIdentity", "initStore", "logInit"}

\* The record of a command fits the place it is at.
Placed(r) ==
    /\ r.op = None <=> r.pc = "idle"
    /\ r.op = "init" <=> r.pc \in InitPlaces
    /\ r.pc = "value" => r.op \in {"register", "rotate"}
    /\ r.pc = "name" => r.op \in {"register", "migrate"}
    /\ r.pc = "store" => r.op \in {"register", "rotate", "migrate"}
    /\ r.pc = "log" => r.op # "exec"
    /\ r.pc \in {"revoke", "delete"} => r.op = "revoke"
    /\ r.pc \in {"resolve", "child"} => r.op = "exec"
    /\ r.pc = "next" => r.op = "migrate"
    /\ r.op \in {"register", "rotate", "revoke", "exec"} => r.name \in Names
    /\ r.pc \in {"name", "store", "log"} => r.name \in Names
    /\ r.key = None <=> r.pc \in {"idle", "open", "readIdentity", "createIdentity"}

PlacesInv == \A p \in Procs : Placed(proc[p])

\* A namespace is given its credential, or deprived of it, by the command that has changed it.
Stores(p, n) == At(p, "store") /\ proc[p].op # "rotate" /\ proc[p].name = n
Deletes(p, n) == At(p, "delete") /\ proc[p].name = n

PartsInv ==
    /\ \A p \in Procs : At(p, "delete") => spaces[proc[p].name] = "revoked"
    /\ \A n \in Names :
          /\ spaces[n] = "active" /\ creds[n] = None =>
                n \in torn \/ \E p \in Procs : Stores(p, n)
          /\ spaces[n] = "revoked" /\ creds[n] # None =>
                n \in torn \union late \/ \E p \in Procs : Deletes(p, n)

\* Nothing has another key than k.
OnlyKey(k) ==
    /\ identity \in Keys => identity = k
    /\ \A p \in Procs : proc[p].key \in {k, None}
    /\ \A n \in Names : creds[n] \in {k, None}

Alone == \A p, q \in Procs : proc[p].op = "init" /\ proc[q].op = "init" => p = q

KeyInv ==
    ~crossed =>
        /\ Alone
        /\ \E k \in Keys \union {None} : OnlyKey(k)
        /\ ~vault => /\ \A n \in Names : creds[n] = None
                     /\ \A p \in Procs : proc[p].key # None => proc[p].op = "init"
        /\ \A p \in Procs : At(p, "createIdentity") => identity \notin Keys /\ ~vault

LogInv == changes \ events \subseteq UNION {Pending(p) : p \in Procs}

VaultInv == TypeOK /\ PlacesInv /\ PartsInv /\ KeyInv /\ LogInv

-----------------------------------------------------------------------------
(* A step moves one command from one place to the next.                    *)

Commands ==
    [pc : Places, op : Ops \union {None}, name : Names \union {None},
     key : Keys \union {None}, todo : SUBSET Names]

\* The command of p is r now, and the others are where they were.
Becomes(p, r) ==
    /\ r \in Commands /\ Placed(r)
    /\ proc' = [proc EXCEPT ![p] = r]

LEMMA IdleIsPlaced == Idle \in Commands /\ Placed(Idle)
BY VaultAssumption DEF VaultAssumption, Idle, Commands, Placed, Places, InitPlaces, Ops

LEMMA DoneBecomes ==
    ASSUME NEW p \in Procs, Done(p)
    PROVE  Becomes(p, Idle)
BY IdleIsPlaced DEF Done, Becomes

\* What a command becomes is all that a step has to be asked for.
LEMMA BecomesKeeps ==
    ASSUME proc \in [Procs -> Commands], PlacesInv, NEW p \in Procs, NEW r, Becomes(p, r)
    PROVE  /\ proc' \in [Procs -> Commands] /\ PlacesInv'
           /\ proc'[p] = r /\ \A q \in Procs \ {p} : proc'[q] = proc[q]
BY DEF Becomes, PlacesInv

LEMMA StartBecomes ==
    ASSUME proc \in [Procs -> Commands], PlacesInv,
           NEW p \in Procs, NEW op \in Ops, NEW n \in Names, Start(p, op, n)
    PROVE  Becomes(p, [pc |-> IF op = "init" THEN "readIdentity" ELSE "open", op |-> op,
                       name |-> IF op \in {"init", "migrate"} THEN None ELSE n, key |-> None,
                       todo |-> IF op = "migrate" THEN Secrets ELSE {}])
BY VaultAssumption
   DEF VaultAssumption, Start, Becomes, Commands, Placed, Places, InitPlaces, Ops

\* The command of an action, after it: Idle, or another place, and what else it may say then.
LEMMA OpenBecomes ==
    ASSUME proc \in [Procs -> Commands], PlacesInv, NEW p \in Procs, Open(p)
    PROVE  \/ Becomes(p, Idle)
           \/ /\ vault /\ identity \in Keys
              /\ Becomes(p, [proc[p] EXCEPT !.key = identity, !.pc = First(proc[p].op)])
<1>1. CASE vault /\ identity \in Keys
  <2> DEFINE op == proc[p].op
             r == [proc[p] EXCEPT !.key = identity, !.pc = First(op)]
  <2>1. proc' = [proc EXCEPT ![p] = r]
    BY <1>1 DEF Open
  <2>2. Placed(proc[p]) /\ proc[p] \in Commands /\ proc[p].pc = "open"
    BY DEF Open, At, PlacesInv
  <2>3. r.op = op /\ r.name = proc[p].name /\ r.key = identity /\ r.pc = First(op)
    BY <2>2 DEF Commands
  <2>4. op \in {"register", "rotate", "revoke", "exec", "migrate"}
    BY <2>2, VaultAssumption DEF VaultAssumption, Placed, InitPlaces, Commands, Ops
  <2>5. First(op) \in {"value", "revoke", "resolve", "next"} /\ r \in Commands
    BY <1>1, <2>2, <2>4 DEF Commands, First, Places
  <2>6. identity # None /\ op # None
    BY <1>1, <2>4, VaultAssumption DEF VaultAssumption, Ops
  <2>7. Placed(r)
    BY <2>2, <2>3, <2>4, <2>6 DEF Placed, First, InitPlaces
  <2> QED
    BY <1>1, <2>1, <2>5, <2>7 DEF Becomes
<1>2. CASE ~(vault /\ identity \in Keys)
  BY <1>2, DoneBecomes DEF Open
<1> QED
  BY <1>1, <1>2

LEMMA ReadIdentityBecomes ==
    ASSUME proc \in [Procs -> Commands], PlacesInv, NEW p \in Procs, ReadIdentity(p)
    PROVE  \/ Becomes(p, Idle)
           \/ /\ identity \in Keys
              /\ Becomes(p, [proc[p] EXCEPT !.key = identity, !.pc = "initStore"])
           \/ /\ identity \notin Keys /\ ~vault
              /\ Becomes(p, [proc[p] EXCEPT !.pc = "createIdentity"])
<1>1. Placed(proc[p]) /\ proc[p] \in Commands /\ proc[p].pc = "readIdentity"
  BY DEF ReadIdentity, At, PlacesInv
<1>2. CASE identity \in Keys /\ proc' = [proc EXCEPT ![p].key = identity, ![p].pc = "initStore"]
  BY <1>1, <1>2, VaultAssumption
     DEF Becomes, Commands, Places, Placed, InitPlaces, VaultAssumption
<1>3. CASE identity \notin Keys /\ MayCreate /\ Goto(p, "createIdentity")
  BY <1>1, <1>3, VaultAssumption
     DEF Becomes, Goto, MayCreate, Commands, Places, Placed, InitPlaces, VaultAssumption
<1>4. CASE Done(p)
  BY <1>4, DoneBecomes
<1> QED
  BY <1>2, <1>3, <1>4 DEF ReadIdentity

LEMMA InitBecomes ==
    ASSUME proc \in [Procs -> Commands], PlacesInv, NEW p \in Procs
    PROVE  /\ CreateIdentity(p) => 
                 Becomes(p, [proc[p] EXCEPT !.key = identity', !.pc = "initStore"])
           /\ InitStore(p) => IF vault THEN Becomes(p, Idle)
                              ELSE Becomes(p, [proc[p] EXCEPT !.pc = "logInit"])
<1>1. Placed(proc[p]) /\ proc[p] \in Commands
  BY DEF PlacesInv
<1>2. ASSUME CreateIdentity(p)
      PROVE  Becomes(p, [proc[p] EXCEPT !.key = identity', !.pc = "initStore"])
  <2>1. identity' \in Keys /\ proc[p].pc = "createIdentity"
        /\ proc' = [proc EXCEPT ![p].key = identity', ![p].pc = "initStore"]
    BY <1>2 DEF CreateIdentity, At
  <2> QED
    BY <1>1, <2>1, VaultAssumption
       DEF Becomes, Commands, Places, Placed, InitPlaces, VaultAssumption
<1>3. ASSUME InitStore(p), ~vault
      PROVE  Becomes(p, [proc[p] EXCEPT !.pc = "logInit"])
  BY <1>1, <1>3 DEF InitStore, At, Goto, Becomes, Commands, Places, Placed, InitPlaces
<1>4. ASSUME InitStore(p), vault
      PROVE  Becomes(p, Idle)
  BY <1>4, DoneBecomes DEF InitStore
<1> QED
  BY <1>2, <1>3, <1>4

LEMMA GoesTo ==
    ASSUME proc \in [Procs -> Commands], PlacesInv, NEW p \in Procs, NEW place, Goto(p, place),
           \/ At(p, "value") /\ place = IF proc[p].op = "rotate" THEN "store" ELSE "name"
           \/ At(p, "name") /\ place = "store"
           \/ At(p, "store") /\ place = "log"
           \/ At(p, "revoke") /\ place = "delete"
           \/ At(p, "delete") /\ place = "log"
           \/ At(p, "log") /\ proc[p].op = "migrate" /\ place = "next"
           \/ At(p, "resolve") /\ place = "child"
    PROVE  Becomes(p, [proc[p] EXCEPT !.pc = place])
<1>1. Placed(proc[p]) /\ proc[p] \in Commands
  BY DEF PlacesInv
<1>2. place \in Places
  BY DEF Places
<1> DEFINE r == [proc[p] EXCEPT !.pc = place]
<1>3. r \in Commands /\ proc' = [proc EXCEPT ![p] = r]
  BY <1>1, <1>2 DEF Commands, Goto
<1>4. /\ r.op = proc[p].op /\ r.name = proc[p].name /\ r.key = proc[p].key /\ r.pc = place
  BY <1>1 DEF Commands
<1>5. Placed(r)
  BY <1>1, <1>4 DEF Placed, InitPlaces, At
<1> QED
  BY <1>3, <1>5 DEF Becomes

LEMMA NextNameBecomes ==
    ASSUME proc \in [Procs -> Commands], PlacesInv, NEW p \in Procs, NextName(p)
    PROVE  \/ Becomes(p, Idle)
           \/ \E n \in Names \union {None}, todo \in SUBSET Names, place \in {"next", "name"} :
                 Becomes(p, [proc[p] EXCEPT !.todo = todo, !.name = n, !.pc = place])
<1>1. Placed(proc[p]) /\ proc[p] \in Commands /\ proc[p].pc = "next"
  BY DEF NextName, At, PlacesInv
<1>2. CASE proc[p].todo = {} /\ Done(p)
  BY <1>2, DoneBecomes
<1>3. ASSUME NEW n \in proc[p].todo, NEW empty \in BOOLEAN,
             proc' = [proc EXCEPT ![p].todo = @ \ {n},
                         ![p].name = IF spaces[n] # "absent" \/ empty THEN None ELSE n,
                         ![p].pc = IF spaces[n] # "absent" \/ empty THEN "next" ELSE "name"]
      PROVE  \E m \in Names \union {None}, todo \in SUBSET Names, place \in {"next", "name"} :
                 Becomes(p, [proc[p] EXCEPT !.todo = todo, !.name = m, !.pc = place])
  <2> DEFINE skip == spaces[n] # "absent" \/ empty
             todo == proc[p].todo \ {n}
             place == IF skip THEN "next" ELSE "name"
             m == IF skip THEN None ELSE n
             r == [proc[p] EXCEPT !.todo = todo, !.name = m, !.pc = place]
  <2>1. proc[p].todo \subseteq Names
    BY <1>1 DEF Commands
  <2>2. n \in Names /\ todo \in SUBSET Names /\ place \in {"next", "name"}
        /\ m \in Names \union {None}
    BY <2>1
  <2>3. r \in Commands /\ proc' = [proc EXCEPT ![p] = r]
    BY <1>1, <1>3, <2>2 DEF Commands, Places
  <2>4. r.op = proc[p].op /\ r.name = m /\ r.key = proc[p].key /\ r.pc = place
    BY <1>1 DEF Commands
  <2>5. Placed(r)
    BY <1>1, <2>2, <2>4 DEF Placed, InitPlaces
  <2> QED
    BY <2>2, <2>3, <2>5 DEF Becomes
<1> QED
  BY <1>2, <1>3 DEF NextName

LEMMA ActionBecomes ==
    ASSUME proc \in [Procs -> Commands], PlacesInv, NEW p \in Procs,
           \/ \E op \in Ops, n \in Names : Start(p, op, n)
           \/ Open(p) \/ ReadIdentity(p) \/ CreateIdentity(p) \/ InitStore(p)
           \/ ReadValue(p) \/ TakeName(p) \/ Store(p) \/ Revoke(p) \/ Delete(p) \/ Log(p)
           \/ Resolve(p) \/ ChildExits(p) \/ NextName(p) \/ Kill(p)
    PROVE  \E r : Becomes(p, r)
<1>1. CASE \E op \in Ops, n \in Names : Start(p, op, n)
  BY <1>1, StartBecomes
<1>2. CASE Open(p) \/ ReadIdentity(p) \/ CreateIdentity(p) \/ InitStore(p)
  BY <1>2, OpenBecomes, ReadIdentityBecomes, InitBecomes
<1>3. CASE ReadValue(p)
  BY <1>3, GoesTo, DoneBecomes DEF ReadValue
<1>4. CASE TakeName(p)
  BY <1>4, GoesTo, DoneBecomes DEF TakeName
<1>5. CASE Store(p)
  BY <1>5, GoesTo, DoneBecomes DEF Store
<1>6. CASE Revoke(p)
  BY <1>6, GoesTo, DoneBecomes DEF Revoke
<1>7. CASE Delete(p)
  BY <1>7, GoesTo DEF Delete
<1>8. CASE Log(p)
  <2>1. At(p, "logInit") => proc[p].op # "migrate"
    BY DEF PlacesInv, Placed, At, InitPlaces
  <2> QED
    BY <1>8, <2>1, GoesTo, DoneBecomes DEF Log
<1>9. CASE Resolve(p)
  BY <1>9, GoesTo, DoneBecomes DEF Resolve
<1>10. CASE ChildExits(p) \/ Kill(p)
  BY <1>10, DoneBecomes DEF ChildExits, Kill
<1>11. CASE NextName(p)
  BY <1>11, NextNameBecomes
<1> QED
  BY <1>1, <1>2, <1>3, <1>4, <1>5, <1>6, <1>7, <1>8, <1>9, <1>10, <1>11, Zenon

LEMMA PlacesStep ==
    ASSUME proc \in [Procs -> Commands], PlacesInv, [Next]_vars
    PROVE  proc' \in [Procs -> Commands] /\ PlacesInv'
<1>1. ASSUME NEW broken, BreakIdentity(broken)
      PROVE  proc' = proc
  BY <1>1 DEF BreakIdentity
<1>2. CASE proc' = proc
  BY <1>2 DEF PlacesInv
<1>3. ASSUME NEW p \in Procs, NEW r, Becomes(p, r)
      PROVE  proc' \in [Procs -> Commands] /\ PlacesInv'
  BY <1>3, BecomesKeeps
<1>4. CASE UNCHANGED vars
  BY <1>2, <1>4 DEF vars
<1> QED
  BY <1>1, <1>2, <1>3, <1>4, ActionBecomes, Zenon DEF Next

-----------------------------------------------------------------------------
(* The layers of the invariant.                                            *)

LEMMA TypeStep ==
    ASSUME TypeOK, PlacesInv, [Next]_vars
    PROVE  TypeOK'
<1> USE VaultAssumption DEF VaultAssumption
<1>1. proc \in [Procs -> Commands]
  BY DEF TypeOK, Commands
<1>2. proc' \in [Procs -> Commands]
  BY <1>1, PlacesStep
<1>3. ASSUME NEW p \in Procs, At(p, "store") \/ At(p, "log") \/ At(p, "name") \/ At(p, "delete")
                              \/ At(p, "revoke")
      PROVE  proc[p].name \in Names /\ proc[p].op \in Ops
  BY <1>1, <1>3 DEF PlacesInv, Placed, At, Commands, InitPlaces
<1> DEFINE Rest == /\ identity' \in Keys \union {Missing, Unusable}
                   /\ vault' \in BOOLEAN
                   /\ spaces' \in [Names -> Statuses]
                   /\ creds' \in [Names -> Keys \union {None}]
                   /\ commands' \in 0..MaxCommands /\ edits' \in 0..MaxEdits
                   /\ born' \subseteq Keys /\ crossed' \in BOOLEAN
                   /\ torn' \subseteq Names /\ late' \subseteq Names
                   /\ events' \union changes' \subseteq Ops \X (Names \union {None})
<1>4. ASSUME NEW p \in Procs, NEW op \in Ops, NEW n \in Names, Start(p, op, n)
      PROVE  Rest
  BY <1>4 DEF TypeOK, Start, files
<1>5. ASSUME NEW p \in Procs, Open(p) \/ ReadIdentity(p) \/ ReadValue(p) \/ Resolve(p)
                              \/ ChildExits(p) \/ NextName(p)
      PROVE  Rest
  BY <1>5 DEF TypeOK, Open, ReadIdentity, ReadValue, Resolve, ChildExits, NextName, files, counts
<1>6. ASSUME NEW p \in Procs, CreateIdentity(p) PROVE Rest
  BY <1>6 DEF TypeOK, CreateIdentity
<1>7. ASSUME NEW p \in Procs, InitStore(p) PROVE Rest
  <2>1. changes' \subseteq changes \union {<<"init", None>>}
    BY <1>7 DEF InitStore
  <2>2. <<"init", None>> \in Ops \X (Names \union {None})
    BY DEF Ops
  <2> QED
    BY <1>7, <2>1, <2>2 DEF TypeOK, InitStore, counts
<1>8. ASSUME NEW p \in Procs, TakeName(p) \/ Revoke(p) PROVE Rest
  BY <1>3, <1>8 DEF TypeOK, TakeName, Revoke, Statuses, counts
<1>9. ASSUME NEW p \in Procs, Store(p) PROVE Rest
  <2>1. proc[p].name \in Names /\ proc[p].op \in Ops /\ proc[p].key \in Keys \union {None}
    BY <1>1, <1>3, <1>9 DEF Store, Commands
  <2>2. changes' \subseteq changes \union {<<proc[p].op, proc[p].name>>}
    BY <1>9 DEF Store
  <2> QED
    BY <1>9, <2>1, <2>2 DEF TypeOK, Store, counts
<1>10. ASSUME NEW p \in Procs, Delete(p) PROVE Rest
  <2>1. proc[p].name \in Names
    BY <1>3, <1>10 DEF Delete
  <2> QED
    BY <1>10, <2>1 DEF TypeOK, Delete, counts, Ops
<1>11. ASSUME NEW p \in Procs, Log(p) PROVE Rest
  <2>1. Pending(p) \subseteq Ops \X (Names \union {None})
    BY <1>3, <1>11 DEF Log, Pending, Ops
  <2> QED
    BY <1>11, <2>1 DEF TypeOK, Log, counts
<1>12. ASSUME NEW p \in Procs, Kill(p) PROVE Rest
  <2>1. torn' \subseteq Names
    BY <1>3, <1>12 DEF TypeOK, Kill
  <2> QED
    BY <1>12, <2>1 DEF TypeOK, Kill, files, counts
<1>13. ASSUME NEW broken \in {Missing, Unusable}, BreakIdentity(broken) PROVE Rest
  BY <1>13 DEF TypeOK, BreakIdentity
<1>14. CASE UNCHANGED vars
  BY <1>14 DEF TypeOK, vars, files, counts
<1>15. Rest
  BY <1>4, <1>5, <1>6, <1>7, <1>8, <1>9, <1>10, <1>11, <1>12, <1>13, <1>14, Zenon
     DEF Next, TypeOK, vars, files, counts
<1> QED
  BY <1>2, <1>15 DEF TypeOK, Commands

\* A namespace and the command that owes it a credential, or its removal.
LEMMA PartsStep ==
    ASSUME TypeOK, PlacesInv, PartsInv, [Next]_vars
    PROVE  PartsInv'
<1> USE VaultAssumption DEF VaultAssumption
<1>1. proc \in [Procs -> Commands]
  BY DEF TypeOK, Commands
\* A step that leaves the vault alone, and ends no command that owes something.
<1>2. ASSUME spaces' = spaces, creds' = creds, torn \subseteq torn', late' = late,
             \A p \in Procs : (At(p, "store") /\ proc[p].op # "rotate") \/ At(p, "delete") =>
                 \/ proc'[p] = proc[p]
                 \/ proc[p].name \in torn',
             \A p \in Procs : At(p, "delete")' => proc'[p] = proc[p]
      PROVE  PartsInv'
  BY <1>2 DEF PartsInv, Stores, Deletes, At
\* So is a step of a command that owes nothing, and owes nothing of a revoke after it.
<1>3. ASSUME NEW p \in Procs, NEW r, Becomes(p, r), r.pc # "delete",
             ~At(p, "store"), ~At(p, "delete"),
             spaces' = spaces, creds' = creds, torn' = torn, late' = late
      PROVE  PartsInv'
  BY <1>1, <1>2, <1>3, BecomesKeeps DEF At
<1>4. \A p \in Procs : Placed(proc[p]) /\ proc[p] \in Commands
  BY <1>1 DEF PlacesInv
<1>5. ASSUME NEW p \in Procs, NEW op \in Ops, NEW n \in Names, Start(p, op, n)
      PROVE  PartsInv'
  BY <1>1, <1>3, <1>5, StartBecomes DEF Start, At, files
<1>6. ASSUME NEW p \in Procs, Open(p) PROVE PartsInv'
  <2>1. First(proc[p].op) # "delete"
    BY DEF First
  <2>2. [proc[p] EXCEPT !.key = identity, !.pc = First(proc[p].op)].pc = First(proc[p].op)
    BY <1>4 DEF Commands
  <2> QED
    BY <1>1, <1>3, <1>6, <2>1, <2>2, OpenBecomes DEF Open, At, files, Idle
<1>7. ASSUME NEW p \in Procs, ReadIdentity(p) PROVE PartsInv'
  BY <1>1, <1>3, <1>4, <1>7, ReadIdentityBecomes DEF ReadIdentity, At, files, Idle, Commands
<1>8. ASSUME NEW p \in Procs, CreateIdentity(p) \/ InitStore(p) PROVE PartsInv'
  BY <1>1, <1>3, <1>4, <1>8, InitBecomes
     DEF CreateIdentity, InitStore, At, Idle, Commands, counts
<1>9. ASSUME NEW p \in Procs, ReadValue(p) \/ Log(p) \/ Resolve(p) \/ ChildExits(p)
      PROVE  PartsInv'
  <2>1. ~At(p, "store") /\ ~At(p, "delete")
        /\ spaces' = spaces /\ creds' = creds /\ torn' = torn /\ late' = late
    BY <1>9 DEF ReadValue, Log, Resolve, ChildExits, At, files
  <2>2. ASSUME NEW place \in Places \ {"delete"}, Goto(p, place) PROVE PartsInv'
    BY <1>1, <1>2, <2>1, <2>2 DEF Goto, At, Commands
  <2>3. ASSUME Done(p) PROVE PartsInv'
    BY <1>1, <1>3, <2>1, <2>3, DoneBecomes DEF Idle
  <2> QED
    BY <1>9, <2>2, <2>3 DEF ReadValue, Log, Resolve, ChildExits, Places
<1>10. ASSUME NEW p \in Procs, NextName(p) PROVE PartsInv'
  <2>1. ~At(p, "store") /\ ~At(p, "delete")
        /\ spaces' = spaces /\ creds' = creds /\ torn' = torn /\ late' = late
    BY <1>10 DEF NextName, At, files
  <2>2. CASE Becomes(p, Idle)
    BY <1>3, <2>1, <2>2 DEF Idle
  <2>3. ASSUME NEW n, NEW todo, NEW place \in {"next", "name"},
               Becomes(p, [proc[p] EXCEPT !.todo = todo, !.name = n, !.pc = place])
        PROVE  PartsInv'
    <3>1. [proc[p] EXCEPT !.todo = todo, !.name = n, !.pc = place].pc = place
      BY <1>4 DEF Commands
    <3> QED
      BY <1>3, <2>1, <2>3, <3>1
  <2> QED
    BY <1>1, <1>10, <2>2, <2>3, NextNameBecomes
<1>11. ASSUME NEW p \in Procs, TakeName(p) PROVE PartsInv'
  <2> DEFINE n == proc[p].name
  <2>1. n \in Names /\ proc[p].pc = "name" /\ proc[p].op \in {"register", "migrate"}
    BY <1>4, <1>11 DEF TakeName, Placed, At
  <2>2. /\ spaces' = [spaces EXCEPT ![n] = IF @ = "absent" THEN "active" ELSE @]
        /\ creds' = creds /\ torn' = torn /\ late' = late
        /\ \A q \in Procs \ {p} : proc'[q] = proc[q]
        /\ proc'[p].pc # "delete"
        /\ spaces[n] = "absent" => \A m : m = n => Stores(p, m)'
    BY <1>1, <1>11, <2>1 DEF TakeName, Goto, Done, Idle, Stores, At, Commands
  <2>4. \A q \in Procs, m \in Names : /\ Stores(q, m) => Stores(q, m)'
                                      /\ Deletes(q, m) => Deletes(q, m)'
    BY <2>1, <2>2 DEF Stores, Deletes, At
  <2>5. \A m \in Names : /\ spaces'[m] = "revoked" <=> spaces[m] = "revoked"
                         /\ spaces'[m] = "active" => spaces[m] = "active" \/ (m = n /\ spaces[n] = "absent")
    <3>1. /\ \A m \in Names \ {n} : spaces'[m] = spaces[m]
          /\ spaces'[n] = IF spaces[n] = "absent" THEN "active" ELSE spaces[n]
      BY <2>1, <2>2 DEF TypeOK
    <3> QED
      BY <3>1
  <2>6. \A q \in Procs : At(q, "delete")' => spaces'[proc'[q].name] = "revoked"
    <3>1. ASSUME NEW q \in Procs, At(q, "delete")' PROVE spaces'[proc'[q].name] = "revoked"
      <4>1. proc'[q] = proc[q] /\ At(q, "delete")
        BY <2>2, <3>1 DEF At
      <4> QED
        BY <1>4, <2>5, <4>1 DEF PartsInv, Placed, At
    <3> QED
      BY <3>1
  <2> QED
    BY <2>2, <2>4, <2>5, <2>6 DEF PartsInv
<1>12. ASSUME NEW p \in Procs, Store(p) PROVE PartsInv'
  <2> DEFINE n == proc[p].name
  <2>1. n \in Names /\ proc[p].pc = "store" /\ proc[p].key \in Keys
    BY <1>4, <1>12 DEF Store, Placed, At, Commands
  <2>2. CASE proc[p].op = "rotate" /\ creds[n] = None
    <3>1. /\ spaces' = spaces /\ creds' = creds /\ torn' = torn /\ late' = late
          /\ \A q \in Procs \ {p} : proc'[q] = proc[q]
          /\ proc'[p].pc = "idle"
      BY <1>1, <1>12, <2>2 DEF Store, Done, Idle, counts
    <3> QED
      BY <1>2, <2>1, <2>2, <3>1 DEF At
  <2>3. CASE ~(proc[p].op = "rotate" /\ creds[n] = None)
    <3>1. /\ spaces' = spaces /\ torn' = torn
          /\ creds' = [creds EXCEPT ![n] = proc[p].key]
          /\ late \subseteq late' /\ (spaces[n] = "revoked" => n \in late')
          /\ \A q \in Procs \ {p} : proc'[q] = proc[q]
          /\ proc'[p].pc = "log"
      BY <1>1, <1>12, <2>3 DEF Store, Goto, counts, Commands
    <3>2. \A q \in Procs, m \in Names : /\ Stores(q, m) => Stores(q, m)' \/ m = n
                                        /\ Deletes(q, m) => Deletes(q, m)'
      BY <2>1, <3>1 DEF Stores, Deletes, At
    <3>3. creds'[n] # None /\ \A m \in Names \ {n} : creds'[m] = creds[m]
      BY <2>1, <3>1 DEF TypeOK
    <3>4. \A q \in Procs : At(q, "delete")' => At(q, "delete") /\ proc'[q] = proc[q]
      BY <3>1 DEF At
    <3> QED
      BY <3>1, <3>2, <3>3, <3>4 DEF PartsInv, At
  <2> QED
    BY <2>2, <2>3
<1>13. ASSUME NEW p \in Procs, Revoke(p) PROVE PartsInv'
  <2> DEFINE n == proc[p].name
  <2>1. n \in Names /\ proc[p].pc = "revoke"
    BY <1>4, <1>13 DEF Revoke, Placed, At
  <2>2. /\ spaces' = [spaces EXCEPT ![n] = IF @ = "active" THEN "revoked" ELSE @]
        /\ creds' = creds /\ torn' = torn /\ late' = late
        /\ \A q \in Procs \ {p} : proc'[q] = proc[q]
        /\ spaces[n] = "active" => proc'[p].pc = "delete" /\ proc'[p].name = n
        /\ spaces[n] # "active" => proc'[p].pc = "idle"
    BY <1>1, <1>13 DEF Revoke, Goto, Done, Idle, counts, Commands
  <2>3. \A q \in Procs, m \in Names : /\ Stores(q, m) => Stores(q, m)'
                                      /\ Deletes(q, m) => Deletes(q, m)'
    BY <2>1, <2>2 DEF Stores, Deletes, At
  <2>4. spaces[n] = "active" => Deletes(p, n)'
    BY <2>2 DEF Deletes, At
  <2>5. \A m \in Names : /\ spaces[m] = "revoked" => spaces'[m] = "revoked"
                         /\ spaces'[m] = "active" => spaces[m] = "active"
                         /\ spaces'[m] = "revoked" => spaces[m] = "revoked" \/ (m = n /\ spaces[n] = "active")
    BY <2>1, <2>2 DEF TypeOK
  <2>6. \A q \in Procs : At(q, "delete")' => spaces'[proc'[q].name] = "revoked"
    <3>1. ASSUME NEW q \in Procs, q # p, At(q, "delete")' PROVE spaces'[proc'[q].name] = "revoked"
      <4>1. proc'[q] = proc[q] /\ At(q, "delete") /\ proc[q].name \in Names
        BY <1>4, <2>2, <3>1 DEF At, Placed
      <4> QED
        BY <2>5, <4>1 DEF PartsInv
    <3>2. At(p, "delete")' => spaces'[proc'[p].name] = "revoked"
      BY <2>1, <2>2 DEF At, TypeOK
    <3> QED
      BY <3>1, <3>2
  <2> QED
    BY <2>2, <2>3, <2>4, <2>5, <2>6 DEF PartsInv
<1>14. ASSUME NEW p \in Procs, Delete(p) PROVE PartsInv'
  <2> DEFINE n == proc[p].name
  <2>1. n \in Names /\ proc[p].pc = "delete"
    BY <1>4, <1>14 DEF Delete, Placed, At
  <2>2. /\ spaces' = spaces /\ torn' = torn /\ late' = late
        /\ creds' = [creds EXCEPT ![n] = None]
        /\ \A q \in Procs \ {p} : proc'[q] = proc[q]
        /\ proc'[p].pc = "log"
    BY <1>1, <1>14 DEF Delete, Goto, counts, Commands
  <2>3. \A q \in Procs, m \in Names : /\ Stores(q, m) => Stores(q, m)'
                                      /\ Deletes(q, m) => Deletes(q, m)' \/ m = n
    BY <2>1, <2>2 DEF Stores, Deletes, At
  <2>4. spaces[n] = "revoked"
    BY <1>14 DEF PartsInv, Delete
  <2>5. creds'[n] = None /\ \A m \in Names \ {n} : creds'[m] = creds[m]
    BY <2>1, <2>2 DEF TypeOK
  <2>6. \A q \in Procs : At(q, "delete")' => At(q, "delete") /\ proc'[q] = proc[q]
    BY <2>2 DEF At
  <2> QED
    BY <2>2, <2>3, <2>4, <2>5, <2>6 DEF PartsInv, At
<1>15. ASSUME NEW p \in Procs, Kill(p) PROVE PartsInv'
  <2>1. /\ spaces' = spaces /\ creds' = creds /\ torn \subseteq torn' /\ late' = late
        /\ \A q \in Procs \ {p} : proc'[q] = proc[q]
        /\ proc'[p].pc = "idle"
        /\ (At(p, "store") /\ proc[p].op # "rotate") \/ At(p, "delete") => proc[p].name \in torn'
    BY <1>1, <1>15 DEF Kill, Done, Idle, files
  <2> QED
    BY <1>2, <2>1 DEF At
<1>16. ASSUME NEW broken, BreakIdentity(broken) PROVE PartsInv'
  BY <1>2, <1>16 DEF BreakIdentity
<1>17. CASE UNCHANGED vars
  BY <1>2, <1>17 DEF vars, files
<1> QED
  BY <1>5, <1>6, <1>7, <1>8, <1>9, <1>10, <1>11, <1>12, <1>13, <1>14, <1>15, <1>16, <1>17, Zenon
     DEF Next

\* One key, and what must not be there before it.
LEMMA KeyStep ==
    ASSUME TypeOK, PlacesInv, KeyInv, [Next]_vars
    PROVE  KeyInv'
<1> USE VaultAssumption DEF VaultAssumption
<1> SUFFICES ASSUME ~crossed'
             PROVE  /\ Alone'
                    /\ \E k \in Keys \union {None} : OnlyKey(k)'
                    /\ ~vault' => /\ \A n \in Names : creds'[n] = None
                                  /\ \A p \in Procs : proc'[p].key # None => proc'[p].op = "init"
                    /\ \A p \in Procs : At(p, "createIdentity")' => identity' \notin Keys /\ ~vault'
  BY DEF KeyInv
<1> DEFINE Good == /\ Alone'
                   /\ \E k \in Keys \union {None} : OnlyKey(k)'
                   /\ ~vault' => /\ \A n \in Names : creds'[n] = None
                                 /\ \A p \in Procs : proc'[p].key # None => proc'[p].op = "init"
                   /\ \A p \in Procs : At(p, "createIdentity")' => identity' \notin Keys /\ ~vault'
<1>1. proc \in [Procs -> Commands] /\ \A p \in Procs : Placed(proc[p]) /\ proc[p] \in Commands
  BY DEF TypeOK, Commands, PlacesInv
<1>2. ~crossed
  BY DEF Next, Start, Open, ReadIdentity, CreateIdentity, InitStore, ReadValue, TakeName, Store,
         Revoke, Delete, Log, Resolve, ChildExits, NextName, Kill, BreakIdentity, vars, counts, TypeOK
<1>3. /\ Alone
      /\ ~vault => /\ \A n \in Names : creds[n] = None
                   /\ \A p \in Procs : proc[p].key # None => proc[p].op = "init"
      /\ \A p \in Procs : At(p, "createIdentity") => identity \notin Keys /\ ~vault
  BY <1>2 DEF KeyInv
<1>4. PICK k \in Keys \union {None} : OnlyKey(k)
  BY <1>2 DEF KeyInv
\* A step that draws no key: each command keeps its own, or ends, or takes the identity's.
<1>5. ASSUME identity' = identity \/ identity' \notin Keys,
             \A n \in Names : creds'[n] \in {k, None},
             ~vault' => ~vault /\ creds' = creds,
             \A p \in Procs :
                 /\ proc'[p].key \in {k, None}
                 /\ proc'[p].op = "init" => proc[p].op = "init"
                 /\ ~vault' /\ proc'[p].key # None => proc'[p].op = "init"
                 /\ At(p, "createIdentity")' => At(p, "createIdentity") /\ ~vault'
      PROVE  Good
  <2>1. Alone'
    BY <1>3, <1>5 DEF Alone
  <2>2. OnlyKey(k)'
    BY <1>4, <1>5 DEF OnlyKey
  <2>3. \A p \in Procs : At(p, "createIdentity")' => identity' \notin Keys /\ ~vault'
    BY <1>3, <1>5
  <2>4. ~vault' => \A n \in Names : creds'[n] = None
    BY <1>3, <1>5
  <2> QED
    BY <1>5, <2>1, <2>2, <2>3, <2>4
\* In particular a step of one command that leaves the identity, the vault and its keys alone.
<1>6. ASSUME NEW p \in Procs, NEW r, Becomes(p, r), r.op \in {proc[p].op, None},
             r.key \in {proc[p].key, None}, r.pc # "createIdentity",
             UNCHANGED <<identity, vault, creds>>
      PROVE  Good
  <2>1. proc'[p] = r /\ \A q \in Procs \ {p} : proc'[q] = proc[q]
    BY <1>1, <1>6, BecomesKeeps DEF PlacesInv
  <2>2. r.key # None => r.op = proc[p].op
    BY <1>6, IdleIsPlaced DEF Becomes, Placed
  <2>3. \A q \in Procs :
                 /\ proc'[q].key \in {k, None}
                 /\ proc'[q].op = "init" => proc[q].op = "init"
                 /\ ~vault' /\ proc'[q].key # None => proc'[q].op = "init"
                 /\ At(q, "createIdentity")' => At(q, "createIdentity") /\ ~vault'
    BY <1>3, <1>4, <1>6, <2>1, <2>2 DEF OnlyKey, At, Ops
  <2> QED
    BY <1>4, <1>5, <1>6, <2>3 DEF OnlyKey
<1> HIDE DEF Good
<1>7. ASSUME NEW p \in Procs, Done(p), UNCHANGED <<identity, vault, creds>>
      PROVE  Good
  BY <1>6, <1>7, DoneBecomes DEF Idle
<1>8. ASSUME NEW p \in Procs, NEW place \in Places \ {"createIdentity"}, Goto(p, place),
             UNCHANGED <<identity, vault, creds>>
      PROVE  Good
  <2>1. /\ \A q \in Procs \ {p} : proc'[q] = proc[q]
        /\ proc'[p].op = proc[p].op /\ proc'[p].key = proc[p].key /\ proc'[p].pc = place
    BY <1>1, <1>8 DEF Goto, Commands
  <2>2. \A q \in Procs :
            /\ proc'[q].key \in {k, None}
            /\ proc'[q].op = "init" => proc[q].op = "init"
            /\ ~vault' /\ proc'[q].key # None => proc'[q].op = "init"
            /\ At(q, "createIdentity")' => At(q, "createIdentity") /\ ~vault'
    BY <1>3, <1>4, <1>8, <2>1 DEF OnlyKey, At
  <2> QED
    BY <1>4, <1>5, <1>8, <2>2 DEF OnlyKey
<1>9. ASSUME NEW p \in Procs, NEW op \in Ops, NEW n \in Names, Start(p, op, n)
      PROVE  Good
  <2> DEFINE r == [pc |-> IF op = "init" THEN "readIdentity" ELSE "open", op |-> op,
                   name |-> IF op \in {"init", "migrate"} THEN None ELSE n, key |-> None,
                   todo |-> IF op = "migrate" THEN Secrets ELSE {}]
  <2>1. Becomes(p, r) /\ r.op = op /\ r.key = None /\ r.pc # "createIdentity"
    BY <1>1, <1>9, StartBecomes
  <2> HIDE DEF r
  <2>2. proc'[p] = r /\ \A q \in Procs \ {p} : proc'[q] = proc[q]
    BY <1>1, <2>1, BecomesKeeps DEF PlacesInv
  <2>3. op = "init" => \A q \in Procs : proc[q].op # "init"
    BY <1>9 DEF Start
  <2>4. UNCHANGED <<identity, vault, creds>>
    BY <1>9 DEF Start, files
  <2>5. Alone'
    BY <1>3, <2>1, <2>2, <2>3 DEF Alone
  <2>6. OnlyKey(k)'
    BY <1>4, <2>1, <2>2, <2>4 DEF OnlyKey
  <2>7. ~vault' => \A q \in Procs : proc'[q].key # None => proc'[q].op = "init"
    BY <1>3, <2>1, <2>2, <2>4
  <2>8. \A q \in Procs : At(q, "createIdentity")' => identity' \notin Keys /\ ~vault'
    BY <1>3, <2>1, <2>2, <2>4 DEF At
  <2> QED
    BY <1>3, <2>4, <2>5, <2>6, <2>7, <2>8 DEF Good
<1>10. ASSUME NEW p \in Procs, Open(p) PROVE Good
  <2>1. UNCHANGED <<identity, vault, creds>>
    BY <1>10 DEF Open, files
  <2>2. CASE Becomes(p, Idle)
    BY <1>6, <2>1, <2>2 DEF Idle
  <2>3. ASSUME vault, identity \in Keys,
               Becomes(p, [proc[p] EXCEPT !.key = identity, !.pc = First(proc[p].op)])
        PROVE  Good
    <3> DEFINE r == [proc[p] EXCEPT !.key = identity, !.pc = First(proc[p].op)]
    <3>1. proc'[p] = r /\ \A q \in Procs \ {p} : proc'[q] = proc[q]
      BY <1>1, <2>3, BecomesKeeps DEF PlacesInv
    <3>2. r.op = proc[p].op /\ r.key = k /\ r.pc # "createIdentity"
      BY <1>1, <1>4, <2>3 DEF Commands, OnlyKey, First
    <3>3. \A q \in Procs :
              /\ proc'[q].key \in {k, None}
              /\ proc'[q].op = "init" => proc[q].op = "init"
              /\ ~vault' /\ proc'[q].key # None => proc'[q].op = "init"
              /\ At(q, "createIdentity")' => At(q, "createIdentity") /\ ~vault'
      BY <1>3, <1>4, <2>1, <2>3, <3>1, <3>2 DEF OnlyKey, At
    <3> QED
      BY <1>4, <1>5, <2>1, <3>3 DEF OnlyKey
  <2> QED
    BY <1>1, <1>10, <2>2, <2>3, OpenBecomes DEF PlacesInv
<1>11. ASSUME NEW p \in Procs, ReadIdentity(p) PROVE Good
  <2>1. UNCHANGED <<identity, vault, creds>> /\ proc[p].op = "init" /\ proc[p].key = None
    BY <1>1, <1>11 DEF ReadIdentity, files, Placed, InitPlaces, At
  <2>2. CASE Becomes(p, Idle)
    BY <1>6, <2>1, <2>2 DEF Idle
  <2>3. ASSUME identity \in Keys, Becomes(p, [proc[p] EXCEPT !.key = identity, !.pc = "initStore"])
        PROVE  Good
    <3>1. /\ proc'[p] = [proc[p] EXCEPT !.key = identity, !.pc = "initStore"]
          /\ \A q \in Procs \ {p} : proc'[q] = proc[q]
      BY <1>1, <2>3, BecomesKeeps DEF PlacesInv
    <3>2. proc'[p].op = "init" /\ proc'[p].key = k /\ proc'[p].pc = "initStore"
      BY <1>1, <1>4, <2>1, <2>3, <3>1 DEF Commands, OnlyKey
    <3>3. \A q \in Procs :
              /\ proc'[q].key \in {k, None}
              /\ proc'[q].op = "init" => proc[q].op = "init"
              /\ ~vault' /\ proc'[q].key # None => proc'[q].op = "init"
              /\ At(q, "createIdentity")' => At(q, "createIdentity") /\ ~vault'
      BY <1>3, <1>4, <2>1, <3>1, <3>2 DEF OnlyKey, At
    <3> QED
      BY <1>4, <1>5, <2>1, <3>3 DEF OnlyKey
  <2>4. ASSUME identity \notin Keys, ~vault, Becomes(p, [proc[p] EXCEPT !.pc = "createIdentity"])
        PROVE  Good
    <3>1. /\ proc'[p] = [proc[p] EXCEPT !.pc = "createIdentity"]
          /\ \A q \in Procs \ {p} : proc'[q] = proc[q]
      BY <1>1, <2>4, BecomesKeeps DEF PlacesInv
    <3>2. proc'[p].op = "init" /\ proc'[p].key = None
      BY <1>1, <2>1, <3>1 DEF Commands
    <3>3. Alone'
      BY <1>3, <2>1, <3>1, <3>2 DEF Alone
    <3>4. OnlyKey(k)'
      BY <1>4, <2>1, <3>1, <3>2 DEF OnlyKey
    <3>5. \A q \in Procs : proc'[q].key # None => proc'[q].op = "init"
      BY <1>3, <2>4, <3>1, <3>2
    <3> QED
      BY <1>3, <2>1, <2>4, <3>3, <3>4, <3>5 DEF Good
  <2> QED
    BY <1>1, <1>11, <2>2, <2>3, <2>4, ReadIdentityBecomes DEF PlacesInv
<1>12. ASSUME NEW p \in Procs, CreateIdentity(p) PROVE Good
  <2>1. /\ identity' \in Keys /\ vault' = vault /\ creds' = creds
        /\ proc[p].pc = "createIdentity" /\ proc[p].op = "init" /\ ~vault
    BY <1>1, <1>3, <1>12 DEF CreateIdentity, At, Placed, InitPlaces
  <2>2. /\ proc'[p] = [proc[p] EXCEPT !.key = identity', !.pc = "initStore"]
        /\ \A q \in Procs \ {p} : proc'[q] = proc[q]
    BY <1>1, <1>12, InitBecomes, BecomesKeeps DEF PlacesInv
  <2>3. proc'[p].op = "init" /\ proc'[p].key = identity' /\ proc'[p].pc = "initStore"
    BY <1>1, <2>1, <2>2 DEF Commands
  <2>4. \A q \in Procs \ {p} : proc'[q].op # "init" /\ proc'[q].key = None
    BY <1>3, <2>1, <2>2 DEF Alone
  <2>5. Alone'
    BY <2>4 DEF Alone
  <2>6. OnlyKey(identity)'
    BY <1>3, <2>1, <2>3, <2>4 DEF OnlyKey
  <2>7. \A q \in Procs : /\ proc'[q].key # None => proc'[q].op = "init"
                         /\ ~At(q, "createIdentity")'
    <3>1. \A q \in Procs \ {p} : ~At(q, "createIdentity")'
      BY <1>1, <2>2, <2>4 DEF At, Placed, InitPlaces
    <3> QED
      BY <2>3, <2>4, <3>1 DEF At
  <2>8. \E k2 \in Keys \union {None} : OnlyKey(k2)'
    BY <2>1, <2>6
  <2> QED
    BY <1>3, <2>1, <2>5, <2>7, <2>8 DEF Good
<1>13. ASSUME NEW p \in Procs, InitStore(p) PROVE Good
  <2>1. /\ identity' = identity /\ vault' /\ creds' = creds
        /\ proc[p].pc = "initStore" /\ proc[p].op = "init"
    BY <1>1, <1>13 DEF InitStore, At, Placed, InitPlaces, counts
  <2>2. /\ \A q \in Procs \ {p} : proc'[q] = proc[q]
        /\ proc'[p].op \in {"init", None} /\ proc'[p].key \in {proc[p].key, None}
        /\ proc'[p].pc # "createIdentity"
    BY <1>1, <1>13, <2>1 DEF InitStore, Goto, Done, Idle, Commands
  <2>3. \A q \in Procs \ {p} : ~At(q, "createIdentity")'
    BY <1>1, <1>3, <2>1, <2>2 DEF Alone, At, Placed, InitPlaces
  <2>4. \A q \in Procs :
            /\ proc'[q].key \in {k, None}
            /\ proc'[q].op = "init" => proc[q].op = "init"
            /\ ~At(q, "createIdentity")'
    BY <1>4, <2>1, <2>2, <2>3 DEF OnlyKey, At
  <2> QED
    BY <1>4, <1>5, <2>1, <2>4 DEF OnlyKey
<1>14. ASSUME NEW p \in Procs, ReadValue(p) \/ TakeName(p) \/ Revoke(p) \/ Log(p) \/ Resolve(p)
                               \/ ChildExits(p) \/ Kill(p)
      PROVE  Good
  <2>1. UNCHANGED <<identity, vault, creds>>
    BY <1>14 DEF ReadValue, TakeName, Revoke, Log, Resolve, ChildExits, Kill, files
  <2>2. Done(p) \/ \E place \in {"store", "name", "delete", "next", "child"} : Goto(p, place)
    BY <1>14 DEF ReadValue, TakeName, Revoke, Log, Resolve, ChildExits, Kill
  <2> QED
    BY <1>7, <1>8, <2>1, <2>2 DEF Places
<1>15. ASSUME NEW p \in Procs, Store(p) \/ Delete(p) PROVE Good
  <2>1. identity' = identity /\ vault' = vault
        /\ \/ creds' = creds /\ Done(p)
           \/ \E c \in {proc[p].key, None} : creds' = [creds EXCEPT ![proc[p].name] = c]
                                             /\ Goto(p, "log")
    BY <1>15 DEF Store, Delete, counts
  <2>2. /\ proc[p].pc \in {"store", "delete"} /\ proc[p].op # "init"
        /\ proc[p].key # None /\ proc[p].key \in {k, None}
    BY <1>1, <1>4, <1>15 DEF Store, Delete, At, Placed, InitPlaces, OnlyKey
  <2>3. vault /\ vault'
    BY <1>3, <2>1, <2>2
  <2>4. ASSUME NEW c \in {proc[p].key, None}, creds' = [creds EXCEPT ![proc[p].name] = c],
               Goto(p, "log")
        PROVE  Good
    <3>1. /\ \A q \in Procs \ {p} : proc'[q] = proc[q]
          /\ proc'[p].op = proc[p].op /\ proc'[p].key = proc[p].key /\ proc'[p].pc = "log"
      BY <1>1, <2>4 DEF Goto, Commands
    <3>2. \A n \in Names : creds'[n] \in {k, None}
      BY <1>4, <2>2, <2>4 DEF OnlyKey, TypeOK
    <3>3. \A q \in Procs :
              /\ proc'[q].key \in {k, None}
              /\ proc'[q].op = "init" => proc[q].op = "init"
              /\ At(q, "createIdentity")' => At(q, "createIdentity") /\ ~vault'
      BY <1>3, <1>4, <2>3, <3>1 DEF OnlyKey, At
    <3> QED
      BY <1>5, <2>1, <2>3, <3>2, <3>3
  <2> QED
    BY <1>7, <2>1, <2>4
<1>16. ASSUME NEW p \in Procs, NextName(p) PROVE Good
  <2>1. UNCHANGED <<identity, vault, creds>>
    BY <1>16 DEF NextName, files
  <2>2. CASE Becomes(p, Idle)
    BY <1>6, <2>1, <2>2 DEF Idle
  <2>3. ASSUME NEW n, NEW todo, NEW place \in {"next", "name"},
               Becomes(p, [proc[p] EXCEPT !.todo = todo, !.name = n, !.pc = place])
        PROVE  Good
    <3> DEFINE r == [proc[p] EXCEPT !.todo = todo, !.name = n, !.pc = place]
    <3>1. r.op = proc[p].op /\ r.key = proc[p].key /\ r.pc # "createIdentity"
      BY <1>1 DEF Commands
    <3> QED
      BY <1>6, <2>1, <2>3, <3>1
  <2> QED
    BY <1>1, <1>16, <2>2, <2>3, NextNameBecomes DEF PlacesInv
<1>17. ASSUME NEW broken \in {Missing, Unusable}, BreakIdentity(broken) PROVE Good
  <2>1. identity' \notin Keys /\ UNCHANGED <<vault, creds, proc>>
    BY <1>17 DEF BreakIdentity
  <2> QED
    BY <1>3, <1>4, <1>5, <2>1 DEF OnlyKey, At
<1>18. ASSUME UNCHANGED vars PROVE Good
  <2>1. UNCHANGED <<identity, vault, creds, proc>>
    BY <1>18 DEF vars, files
  <2>2. \A q \in Procs :
            /\ proc'[q].key \in {k, None}
            /\ proc'[q].op = "init" => proc[q].op = "init"
            /\ ~vault' /\ proc'[q].key # None => proc'[q].op = "init"
            /\ At(q, "createIdentity")' => At(q, "createIdentity") /\ ~vault'
    BY <1>3, <1>4, <2>1 DEF OnlyKey, At
  <2>3. \A n \in Names : creds'[n] \in {k, None}
    BY <1>4, <2>1 DEF OnlyKey
  <2> QED
    BY <1>5, <2>1, <2>2, <2>3
<1>19. ASSUME Next PROVE Good
  <2>1. ASSUME NEW p \in Procs, \E op \in Ops, n \in Names : Start(p, op, n) PROVE Good
    BY <1>9, <2>1
  <2>2. ASSUME \E broken \in {Missing, Unusable} : BreakIdentity(broken) PROVE Good
    BY <1>17, <2>2
  <2> QED
    BY <1>10, <1>11, <1>12, <1>13, <1>14, <1>15, <1>16, <1>19, <2>1, <2>2 DEF Next
<1>20. Good
  BY <1>18, <1>19
<1> QED
  BY <1>20 DEF Good

\* What was done and not logged is about to be logged.
LEMMA LogStep ==
    ASSUME TypeOK, PlacesInv, LogInv, [Next]_vars
    PROVE  LogInv'
<1>1. proc \in [Procs -> Commands] /\ \A p \in Procs : Placed(proc[p]) /\ proc[p] \in Commands
  BY DEF TypeOK, Commands, PlacesInv
\* A step of a command that had nothing to log and does nothing to log.
<1>2. ASSUME NEW p \in Procs, Pending(p) = {}, \A q \in Procs \ {p} : proc'[q] = proc[q],
             changes' \subseteq changes, events' = events
      PROVE  LogInv'
  <2>1. \A q \in Procs \ {p} : Pending(q)' = Pending(q)
    BY <1>2 DEF Pending, At
  <2> QED
    BY <1>2, <2>1 DEF LogInv
\* A change is made.
<1>3. ASSUME NEW p \in Procs, NEW c, Pending(p) = {}, \A q \in Procs \ {p} : proc'[q] = proc[q],
             changes' = changes \union {c}, events' = events, Pending(p)' = {c}
      PROVE  LogInv'
  <2>1. \A q \in Procs \ {p} : Pending(q)' = Pending(q)
    BY <1>3 DEF Pending, At
  <2> QED
    BY <1>3, <2>1 DEF LogInv
\* What is pending no more is logged, or its command was killed.
<1>4. ASSUME NEW p \in Procs, \A q \in Procs \ {p} : proc'[q] = proc[q],
             events \subseteq events', changes' \subseteq changes,
             changes' \intersect Pending(p) \subseteq events'
      PROVE  LogInv'
  <2>1. \A q \in Procs \ {p} : Pending(q)' = Pending(q)
    BY <1>4 DEF Pending, At
  <2> QED
    BY <1>4, <2>1 DEF LogInv
<1>5. ASSUME NEW p \in Procs, NEW r, Becomes(p, r)
      PROVE  proc'[p] = r /\ \A q \in Procs \ {p} : proc'[q] = proc[q]
  BY <1>1, <1>5, BecomesKeeps DEF PlacesInv
<1>6. ASSUME NEW p \in Procs, NEW op \in Ops, NEW n \in Names, Start(p, op, n)
      PROVE  LogInv'
  <2>1. \E r : Becomes(p, r)
    BY <1>1, <1>6, StartBecomes
  <2>2. Pending(p) = {} /\ UNCHANGED <<changes, events>>
    BY <1>6 DEF Start, Pending, At, files
  <2> QED
    BY <1>2, <1>5, <2>1, <2>2
<1>7. ASSUME NEW p \in Procs, Open(p) \/ ReadIdentity(p) \/ CreateIdentity(p) \/ ReadValue(p)
                              \/ TakeName(p) \/ Revoke(p) \/ Resolve(p) \/ ChildExits(p)
                              \/ NextName(p)
      PROVE  LogInv'
  <2>1. \E r : Becomes(p, r)
    BY <1>1, <1>7, ActionBecomes
  <2>2. Pending(p) = {}
    BY <1>7 DEF Open, ReadIdentity, CreateIdentity, ReadValue, TakeName, Revoke, Resolve,
                ChildExits, NextName, Pending, At
  <2>3. UNCHANGED <<changes, events>>
    BY <1>7 DEF Open, ReadIdentity, CreateIdentity, ReadValue, TakeName, Revoke, Resolve,
                ChildExits, NextName, files
  <2> QED
    BY <1>2, <1>5, <2>1, <2>2, <2>3
<1>8. ASSUME NEW p \in Procs, InitStore(p) PROVE LogInv'
  <2>1. Pending(p) = {} /\ events' = events
    BY <1>8 DEF InitStore, Pending, At
  <2>2. CASE vault
    BY <1>1, <1>2, <1>5, <1>8, <2>1, <2>2, InitBecomes DEF InitStore
  <2>3. CASE ~vault
    <3>1. proc'[p].pc = "logInit"
      BY <1>1, <1>8, <2>3 DEF InitStore, Goto, Commands
    <3>2. Pending(p)' = {<<"init", None>>} /\ changes' = changes \union {<<"init", None>>}
      BY <1>8, <2>3, <3>1 DEF InitStore, Pending, At
    <3> QED
      BY <1>1, <1>3, <1>5, <1>8, <2>1, <2>3, <3>2, InitBecomes
  <2> QED
    BY <2>2, <2>3
<1>9. ASSUME NEW p \in Procs, Store(p) \/ Delete(p) PROVE LogInv'
  <2>1. Pending(p) = {} /\ events' = events
    BY <1>9 DEF Store, Delete, Pending, At
  <2>2. CASE Done(p) /\ changes' = changes
    BY <1>2, <1>5, <2>1, <2>2, DoneBecomes
  <2>3. CASE Goto(p, "log") /\ changes' = changes \union {<<proc[p].op, proc[p].name>>}
    <3>1. /\ proc'[p].pc = "log" /\ proc'[p].op = proc[p].op /\ proc'[p].name = proc[p].name
          /\ \A q \in Procs \ {p} : proc'[q] = proc[q]
      BY <1>1, <2>3 DEF Goto, Commands
    <3>2. Pending(p)' = {<<proc[p].op, proc[p].name>>}
      BY <3>1 DEF Pending, At
    <3> QED
      BY <1>3, <2>1, <2>3, <3>1, <3>2
  <2>4. Delete(p) => proc[p].op = "revoke"
    BY <1>1 DEF Delete, Placed, At
  <2> QED
    BY <1>9, <2>2, <2>3, <2>4 DEF Store, Delete
<1>10. ASSUME NEW p \in Procs, Log(p) PROVE LogInv'
  <2>1. \E r : Becomes(p, r)
    BY <1>1, <1>10, ActionBecomes
  <2>2. events' = events \union Pending(p) /\ changes' = changes
    BY <1>10 DEF Log
  <2> QED
    BY <1>4, <1>5, <2>1, <2>2
<1>11. ASSUME NEW p \in Procs, Kill(p) PROVE LogInv'
  <2>1. \E r : Becomes(p, r)
    BY <1>1, <1>11, ActionBecomes
  <2>2. events' = events /\ changes' = changes \ Pending(p)
    BY <1>11 DEF Kill, files
  <2> QED
    BY <1>4, <1>5, <2>1, <2>2
<1>12. CASE UNCHANGED <<proc, changes, events>>
  BY <1>12 DEF LogInv, Pending, At
<1>13. ASSUME NEW broken, BreakIdentity(broken) PROVE LogInv'
  BY <1>12, <1>13 DEF BreakIdentity
<1>14. CASE UNCHANGED vars
  BY <1>12, <1>14 DEF vars, files
<1> QED
  BY <1>6, <1>7, <1>8, <1>9, <1>10, <1>11, <1>13, <1>14, Zenon DEF Next

-----------------------------------------------------------------------------
(* The theorems.                                                           *)

LEMMA InitInv == Init => VaultInv
<1> SUFFICES ASSUME Init PROVE VaultInv
  OBVIOUS
<1> USE VaultAssumption DEF VaultAssumption, Init
<1>1. TypeOK
  <2>1. proc \in [Procs -> Commands]
    BY IdleIsPlaced
  <2>2. /\ identity \in Keys \union {Missing, Unusable} /\ vault \in BOOLEAN
        /\ spaces \in [Names -> Statuses] /\ creds \in [Names -> Keys \union {None}]
    BY DEF Statuses
  <2>3. commands \in 0..MaxCommands /\ edits \in 0..MaxEdits
    OBVIOUS
  <2>4. born \subseteq Keys /\ crossed \in BOOLEAN /\ torn \subseteq Names /\ late \subseteq Names
    OBVIOUS
  <2>5. events \union changes \subseteq Ops \X (Names \union {None})
    BY Zenon
  <2> QED
    BY <2>1, <2>2, <2>3, <2>4, <2>5, Zenon DEF TypeOK, Commands
<1>2. PlacesInv
  BY IdleIsPlaced DEF PlacesInv
<1>3. PartsInv
  BY DEF PartsInv, At, Idle
<1>4. KeyInv
  BY DEF KeyInv, Alone, OnlyKey, At, Idle, Ops
<1>5. LogInv
  BY DEF LogInv
<1> QED
  BY <1>1, <1>2, <1>3, <1>4, <1>5 DEF VaultInv

LEMMA VaultInvHolds == Spec => []VaultInv
<1>1. VaultInv /\ [Next]_vars => VaultInv'
  BY TypeStep, PlacesStep, PartsStep, KeyStep, LogStep DEF VaultInv, TypeOK, Commands
<1> QED
  BY <1>1, InitInv, PTL DEF Spec

\* Every variable has its shape.
THEOREM TypeCorrect == Spec => []TypeOK
BY VaultInvHolds, PTL DEF VaultInv

\* Unless two inits overlapped, what is stored opens with the identity that is there
\* (vault-core.ts: vaultInit, getVaultStore).
THEOREM StoredOpens == Spec => []CredentialOpens
<1>1. VaultInv => CredentialOpens
  BY VaultAssumption DEF VaultInv, TypeOK, KeyInv, OnlyKey, CredentialOpens, VaultAssumption
<1> QED
  BY <1>1, VaultInvHolds, PTL

\* An active namespace has its credential, or a command that will store it, or was cut in two
\* (vault-core.ts: vaultRegister, vaultMigrate, vaultRevoke).
THEOREM ActiveIsFilled == Spec => []ActiveHasCredential
<1>1. VaultInv => ActiveHasCredential
  BY DEF VaultInv, PartsInv, Stores, ActiveHasCredential
<1> QED
  BY <1>1, VaultInvHolds, PTL

\* A revoked namespace is empty once its revoke has ended (vault-core.ts: vaultRevoke).
THEOREM RevokedIsEmptied == Spec => []RevokedIsEmpty
<1>1. VaultInv => RevokedIsEmpty
  BY DEF VaultInv, PartsInv, Deletes, RevokedIsEmpty
<1> QED
  BY <1>1, VaultInvHolds, PTL

\* What a command changed is in the log once it ends (vault-core.ts: logVaultEvent).
THEOREM LogIsComplete == Spec => []ChangesAreLogged
<1>1. VaultInv => ChangesAreLogged
  BY DEF VaultInv, LogInv, ChangesAreLogged
<1> QED
  BY <1>1, VaultInvHolds, PTL
=============================================================================
