--------------------------- MODULE SecretExposure ---------------------------
(***************************************************************************)
(* Exposed secrets that still need rotating (secret-exposure.ts), as the   *)
(* commands that touch them do it: setSecret, recordExposure and           *)
(* removeSecret of secret-store.ts, and markRedactedSecretsExposed, over   *)
(* the store and the annotation file beside it (secret-annotations.ts).    *)
(*                                                                         *)
(* A command is a process; it awaits the store, and reads and rewrites the *)
(* whole annotation file without a lock.  Of an annotation only the open   *)
(* exposure matters: notes[n] is Absent when there is none, and otherwise  *)
(* the value it is about, which the code does not keep.                    *)
(***************************************************************************)
EXTENDS Integers, FiniteSets

CONSTANTS
    Names, Values,
    Procs,            \* the processes that run commands
    CommandOverlaps,  \* "none": a command starts when no other runs; "any"
    MaxCommands,      \* bound on the commands
    Absent            \* no value, no exposure, no secret

VARIABLES
    overlapping,  \* which commands may overlap in this behaviour
    stored,       \* the value of each name, Absent when it has none
    notes,        \* the open exposure of each name in the annotation file
    cmd,          \* the command of each process
    commands,     \* commands started so far
    stale,        \* history: names whose open exposure is of a value the store lost since
    unmarked      \* history: names a marking said it did not mark, since their last redaction

ASSUME ExposureAssumption ==
    /\ MaxCommands \in Nat
    /\ Absent \notin Values

histories == <<stale, unmarked>>
exposureVars == <<overlapping, stored, notes, cmd, commands, histories>>

NoCommand ==
    [pc |-> "idle", op |-> "none", name |-> Absent, value |-> Absent, closes |-> FALSE,
     spans |-> {}, todo |-> {}, seen |-> Absent]

Idle(p) == cmd[p].pc = "idle"
At(p, pc) == cmd[p].pc = pc
Becomes(p, c) == cmd' = [cmd EXCEPT ![p] = c]

\* No other command is in the middle, where commands may not overlap.
Alone(p) == overlapping = "none" => \A q \in Procs \ {p} : Idle(q) \/ At(q, "load")

MayStart(p) ==
    /\ Idle(p)
    /\ commands < MaxCommands
    /\ Alone(p)

\* setSecret up to its first await: is there an open exposure?  An annotation file that
\* cannot be read is reported, and none is looked for.
SetSecret(p, n, v) ==
    /\ MayStart(p)
    /\ \E readable \in BOOLEAN :
          Becomes(p, [NoCommand EXCEPT
              !.pc = IF readable /\ notes[n] # Absent THEN "compare" ELSE "store",
              !.op = "set", !.name = n, !.value = v])
    /\ commands' = commands + 1
    /\ UNCHANGED <<overlapping, stored, notes, histories>>

\* Mutant of Compare: any set closes an open exposure.
CompareMutAnyValue(p) ==
    /\ At(p, "compare")
    /\ Becomes(p, [cmd[p] EXCEPT !.pc = "store", !.closes = TRUE])
    /\ UNCHANGED <<overlapping, stored, notes, commands, histories>>

\* The stored value is read: a different one closes the exposure.
Compare(p) ==
    /\ At(p, "compare")
    /\ Becomes(p, [cmd[p] EXCEPT !.pc = "store", !.closes = stored[cmd[p].name] # cmd[p].value])
    /\ UNCHANGED <<overlapping, stored, notes, commands, histories>>

\* The value is stored, and then the exposure closed if it is to be.
StoreValue(p) ==
    LET c == cmd[p]
    IN  /\ At(p, "store")
        /\ stored' = [stored EXCEPT ![c.name] = c.value]
        /\ Becomes(p, IF c.closes THEN [c EXCEPT !.pc = "readNotes"] ELSE NoCommand)
        /\ stale' = IF ~c.closes /\ notes[c.name] \notin {Absent, c.value}
                    THEN stale \union {c.name} ELSE stale
        /\ UNCHANGED <<overlapping, notes, commands, unmarked>>

\* removeSecret: the value goes first, and then its annotation.
RemoveSecret(p, n) ==
    /\ MayStart(p)
    /\ Becomes(p, [NoCommand EXCEPT !.pc = "delete", !.op = "remove", !.name = n])
    /\ commands' = commands + 1
    /\ UNCHANGED <<overlapping, stored, notes, histories>>

DeleteValue(p) ==
    /\ At(p, "delete")
    /\ stored' = [stored EXCEPT ![cmd[p].name] = Absent]
    /\ Becomes(p, [cmd[p] EXCEPT !.pc = "readNotes"])
    /\ UNCHANGED <<overlapping, notes, commands, histories>>

\* secret exposed n: recordExposure for one name.
RecordExposure(p, n) ==
    /\ MayStart(p)
    /\ Becomes(p, [NoCommand EXCEPT !.pc = "confirm", !.op = "expose", !.todo = {n}])
    /\ commands' = commands + 1
    /\ UNCHANGED <<overlapping, stored, notes, histories>>

\* markRedactedSecretsExposed begins, for the values in spans.
Marking(spans) == [NoCommand EXCEPT !.pc = "load", !.op = "mark", !.spans = spans]

\* loadSecrets: the names whose value was redacted.
LoadSecrets(p) ==
    /\ At(p, "load") /\ Alone(p)
    /\ Becomes(p, [cmd[p] EXCEPT !.pc = "list",
                                 !.todo = {n \in Names : stored[n] \in cmd[p].spans}])
    /\ UNCHANGED <<overlapping, stored, notes, commands, histories>>

\* What the marking of p has still to mark.
ToMark(p) == {n \in Names : n \in cmd[p].todo \/ (At(p, "load") /\ stored[n] \in cmd[p].spans)}

\* The store or the annotations cannot be read: notChecked is reported, and nothing is marked.
NotChecked(p) ==
    /\ At(p, "load") \/ At(p, "list")
    /\ Becomes(p, NoCommand)
    /\ unmarked' = unmarked \union ToMark(p)
    /\ UNCHANGED <<overlapping, stored, notes, commands, stale>>

\* listAnnotations: what is open already keeps its record.
ListAnnotations(p) ==
    LET rest == {n \in cmd[p].todo : notes[n] = Absent}
    IN  /\ At(p, "list")
        /\ Becomes(p, IF rest = {} THEN NoCommand
                      ELSE [cmd[p] EXCEPT !.pc = "confirm", !.todo = rest])
        /\ UNCHANGED <<overlapping, stored, notes, commands, histories>>

\* The command goes on with the names it has left.
Proceeds(c, left) ==
    IF left = {} THEN NoCommand ELSE [c EXCEPT !.pc = "confirm", !.todo = left, !.seen = Absent]

\* recordExposure: the name must be stored; which value it holds is not compared.
Confirm(p, n) ==
    /\ At(p, "confirm") /\ n \in cmd[p].todo
    /\ Becomes(p, IF stored[n] = Absent THEN Proceeds(cmd[p], cmd[p].todo \ {n})
                  ELSE [cmd[p] EXCEPT !.pc = "readNotes", !.name = n, !.value = stored[n]])
    /\ UNCHANGED <<overlapping, stored, notes, commands, histories>>

\* annotations.update or remove reads the file ...
ReadNotes(p) ==
    /\ At(p, "readNotes")
    /\ Becomes(p, [cmd[p] EXCEPT !.pc = "writeNotes", !.seen = notes])
    /\ UNCHANGED <<overlapping, stored, notes, commands, histories>>

\* ... and renames over it what it read, changed for one name.
WriteNotes(p) ==
    LET c == cmd[p]
    IN  /\ At(p, "writeNotes")
        /\ notes' = IF c.op = "remove" /\ c.seen[c.name] = Absent THEN notes
                    ELSE [c.seen EXCEPT ![c.name] =
                             IF c.op \in {"set", "remove"} THEN Absent ELSE c.value]
        /\ Becomes(p, Proceeds(c, c.todo \ {c.name}))
        /\ stale' = stale \ {c.name}
        /\ UNCHANGED <<overlapping, stored, commands, unmarked>>

\* recordExposure throws for one name: it is reported as failed, and the marking goes on.
NotMarked(p, n) ==
    /\ cmd[p].op = "mark" /\ n \in cmd[p].todo
    /\ At(p, "confirm") \/ (cmd[p].pc \in {"readNotes", "writeNotes"} /\ n = cmd[p].name)
    /\ Becomes(p, Proceeds(cmd[p], cmd[p].todo \ {n}))
    /\ unmarked' = unmarked \union {n}
    /\ UNCHANGED <<overlapping, stored, notes, commands, stale>>

\* The store has what p wrote, and the annotations do not have it yet.
Halfway(p) == cmd[p].op \in {"set", "remove"} /\ cmd[p].pc \in {"readNotes", "writeNotes"}

\* A process is killed, or an error ends its command here.
Ends(p) ==
    /\ ~Idle(p)
    /\ Becomes(p, NoCommand)
    /\ stale' = IF Halfway(p) /\ notes[cmd[p].name] # Absent
                THEN stale \union {cmd[p].name} ELSE stale
    /\ UNCHANGED <<overlapping, stored, notes, commands, unmarked>>

ExposureInit ==
    /\ overlapping \in CommandOverlaps
    /\ stored \in [Names -> Values \union {Absent}]
    /\ notes = [n \in Names |-> Absent]
    /\ cmd = [p \in Procs |-> NoCommand]
    /\ commands = 0
    /\ stale = {} /\ unmarked = {}

\* The steps of a command after its start.
CommandStep(p) ==
    \/ Compare(p) \/ StoreValue(p) \/ DeleteValue(p)
    \/ LoadSecrets(p) \/ ListAnnotations(p) \/ NotChecked(p)
    \/ \E n \in Names : Confirm(p, n) \/ NotMarked(p, n)
    \/ ReadNotes(p) \/ WriteNotes(p)

\* A user starts a command.
CommandStart(p) ==
    \E n \in Names :
        \/ \E v \in Values : SetSecret(p, n, v)
        \/ RemoveSecret(p, n)
        \/ RecordExposure(p, n)
-----------------------------------------------------------------------------
Pcs == {"idle", "compare", "store", "delete", "load", "list", "confirm", "readNotes", "writeNotes"}
Notes == [Names -> Values \union {Absent}]

ExposureTypeOK ==
    /\ overlapping \in CommandOverlaps
    /\ stored \in [Names -> Values \union {Absent}]
    /\ notes \in Notes
    /\ cmd \in [Procs -> [pc : Pcs, op : {"none", "set", "remove", "expose", "mark"},
                          name : Names \union {Absent}, value : Values \union {Absent},
                          closes : BOOLEAN, spans : SUBSET Values, todo : SUBSET Names,
                          seen : Notes \union {Absent}]]
    /\ commands \in 0..MaxCommands
    /\ stale \subseteq Names /\ unmarked \subseteq Names

(***************************************************************************)
(* "Only a new value at the provider ends the exposure": with commands     *)
(* that do not overlap, wherever one is killed or fails, the record of an  *)
(* exposure goes, or becomes one of another value, only when the store no  *)
(* longer holds the value it is about.  Except for a record that was stale *)
(* by then: a set or remove had changed the value and not the record (it   *)
(* ended between the two, or could not read the annotations), and the next *)
(* set ends the exposure, also one back to the value it is about.          *)
(* secret-store.ts: setSecret, removeSecret.                               *)
(***************************************************************************)
ClosedOnlyByRotation ==
    [][\A n \in Names \ stale :
         overlapping = "none" /\ notes[n] # Absent /\ notes'[n] # notes[n] => stored[n] # notes[n]]_notes

\* The same without the exception.
ClosedOnlyByRotationWhenStale ==
    [][\A n \in Names :
         overlapping = "none" /\ notes[n] # Absent /\ notes'[n] # notes[n] => stored[n] # notes[n]]_notes
=============================================================================
