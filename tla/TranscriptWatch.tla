-------------------------- MODULE TranscriptWatch --------------------------
(***************************************************************************)
(* The transcript watcher (watch.ts), transcript clean, and the rewrite of *)
(* a transcript both use (transcript.ts), composed with the exposure marks *)
(* of SecretExposure.                                                      *)
(*                                                                         *)
(* A session appends lines to one transcript.  Each change fires an event  *)
(* at every running watcher, which sets a timer; when the timer fires the  *)
(* file is read and, when a secret was found, replaced, unless its state   *)
(* (device, inode, size, mtime: the stamp) has changed since.  What was    *)
(* redacted is then compared with the store.  From the read to the rename  *)
(* a watcher does not await, so only other processes come in between.      *)
(*                                                                         *)
(* A line is one JSON value; what it says is a secret or nothing.  A line  *)
(* longer than the scanner reads is left out.                              *)
(***************************************************************************)
EXTENDS SecretExposure, Sequences, SequencesExt

CONSTANTS
    Watchers,   \* watcher processes, running at first
    Cleaners,   \* processes of transcript clean, one run each
    Markers,    \* Markers[r]: the processes (of Procs) that stand for the marking r awaits
    Commanders, \* the processes a user runs commands in
    Sayings,    \* what a line may say: a secret, or Absent
    MaxSaid,    \* bound on the lines of the session
    MaxWork,    \* bound on its lines and the users' commands together
    Windows,    \* may an append fall between the check and the rename ("open")?
    Stops       \* may a watcher be stopped?

VARIABLES
    window, stops, \* what may happen in this behaviour
    lines,     \* the transcript: [says, state], state "part", "whole" or "redacted"
    stamp,     \* what changedSince compares
    said,      \* history: what each line of the session says
    running,   \* the watchers that run
    timer,     \* the watchers whose debounce timer is set
    rewrite,   \* the pass each rewriter is in: [pc, stamp, lines]
    cleaned,   \* the cleaners that have run
    owed       \* history: names whose stored value was redacted, and not changed since

transcriptVars == <<window, stops, lines, stamp, said, running, timer, rewrite, cleaned>>
watchVars == <<exposureVars, transcriptVars, owed>>

Rewriters == Watchers \union Cleaners

\* No user runs commands in a process that marks.
ASSUME WatchAssumption ==
    /\ Sayings \subseteq Values \union {Absent}
    /\ Commanders \subseteq Procs
    /\ Markers \in [Rewriters -> SUBSET (Procs \ Commanders)]

NoPass == [pc |-> "none", stamp |-> 0, lines |-> <<>>]

\* A line that JSON.parse takes and in which a pattern matches.
Found(line) == line.state = "whole" /\ line.says # Absent

Redacted(text) ==
    [i \in DOMAIN text |-> IF Found(text[i]) THEN [text[i] EXCEPT !.state = "redacted"] ELSE text[i]]

Spans(text) == {text[i].says : i \in {j \in DOMAIN text : Found(text[j])}}

\* The file is another one: its stamp is new, and every running watcher has an event.
Changes(text) ==
    /\ lines' = text
    /\ stamp' = stamp + 1
    /\ timer' = running

\* What is owed when the store may change.
StillOwed == owed' = {n \in owed : stored'[n] = stored[n]}

MayAppend == window = "closed" => \A r \in Rewriters : rewrite[r].pc # "rename"

\* The session appends a line, the whole of it or a part.
SayLine(says, state) ==
    /\ MayAppend
    /\ Len(said) < MaxSaid /\ Len(said) + commands < MaxWork
    /\ lines # <<>> => Last(lines).state # "part"
    /\ said' = Append(said, says)
    /\ Changes(Append(lines, [says |-> says, state |-> state]))
    /\ UNCHANGED <<exposureVars, window, stops, running, rewrite, cleaned, owed>>

\* The session appends the rest of a line.
CompleteLine ==
    /\ MayAppend
    /\ lines # <<>> /\ Last(lines).state = "part"
    /\ Changes([lines EXCEPT ![Len(lines)].state = "whole"])
    /\ UNCHANGED <<exposureVars, window, stops, said, running, rewrite, cleaned, owed>>

Pass(r, p) == rewrite' = [rewrite EXCEPT ![r] = p]

\* Mutant of Fire: an event that comes while a marking is awaited is passed over.
FireMutSkipsWhileMarking(w) ==
    /\ w \in timer /\ rewrite[w].pc = "none"
    /\ timer' = timer \ {w}
    /\ Pass(w, IF \A m \in Markers[w] : Idle(m)
               THEN [NoPass EXCEPT !.pc = "read", !.stamp = stamp] ELSE NoPass)
    /\ UNCHANGED <<exposureVars, window, stops, lines, stamp, said, running, cleaned, owed>>

\* The timer fires: processFile opens the file and takes its state.
Fire(w) ==
    /\ w \in timer /\ rewrite[w].pc = "none"
    /\ timer' = timer \ {w}
    /\ Pass(w, [NoPass EXCEPT !.pc = "read", !.stamp = stamp])
    /\ UNCHANGED <<exposureVars, window, stops, lines, stamp, said, running, cleaned, owed>>

\* cleanTranscripts begins on the file.
Clean(c) ==
    /\ c \notin cleaned
    /\ cleaned' = cleaned \union {c}
    /\ Pass(c, [NoPass EXCEPT !.pc = "read", !.stamp = stamp])
    /\ UNCHANGED <<exposureVars, window, stops, lines, stamp, said, running, timer, owed>>

\* The file is read and scanned; without a finding the pass is over.
ReadTranscript(r) ==
    /\ rewrite[r].pc = "read"
    /\ Pass(r, IF Spans(lines) = {} THEN NoPass
               ELSE [rewrite[r] EXCEPT !.pc = "check", !.lines = lines])
    /\ UNCHANGED <<exposureVars, window, stops, lines, stamp, said, running, timer, cleaned, owed>>

\* Mutant of CheckUnchanged: the file is not compared with what was read.
CheckUnchangedMutSkipped(r) ==
    /\ rewrite[r].pc = "check"
    /\ Pass(r, [rewrite[r] EXCEPT !.pc = "rename"])
    /\ UNCHANGED <<exposureVars, window, stops, lines, stamp, said, running, timer, cleaned, owed>>

\* atomicWrite: the temporary file is written, and the file compared with what was read.
CheckUnchanged(r) ==
    /\ rewrite[r].pc = "check"
    /\ Pass(r, IF stamp = rewrite[r].stamp THEN [rewrite[r] EXCEPT !.pc = "rename"] ELSE NoPass)
    /\ UNCHANGED <<exposureVars, window, stops, lines, stamp, said, running, timer, cleaned, owed>>

\* Mutant of Redactions: the spans are cleared before the marking has read them.
RedactionsMutCleared(r) == {}

\* The values that the pass of r takes out.
Redactions(r) == Spans(rewrite[r].lines)

\* The rename; then the marking of what was redacted begins.
Replace(r) ==
    /\ rewrite[r].pc = "rename"
    /\ Changes(Redacted(rewrite[r].lines))
    /\ Pass(r, NoPass)
    /\ \E m \in Markers[r] : Idle(m)
    /\ Becomes(CHOOSE m \in Markers[r] : Idle(m), Marking(Redactions(r)))
    /\ LET redacted == {n \in Names : stored[n] \in Spans(rewrite[r].lines)}
       IN  owed' = owed \union redacted /\ unmarked' = unmarked \ redacted
    /\ UNCHANGED <<overlapping, stored, notes, commands, stale, window, stops, said, running, cleaned>>

\* watch stop: shutdown closes the watcher and exits, whatever it awaits.
Stop(w) ==
    /\ stops /\ w \in running
    /\ running' = running \ {w}
    /\ timer' = timer \ {w}
    /\ Pass(w, NoPass)
    /\ cmd' = [p \in Procs |-> IF p \in Markers[w] THEN NoCommand ELSE cmd[p]]
    /\ UNCHANGED <<overlapping, stored, notes, commands, histories, window, stops, lines, stamp, said,
                   cleaned, owed>>

\* A step of a command or of a marking.
Command ==
    /\ \E p \in Procs : CommandStep(p)
    /\ StillOwed
    /\ UNCHANGED transcriptVars

StartCommand ==
    /\ Len(said) + commands < MaxWork
    /\ \E p \in Commanders : CommandStart(p)
    /\ UNCHANGED <<transcriptVars, owed>>

\* A user's command is killed, or fails.
KillCommand ==
    /\ \E p \in Commanders : Ends(p)
    /\ UNCHANGED <<transcriptVars, owed>>

WatchInit ==
    /\ ExposureInit
    /\ window \in Windows /\ stops \in Stops
    /\ lines = <<>> /\ stamp = 0 /\ said = <<>>
    /\ running = Watchers /\ timer = {}
    /\ rewrite = [r \in Rewriters |-> NoPass]
    /\ cleaned = {}
    /\ owed = {}

PassStep(r) == ReadTranscript(r) \/ CheckUnchanged(r) \/ Replace(r)

WatchNext ==
    \/ \E says \in Sayings, state \in {"part", "whole"} : SayLine(says, state)
    \/ CompleteLine
    \/ \E w \in Watchers : Fire(w) \/ Stop(w)
    \/ \E c \in Cleaners : Clean(c)
    \/ \E r \in Rewriters : PassStep(r)
    \/ Command
    \/ StartCommand
    \/ KillCommand

(***************************************************************************)
(* A watcher that runs executes its own code, and its timers fire.         *)
(* Nothing is assumed of the session, of transcript clean, of users, of    *)
(* stops, or of the store a marking waits for.                             *)
(***************************************************************************)
Fairness == \A w \in Watchers : WF_watchVars(Fire(w)) /\ WF_watchVars(PassStep(w))

WatchSpec == WatchInit /\ [][WatchNext]_watchVars /\ Fairness
-----------------------------------------------------------------------------
SpokenLines == [says : Sayings, state : {"part", "whole", "redacted"}]

\* Every variable has its shape.
WatchTypeOK ==
    /\ ExposureTypeOK
    /\ window \in Windows /\ stops \in Stops
    /\ lines \in Seq(SpokenLines) /\ said \in Seq(Sayings)
    /\ stamp \in Nat
    /\ running \subseteq Watchers /\ timer \subseteq running
    /\ \A r \in Rewriters : /\ rewrite[r].pc \in {"none", "read", "check", "rename"}
                            /\ rewrite[r].lines \in Seq(SpokenLines)
                            /\ rewrite[r].stamp \in 0..stamp
    /\ cleaned \subseteq Cleaners
    /\ owed \subseteq Names

(***************************************************************************)
(* "A session that is still running appends to its transcript while it is  *)
(* read and redacted, and the rename would replace the file without those  *)
(* lines": no line is lost or put out of its place, whichever watchers and *)
(* cleaners rewrite the file, and only secrets are taken out.  (Except by  *)
(* an append between the check and the rename: see NoLineLost.)            *)
(***************************************************************************)
LinesKept ==
    /\ Len(lines) = Len(said)
    /\ \A i \in DOMAIN lines :
          lines[i].says = said[i] /\ (lines[i].state = "redacted" => said[i] # Absent)

NoLineLostOutsideWindow == window = "closed" => LinesKept

\* "So the file's device, inode, size and modification time are read again": no line is lost.
NoLineLost == LinesKept

\* Is a redacted value still on its way to be marked?
BeingMarked(n) == \E p \in Procs : cmd[p].op = "mark" /\ n \in ToMark(p)

(***************************************************************************)
(* "Mark exposed every stored secret whose value clean or watch redacted", *)
(* and "a store that cannot be read is reported, not thrown": a name whose *)
(* stored value was redacted is listed as exposed until the value changes, *)
(* or a process is still about to list it, or has reported that it did not.*)
(* Not when the watcher is stopped, or when commands overlap.              *)
(* secret-exposure.ts: markRedactedSecretsExposed.                         *)
(***************************************************************************)
RedactedIsMarked == \A n \in owed : notes[n] # Absent \/ BeingMarked(n) \/ n \in unmarked

RedactedIsMarkedUndisturbed == ~stops /\ overlapping = "none" => RedactedIsMarked

(***************************************************************************)
(* "Real-time transcript protection": every secret of a whole line is      *)
(* redacted in the end while a watcher runs, also one that was written     *)
(* while the watcher was reading, or whose rewrite was given up because    *)
(* the file had changed.                                                   *)
(***************************************************************************)
EverySecretRedacted ==
    \A i \in 1..MaxSaid :
        [](~stops /\ i \in DOMAIN lines /\ Found(lines[i]) =>
              <>(i \in DOMAIN lines /\ lines[i].state = "redacted"))
=============================================================================
