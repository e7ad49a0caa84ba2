------------------------------ MODULE AuditLog ------------------------------
(***************************************************************************)
(* The signed audit log of the broker (AuditLogger, broker/audit.ts): the  *)
(* log file and the files rotation keeps, the signing key and its public   *)
(* half, and the loggers that share them.                                  *)
(*                                                                         *)
(* Each element of Loggers is a process with an AuditLogger on the path: a *)
(* broker that drains and the one started after it write to the same log.  *)
(* log() is synchronous, so within a process a call runs alone; the calls  *)
(* of two processes interleave at their file operations, each of which is  *)
(* one action.  A process may be killed between two of them, and a write   *)
(* may be cut short (by that, or by a full disk).                          *)
(*                                                                         *)
(* A line is named by a number of its own, which stands for its bytes and  *)
(* for their SHA-256; a key is named by the logger that generated it.      *)
(***************************************************************************)
EXTENDS Integers, Sequences, FiniteSets

CONSTANTS
    Loggers,     \* the processes that write to the log
    Retained,    \* MAX_RETAINED
    MaxLines,    \* the lines that make a file of MAX_FILE_SIZE
    Overlaps,    \* {FALSE}: the calls of two processes never overlap; {TRUE}: they may
    MaxRecords,  \* MaxRecords[o]: bound on the records written, by overlap
    MayCrash,    \* may a process be killed, or a write be cut short?
    None

\* A line of a log: its own number, the line it chains to, the key that signed it, and
\* whether it is all there.
Lines == [id : Nat, prev : Nat, key : Loggers, whole : BOOLEAN]

\* A file of lines; `open` if the last one has no newline.
Files == [lines : Seq(Lines), open : BOOLEAN]

\* A key file, of the key that a logger generated.
KeyFiles == [by : Loggers, written : BOOLEAN]

ASSUME AuditAssumption ==
    /\ Retained \in Nat \ {0}
    /\ MaxLines \in Nat \ {0}
    /\ Overlaps \subseteq BOOLEAN
    /\ MaxRecords \in [BOOLEAN -> Nat]
    /\ None \notin Loggers /\ None \notin Files /\ None \notin KeyFiles

VARIABLES
    overlap,   \* may calls overlap in this behaviour?
    files,     \* files[0] is the log, files[i] its i-th rotated file, None if absent
    keyFile,   \* <log>.key: None, or the key and whether it has been written
    pubFile,   \* <log>.pub: None, or the key it is the public half of
    pc,        \* where the call of each logger stands
    level,     \* the rotation step it is at
    tail,      \* what readTail told it: [prev, newline]
    held,      \* the signing key it has in memory, None before the first record
    count,     \* history: the lines begun so far
    returned,  \* history: the records whose log() returned
    expired    \* history: the lines of the files deleted as the oldest

logFiles == <<files, keyFile, pubFile>>
vars == <<overlap, logFiles, pc, level, tail, held, count, returned, expired>>

GENESIS == 0   \* AUDIT_GENESIS_HASH

Goto(p, step) == pc' = [pc EXCEPT ![p] = step]

LinesOf(f) == IF f = None THEN << >> ELSE f.lines
IdsOf(f) == {LinesOf(f)[i].id : i \in DOMAIN LinesOf(f)}

-----------------------------------------------------------------------------
Init ==
    /\ overlap \in Overlaps
    /\ files = [i \in 0..Retained |-> None]
    /\ keyFile = None
    /\ pubFile = None
    /\ pc = [p \in Loggers |-> "idle"]
    /\ level = [p \in Loggers |-> 0]
    /\ tail = [p \in Loggers |-> [prev |-> GENESIS, newline |-> FALSE]]
    /\ held = [p \in Loggers |-> None]
    /\ count = 0
    /\ returned = {}
    /\ expired = {}

\* log(): rotateIfNeeded looks at the size of the log.
Begin(p) ==
    /\ pc[p] = "idle"
    /\ overlap \/ \A q \in Loggers : pc[q] = "idle"
    /\ count < MaxRecords[overlap]
    /\ IF Len(LinesOf(files[0])) >= MaxLines
       THEN Goto(p, "rotate") /\ level' = [level EXCEPT ![p] = Retained]
       ELSE Goto(p, "tail") /\ UNCHANGED level
    /\ UNCHANGED <<overlap, logFiles, tail, held, count, returned, expired>>

\* One step of the rotation: the oldest file is deleted, and the next newer one
\* takes its place; rename replaces what is there.
Rotate(p) ==
    /\ pc[p] = "rotate"
    /\ LET i == level[p]
           oldest == i = Retained
       IN  /\ files' = IF files[i - 1] # None
                       THEN [files EXCEPT ![i] = files[i - 1], ![i - 1] = None]
                       ELSE [files EXCEPT ![i] = IF oldest THEN None ELSE @]
           /\ expired' = IF oldest THEN expired \union IdsOf(files[i]) ELSE expired
    /\ IF level[p] = 1 THEN Goto(p, "tail") ELSE UNCHANGED pc
    /\ level' = [level EXCEPT ![p] = @ - 1]
    /\ UNCHANGED <<overlap, keyFile, pubFile, tail, held, count, returned>>

\* Mutant of TailOf: the tail of a fresh log is that of the file rotated last.
TailOfMutAcrossFiles(f) ==
    LET g == IF f = None THEN files[1] ELSE f
    IN  IF LinesOf(g) = << >> THEN [prev |-> GENESIS, newline |-> FALSE]
        ELSE [prev |-> g.lines[Len(g.lines)].id, newline |-> f = g /\ g.open]

\* Mutant of TailOf: a file that ends in the middle of a line is appended to as it is.
TailOfMutNoNewline(f) ==
    IF LinesOf(f) = << >> THEN [prev |-> GENESIS, newline |-> FALSE]
    ELSE [prev |-> f.lines[Len(f.lines)].id, newline |-> FALSE]

\* readTail: the last line of a file, and whether a newline must come first.
TailOf(f) ==
    IF LinesOf(f) = << >> THEN [prev |-> GENESIS, newline |-> FALSE]
    ELSE [prev |-> f.lines[Len(f.lines)].id, newline |-> f.open]

ReadTail(p) ==
    /\ pc[p] = "tail"
    /\ tail' = [tail EXCEPT ![p] = TailOf(files[0])]
    /\ Goto(p, IF held[p] = None THEN "loadKey" ELSE "append")
    /\ UNCHANGED <<overlap, logFiles, level, held, count, returned, expired>>

-----------------------------------------------------------------------------
\* log() throws: nothing is written.
Throw(p) == Goto(p, "idle") /\ UNCHANGED held

\* parseSigningKey of a key file that is there: an empty one cannot be read.
ParseKey(p) ==
    IF keyFile.written
    THEN held' = [held EXCEPT ![p] = keyFile.by] /\ Goto(p, "append")
    ELSE Throw(p)

\* loadOrCreateSigningKey reads the key file.
LoadKey(p) ==
    /\ pc[p] = "loadKey"
    /\ IF keyFile = None THEN Goto(p, "createKey") /\ UNCHANGED held
                         ELSE ParseKey(p)
    /\ UNCHANGED <<overlap, logFiles, level, tail, count, returned, expired>>

\* Mutant of CreateKey: the file is created with flag 'w'.
CreateKeyMutNotExclusive(p) ==
    /\ pc[p] = "createKey"
    /\ keyFile' = [by |-> p, written |-> FALSE]
    /\ Goto(p, "writeKey")
    /\ UNCHANGED <<overlap, files, pubFile, level, tail, held, count, returned, expired>>

\* The key file is opened with flag 'wx'; the key of another logger is read instead.
CreateKey(p) ==
    /\ pc[p] = "createKey"
    /\ IF keyFile = None
       THEN /\ keyFile' = [by |-> p, written |-> FALSE]
            /\ Goto(p, "writeKey")
            /\ UNCHANGED held
       ELSE /\ ParseKey(p)
            /\ UNCHANGED keyFile
    /\ UNCHANGED <<overlap, files, pubFile, level, tail, count, returned, expired>>

\* The private key is written.
WriteKey(p) ==
    /\ pc[p] = "writeKey"
    /\ keyFile' = [by |-> p, written |-> TRUE]
    /\ Goto(p, "writePub")
    /\ UNCHANGED <<overlap, files, pubFile, level, tail, held, count, returned, expired>>

\* The public key is written.
WritePub(p) ==
    /\ pc[p] = "writePub"
    /\ pubFile' = p
    /\ held' = [held EXCEPT ![p] = p]
    /\ Goto(p, "append")
    /\ UNCHANGED <<overlap, files, keyFile, level, tail, count, returned, expired>>

-----------------------------------------------------------------------------
\* The log with p's line at its end, `whole` or cut short, with its newline or not.
\* What follows an unfinished line without a newline becomes part of that line.
Appended(p, whole, open) ==
    LET f == files[0]
        joined == f # None /\ f.open /\ ~tail[p].newline
        before == IF joined THEN SubSeq(f.lines, 1, Len(f.lines) - 1) ELSE LinesOf(f)
        line == [id |-> count + 1, prev |-> tail[p].prev, key |-> held[p],
                 whole |-> whole /\ ~joined]
    IN  [files EXCEPT ![0] = [lines |-> Append(before, line), open |-> open]]

\* appendFileSync writes the line, and log() returns.
AppendLine(p) ==
    /\ pc[p] = "append"
    /\ files' = Appended(p, TRUE, FALSE)
    /\ count' = count + 1
    /\ returned' = returned \union {count + 1}
    /\ Goto(p, "idle")
    /\ UNCHANGED <<overlap, keyFile, pubFile, level, tail, held, expired>>

\* The write is cut short within the record or before its newline: log() throws,
\* or the process is gone.
AppendCut(p) ==
    /\ MayCrash
    /\ pc[p] = "append"
    /\ \E whole \in BOOLEAN : files' = Appended(p, whole, TRUE)
    /\ count' = count + 1
    /\ \/ UNCHANGED held
       \/ held' = [held EXCEPT ![p] = None]
    /\ Goto(p, "idle")
    /\ UNCHANGED <<overlap, keyFile, pubFile, level, tail, returned, expired>>

\* The process is killed, and another one takes its place.
Crash(p) ==
    /\ MayCrash
    /\ pc[p] # "idle" \/ held[p] # None
    /\ Goto(p, "idle")
    /\ held' = [held EXCEPT ![p] = None]
    /\ UNCHANGED <<overlap, logFiles, level, tail, count, returned, expired>>

Next ==
    \E p \in Loggers :
        \/ Begin(p) \/ Rotate(p) \/ ReadTail(p)
        \/ LoadKey(p) \/ CreateKey(p) \/ WriteKey(p) \/ WritePub(p)
        \/ AppendLine(p) \/ AppendCut(p)
        \/ Crash(p)

Spec == Init /\ [][Next]_vars
-----------------------------------------------------------------------------
Steps == {"idle", "rotate", "tail", "loadKey", "createKey", "writeKey", "writePub", "append"}

\* Every variable has its shape; a record is signed, and chained to an earlier line.
TypeOK ==
    /\ overlap \in Overlaps
    /\ files \in [0..Retained -> Files \union {None}]
    /\ \A i \in 0..Retained : files[i] # None => files[i].lines # << >>
    /\ \A i \in 0..Retained : \A j \in DOMAIN LinesOf(files[i]) :
          LET l == LinesOf(files[i])[j] IN l.prev < l.id /\ l.id <= count
    /\ keyFile \in KeyFiles \union {None}
    /\ pubFile \in Loggers \union {None}
    /\ pc \in [Loggers -> Steps]
    /\ level \in [Loggers -> 0..Retained]
    /\ \A p \in Loggers : pc[p] = "rotate" => level[p] # 0
    /\ tail \in [Loggers -> [prev : 0..count, newline : BOOLEAN]]
    /\ held \in [Loggers -> Loggers \union {None}]
    /\ \A p \in Loggers : pc[p] = "append" => held[p] # None
    /\ count \in Nat
    /\ returned \subseteq 1..count
    /\ expired \subseteq 1..count

(***************************************************************************)
(* What verify() checks of each file, up to what a cut write left behind:  *)
(* a whole record follows the line before it, in the file it is in, also   *)
(* when that line is not whole, and also across a rotation.                *)
(***************************************************************************)
ChainHolds ==
    \A i \in 0..Retained : \A j \in DOMAIN LinesOf(files[i]) :
        LET l == LinesOf(files[i])
        IN  l[j].whole => l[j].prev = IF j = 1 THEN GENESIS ELSE l[j - 1].id

(***************************************************************************)
(* "append-only ... with 5 retained files": a record whose log() returned  *)
(* is in one of the files, as a line of its own, until the file it is in   *)
(* is the oldest and is deleted; a cut write takes nothing with it.        *)
(***************************************************************************)
NoneLost ==
    \A r \in returned \ expired :
        \E i \in 0..Retained : \E j \in DOMAIN LinesOf(files[i]) :
            LET l == LinesOf(files[i])[j] IN l.id = r /\ l.whole

\* Both hold as long as one process at a time is in a call.
SerialChainHolds == ~overlap => ChainHolds
SerialNoneLost == ~overlap => NoneLost

(***************************************************************************)
(* All records verify against one key, the one in the key file, and the    *)
(* public key beside it is that key's, whoever created it.                 *)
(***************************************************************************)
OneKey ==
    /\ \A i \in 0..Retained : \A j \in DOMAIN LinesOf(files[i]) :
          LET l == LinesOf(files[i])[j]
          IN  l.whole => keyFile = [by |-> l.key, written |-> TRUE]
    /\ pubFile # None => keyFile # None /\ keyFile.by = pubFile

(***************************************************************************)
(* "The signing key is created on first write at <log>.key (owner-only)    *)
(* and its public half at <log>.pub": beside a record there is the public  *)
(* key to verify it with.                                                  *)
(***************************************************************************)
PubBesideRecords == (\E i \in 0..Retained : files[i] # None) => pubFile # None

(***************************************************************************)
(* "Another logger on the same path created it first: sign with that key": *)
(* a logger that finds a key file has a key to sign with.                  *)
(***************************************************************************)
SignsWithThatKey ==
    [][\A p \in Loggers :
         pc[p] \in {"loadKey", "createKey"} /\ keyFile # None /\ pc'[p] # pc[p]
         => held'[p] = keyFile.by]_vars
=============================================================================
