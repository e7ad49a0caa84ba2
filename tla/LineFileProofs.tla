--------------------------- MODULE LineFileProofs ---------------------------
(***************************************************************************)
(* Two files of lines, each rewritten or moved while others append to it:  *)
(* the audit log of the daemon, and the transcript of a session.           *)
(*                                                                         *)
(* AuditLog, for every set of loggers, every number of retained files,     *)
(* every size of a file and every number of records: its type invariant,   *)
(* the one key of all records, and, as long as one process at a time is in *)
(* a call, the chain and the records themselves.  The invariants come in   *)
(* layers, each proved with the ones before it.  Two lemmas say what a     *)
(* step does to the files: a rotation moves files and makes none, and an   *)
(* append keeps every line but, when the last one is unfinished and no     *)
(* newline is written, that one.                                           *)
(*                                                                         *)
(* TranscriptWatch with SecretExposure, for every set of watchers,         *)
(* cleaners, processes, names and values and every length of a session:    *)
(* see the second part.                                                    *)
(***************************************************************************)
EXTENDS AuditLog, TranscriptWatch, SequenceTheorems, TLAPS

FilesTyped == files \in [0..Retained -> Files \union {None}]

\* The lines of a file are a sequence of lines, and the file that is not there has none.
LEMMA LinesTyped ==
    ASSUME NEW f \in Files \union {None}
    PROVE  LinesOf(f) \in Seq(Lines)
BY AuditAssumption DEF LinesOf, Files

\* One step of a rotation empties the newer of two places. What it had is in the older one;
\* if it had nothing, the older one is as it was, or empty if it is the oldest.
LEMMA RotateMoves ==
    ASSUME TypeOK, NEW p \in Loggers, Rotate(p)
    PROVE  LET i == level[p]
           IN  /\ i \in 1..Retained /\ i - 1 \in 0..Retained
               /\ FilesTyped'
               /\ files'[i - 1] = None
               /\ files'[i] = IF files[i - 1] # None THEN files[i - 1]
                              ELSE IF i = Retained THEN None ELSE files[i]
               /\ \A k \in 0..Retained : k # i /\ k # i - 1 => files'[k] = files[k]
<1> DEFINE i == level[p]
<1>1. i \in 1..Retained /\ i - 1 \in 0..Retained /\ i # i - 1
  BY AuditAssumption DEF TypeOK, Rotate
<1>2. files \in [0..Retained -> Files \union {None}]
  BY DEF TypeOK
<1>3. CASE files[i - 1] # None
  <2>1. files' = [files EXCEPT ![i] = files[i - 1], ![i - 1] = None]
    BY <1>3 DEF Rotate
  <2>2. files[i - 1] \in Files \union {None}
    BY <1>1, <1>2
  <2> HIDE DEF i
  <2> QED
    BY <1>1, <1>2, <1>3, <2>1, <2>2 DEF FilesTyped, i
<1>4. CASE files[i - 1] = None
  <2>1. files' = [files EXCEPT ![i] = IF i = Retained THEN None ELSE @]
    BY <1>4 DEF Rotate
  <2> QED
    BY <1>1, <1>2, <1>4, <2>1 DEF FilesTyped
<1> QED
  BY <1>3, <1>4

\* What is in a place after a rotation step was in some place before it, or is nothing.
LEMMA RotatePermutes ==
    ASSUME TypeOK, NEW p \in Loggers, Rotate(p)
    PROVE  \A i \in 0..Retained :
              files'[i] = None \/ \E k \in 0..Retained : files'[i] = files[k]
<1> DEFINE i == level[p]
<1>1. /\ i \in 1..Retained /\ i - 1 \in 0..Retained /\ i \in 0..Retained
      /\ files'[i - 1] = None
      /\ files'[i] = IF files[i - 1] # None THEN files[i - 1]
                     ELSE IF i = Retained THEN None ELSE files[i]
      /\ \A k \in 0..Retained : k # i /\ k # i - 1 => files'[k] = files[k]
  BY RotateMoves, AuditAssumption
<1> HIDE DEF i
<1> QED
  BY <1>1

\* An append changes the log alone: all its lines stay, but an unfinished one may be
\* lost if it is joined, and the new line comes last.
LEMMA AppendAdds ==
    ASSUME TypeOK, NEW p \in Loggers, pc[p] = "append",
           NEW whole \in BOOLEAN, NEW open \in BOOLEAN,
           files' = Appended(p, whole, open)
    PROVE  /\ FilesTyped'
           /\ \A i \in 1..Retained : files'[i] = files[i]
           /\ files'[0] # None
           /\ \E n \in Nat :
                 /\ n <= Len(LinesOf(files[0]))
                 /\ Len(LinesOf(files'[0])) = n + 1
                 /\ \A j \in 1..n : LinesOf(files'[0])[j] = LinesOf(files[0])[j]
                 /\ LET l == LinesOf(files'[0])[n + 1]
                    IN  /\ l.id = count + 1 /\ l.prev = tail[p].prev /\ l.key = held[p]
                        /\ l.whole => whole
                        /\ files[0] = None \/ ~files[0].open \/ tail[p].newline =>
                              n = Len(LinesOf(files[0])) /\ l.whole = whole
<1> DEFINE f == files[0]
           joined == f # None /\ f.open /\ ~tail[p].newline
           before == IF joined THEN SubSeq(f.lines, 1, Len(f.lines) - 1) ELSE LinesOf(f)
           line == [id |-> count + 1, prev |-> tail[p].prev, key |-> held[p],
                    whole |-> whole /\ ~joined]
           g == [lines |-> Append(before, line), open |-> open]
<1>1. /\ f \in Files \union {None}
      /\ f # None => f.lines # << >>
  BY AuditAssumption DEF TypeOK
<1>2. LinesOf(f) \in Seq(Lines)
  BY <1>1, LinesTyped
<1>3. line \in Lines
  <2>1. tail[p].prev \in Nat /\ held[p] \in Loggers /\ count + 1 \in Nat
    BY DEF TypeOK
  <2>2. (whole /\ ~joined) \in BOOLEAN
    OBVIOUS
  <2> HIDE DEF joined
  <2> QED
    BY <2>1, <2>2 DEF Lines
<1>4. /\ before \in Seq(Lines)
      /\ Len(before) \in Nat
      /\ Len(before) <= Len(LinesOf(f))
      /\ ~joined => Len(before) = Len(LinesOf(f))
      /\ \A j \in 1..Len(before) : before[j] = LinesOf(f)[j]
  <2>1. CASE joined
    <3>1. f.lines \in Seq(Lines) /\ f.lines # << >> /\ LinesOf(f) = f.lines
      BY <1>1, <2>1 DEF Files, LinesOf
    <3>2. Len(f.lines) \in Nat \ {0}
      BY <3>1
    <3>3. before = SubSeq(f.lines, 1, Len(f.lines) - 1)
      BY <2>1
    <3> QED
      BY <2>1, <3>1, <3>2, <3>3
  <2>2. CASE ~joined
    <3>1. before = LinesOf(f)
      BY <2>2
    <3> QED
      BY <1>2, <2>2, <3>1
  <2> QED
    BY <2>1, <2>2
<1>5. files' = [files EXCEPT ![0] = g]
  BY DEF Appended
<1>6. /\ f = None \/ ~f.open \/ tail[p].newline => ~joined
      /\ line.id = count + 1 /\ line.prev = tail[p].prev /\ line.key = held[p]
      /\ line.whole = (whole /\ ~joined)
  OBVIOUS
<1> HIDE DEF before, line, joined
<1>7. /\ Append(before, line) \in Seq(Lines)
      /\ Len(Append(before, line)) = Len(before) + 1
      /\ Append(before, line)[Len(before) + 1] = line
      /\ \A j \in 1..Len(before) : Append(before, line)[j] = before[j]
  BY <1>3, <1>4
<1>8. g \in Files /\ g.lines = Append(before, line) /\ g # None
  BY <1>7, AuditAssumption DEF Files
<1> HIDE DEF g
<1>9. /\ FilesTyped'
      /\ \A i \in 1..Retained : files'[i] = files[i]
      /\ files'[0] = g
  BY <1>5, <1>8, AuditAssumption, SMTT(30) DEF FilesTyped, TypeOK
<1>10. LinesOf(files'[0]) = Append(before, line)
  BY <1>8, <1>9 DEF LinesOf
<1> QED
  BY <1>4, <1>6, <1>7, <1>8, <1>9, <1>10

-----------------------------------------------------------------------------
(***************************************************************************)
(* Types.                                                                  *)
(***************************************************************************)

\* The part of TypeOK that is about the files.
Numbered ==
    /\ \A i \in 0..Retained : files[i] # None => files[i].lines # << >>
    /\ \A i \in 0..Retained : \A j \in DOMAIN LinesOf(files[i]) :
          LET l == LinesOf(files[i])[j] IN l.prev < l.id /\ l.id <= count

LEMMA RotateNumbered ==
    ASSUME TypeOK, NEW p \in Loggers, Rotate(p)
    PROVE  Numbered' /\ expired' \subseteq 1..count
<1>1. \A i \in 0..Retained :
         files'[i] = None \/ \E k \in 0..Retained : files'[i] = files[k]
  BY RotatePermutes
<1>2. count' = count
  BY DEF Rotate
<1>3. LinesOf(None) = << >>
  BY DEF LinesOf
<1>4. Numbered
  BY DEF TypeOK, Numbered
<1>5. Numbered'
  BY <1>1, <1>2, <1>3, <1>4 DEF Numbered, LinesOf
<1>6. ASSUME NEW i \in 0..Retained PROVE IdsOf(files[i]) \subseteq 1..count
  <2>1. LinesOf(files[i]) \in Seq(Lines)
    BY LinesTyped DEF TypeOK
  <2>2. \A j \in DOMAIN LinesOf(files[i]) : LinesOf(files[i])[j] \in Lines
    BY <2>1
  <2>3. \A j \in DOMAIN LinesOf(files[i]) : LinesOf(files[i])[j].id \in 1..count
    BY <1>4, <2>2 DEF Lines, Numbered, TypeOK
  <2> QED
    BY <2>3 DEF IdsOf
<1>7. level[p] \in 0..Retained
  BY DEF TypeOK
<1> QED
  BY <1>5, <1>6, <1>7 DEF Rotate, TypeOK

LEMMA AppendNumbered ==
    ASSUME TypeOK, NEW p \in Loggers, pc[p] = "append",
           NEW whole \in BOOLEAN, NEW open \in BOOLEAN,
           files' = Appended(p, whole, open), count' = count + 1
    PROVE  FilesTyped' /\ Numbered'
<1>1. /\ FilesTyped'
      /\ \A i \in 1..Retained : files'[i] = files[i]
      /\ files'[0] # None
  BY AppendAdds
<1>2. PICK n \in Nat :
         /\ n <= Len(LinesOf(files[0]))
         /\ Len(LinesOf(files'[0])) = n + 1
         /\ \A j \in 1..n : LinesOf(files'[0])[j] = LinesOf(files[0])[j]
         /\ LinesOf(files'[0])[n + 1].id = count + 1
         /\ LinesOf(files'[0])[n + 1].prev = tail[p].prev
  BY AppendAdds
<1>3. /\ 0 \in 0..Retained /\ \A i \in 0..Retained : i = 0 \/ i \in 1..Retained
      /\ count \in Nat /\ tail[p].prev \in 0..count
  BY AuditAssumption DEF TypeOK
<1>4. LinesOf(files[0]) \in Seq(Lines) /\ LinesOf(files'[0]) \in Seq(Lines)
  BY <1>1, <1>3, LinesTyped DEF TypeOK, FilesTyped
<1>5. /\ DOMAIN LinesOf(files'[0]) = 1..(n + 1)
      /\ \A j \in 1..n : j \in DOMAIN LinesOf(files[0])
  BY <1>2, <1>4
<1>6. files'[0].lines # << >>
  <2>1. files'[0].lines = LinesOf(files'[0])
    BY <1>1 DEF LinesOf
  <2> QED
    BY <1>2, <1>4, <2>1
<1>7. \A i \in 0..Retained : files'[i] # None => files'[i].lines # << >>
  BY <1>1, <1>3, <1>6 DEF TypeOK
<1>8. ASSUME NEW j \in DOMAIN LinesOf(files'[0])
      PROVE  /\ LinesOf(files'[0])[j].prev < LinesOf(files'[0])[j].id
             /\ LinesOf(files'[0])[j].id <= count + 1
  <2>1. CASE j \in 1..n
    <3>1. /\ LinesOf(files[0])[j] \in Lines
          /\ LinesOf(files[0])[j].prev < LinesOf(files[0])[j].id
          /\ LinesOf(files[0])[j].id <= count
      BY <1>3, <1>4, <1>5, <2>1 DEF TypeOK
    <3> QED
      BY <1>2, <1>3, <2>1, <3>1 DEF Lines
  <2>2. CASE j = n + 1
    BY <1>2, <1>3, <2>2
  <2> QED
    BY <1>5, <2>1, <2>2
<1>9. ASSUME NEW i \in 1..Retained, NEW j \in DOMAIN LinesOf(files'[i])
      PROVE  /\ LinesOf(files'[i])[j].prev < LinesOf(files'[i])[j].id
             /\ LinesOf(files'[i])[j].id <= count + 1
  <2>1. i \in 0..Retained /\ files'[i] = files[i]
    BY <1>1
  <2>2. LinesOf(files[i]) \in Seq(Lines)
    BY <2>1, LinesTyped DEF TypeOK
  <2>3. LinesOf(files[i])[j] \in Lines
    BY <2>1, <2>2
  <2>4. LinesOf(files[i])[j].prev < LinesOf(files[i])[j].id /\ LinesOf(files[i])[j].id <= count
    BY <2>1 DEF TypeOK
  <2> QED
    BY <1>3, <2>1, <2>3, <2>4 DEF Lines
<1> QED
  BY <1>1, <1>3, <1>7, <1>8, <1>9 DEF Numbered

LEMMA TailTyped ==
    ASSUME TypeOK
    PROVE  TailOf(files[0]) \in [prev : 0..count, newline : BOOLEAN]
<1> DEFINE f == files[0]
<1>1. f \in Files \union {None} /\ 0 \in 0..Retained /\ count \in Nat
  BY AuditAssumption DEF TypeOK
<1>2. CASE LinesOf(f) = << >>
  BY <1>1, <1>2 DEF TailOf, GENESIS
<1>3. CASE LinesOf(f) # << >>
  <2>1. f \in Files /\ LinesOf(f) = f.lines
    BY <1>1, <1>3 DEF LinesOf
  <2>2. f.lines \in Seq(Lines) /\ f.open \in BOOLEAN
    BY <2>1 DEF Files
  <2>3. Len(f.lines) \in DOMAIN LinesOf(f)
    BY <1>3, <2>1, <2>2
  <2>4. f.lines[Len(f.lines)].id \in Nat
    <3>1. f.lines[Len(f.lines)] \in Lines
      BY <2>1, <2>2, <2>3
    <3> QED
      BY <3>1 DEF Lines
  <2>5. f.lines[Len(f.lines)].id \in 0..count
    BY <1>1, <2>1, <2>3, <2>4 DEF TypeOK
  <2> QED
    BY <1>3, <2>2, <2>5 DEF TailOf
<1> QED
  BY <1>2, <1>3

LEMMA TypeInit == Init => TypeOK
BY AuditAssumption DEF Init, TypeOK, LinesOf, Steps, GENESIS

\* A logger that parses a key file has the key of it, or gives up.
LEMMA KeyParsed ==
    ASSUME TypeOK, NEW p \in Loggers, keyFile # None, ParseKey(p)
    PROVE  /\ pc' \in [Loggers -> Steps]
           /\ held' \in [Loggers -> Loggers \union {None}]
           /\ \A q \in Loggers : q # p => pc'[q] = pc[q] /\ held'[q] = held[q]
           /\ \/ keyFile.written /\ held'[p] = keyFile.by /\ held'[p] # None /\ pc'[p] = "append"
              \/ held'[p] = held[p] /\ pc'[p] = "idle"
<1>1. keyFile.by \in Loggers /\ keyFile.by # None
  BY AuditAssumption DEF TypeOK, KeyFiles
<1>2. CASE keyFile.written
  <2>1. held' = [held EXCEPT ![p] = keyFile.by] /\ pc' = [pc EXCEPT ![p] = "append"]
    BY <1>2 DEF ParseKey, Goto
  <2> QED
    BY <1>1, <1>2, <2>1 DEF TypeOK, Steps
<1>3. CASE ~keyFile.written
  <2>1. held' = held /\ pc' = [pc EXCEPT ![p] = "idle"]
    BY <1>3 DEF ParseKey, Throw, Goto
  <2> QED
    BY <2>1 DEF TypeOK, Steps
<1> QED
  BY <1>2, <1>3

LEMMA TypeStep == TypeOK /\ [Next]_vars => TypeOK'
<1> SUFFICES ASSUME TypeOK, [Next]_vars PROVE TypeOK'
  OBVIOUS
<1> USE DEF Goto
<1>1. ASSUME NEW p \in Loggers, Begin(p) PROVE TypeOK'
  <2>1. Retained \in 0..Retained /\ Retained # 0
    BY AuditAssumption
  <2>2. CASE pc' = [pc EXCEPT ![p] = "rotate"] /\ level' = [level EXCEPT ![p] = Retained]
    BY <1>1, <2>1, <2>2 DEF Begin, TypeOK, Steps, logFiles
  <2>3. CASE pc' = [pc EXCEPT ![p] = "tail"] /\ level' = level
    BY <1>1, <2>3 DEF Begin, TypeOK, Steps, logFiles
  <2> QED
    BY <1>1, <2>2, <2>3 DEF Begin
<1>2. ASSUME NEW p \in Loggers, Rotate(p) PROVE TypeOK'
  <2>1. FilesTyped' /\ Numbered' /\ expired' \subseteq 1..count
    BY <1>2, RotateMoves, RotateNumbered
  <2>2. level[p] \in 1..Retained
    BY <1>2, RotateMoves
  <2>3. pc' \in [Loggers -> Steps] /\ level' \in [Loggers -> 0..Retained]
    <3>1. level[p] - 1 \in 0..Retained
      BY <2>2, AuditAssumption
    <3>2. level' = [level EXCEPT ![p] = level[p] - 1]
      BY <1>2 DEF Rotate
    <3>3. pc' = [pc EXCEPT ![p] = "tail"] \/ pc' = pc
      BY <1>2 DEF Rotate
    <3> QED
      BY <3>1, <3>2, <3>3 DEF TypeOK, Steps
  <2>4. \A q \in Loggers : pc'[q] = "rotate" => level'[q] # 0
    BY <1>2, <2>2, AuditAssumption DEF Rotate, TypeOK
  <2>5. \A q \in Loggers : pc'[q] = "append" => held'[q] # None
    BY <1>2 DEF Rotate, TypeOK
  <2> QED
    BY <1>2, <2>1, <2>3, <2>4, <2>5 DEF Rotate, TypeOK, FilesTyped, Numbered
<1>3. ASSUME NEW p \in Loggers, ReadTail(p) PROVE TypeOK'
  <2>1. TailOf(files[0]) \in [prev : 0..count, newline : BOOLEAN]
    BY TailTyped
  <2> QED
    BY <1>3, <2>1 DEF ReadTail, TypeOK, Steps, logFiles
<1>4. ASSUME NEW p \in Loggers, LoadKey(p) PROVE TypeOK'
  <2>1. CASE pc' = [pc EXCEPT ![p] = "createKey"] /\ held' = held
    BY <1>4, <2>1 DEF LoadKey, TypeOK, Steps, logFiles
  <2>2. CASE keyFile # None /\ ParseKey(p)
    BY <1>4, <2>2, KeyParsed DEF LoadKey, TypeOK, logFiles
  <2> QED
    BY <1>4, <2>1, <2>2 DEF LoadKey
<1>5. ASSUME NEW p \in Loggers, CreateKey(p) PROVE TypeOK'
  <2>1. CASE keyFile = None
    <3>1. /\ keyFile' = [by |-> p, written |-> FALSE] /\ held' = held
          /\ pc' = [pc EXCEPT ![p] = "writeKey"]
      BY <1>5, <2>1 DEF CreateKey
    <3>2. keyFile' \in KeyFiles
      BY <3>1 DEF KeyFiles
    <3> QED
      BY <1>5, <3>1, <3>2 DEF CreateKey, TypeOK, Steps
  <2>2. CASE keyFile # None
    BY <1>5, <2>2, KeyParsed DEF CreateKey, TypeOK
  <2> QED
    BY <2>1, <2>2
<1>6. ASSUME NEW p \in Loggers, WriteKey(p) PROVE TypeOK'
  BY <1>6 DEF WriteKey, TypeOK, Steps, KeyFiles
<1>7. ASSUME NEW p \in Loggers, WritePub(p) PROVE TypeOK'
  BY <1>7, AuditAssumption DEF WritePub, TypeOK, Steps
<1>8. ASSUME NEW p \in Loggers, NEW whole \in BOOLEAN, NEW open \in BOOLEAN,
             pc[p] = "append", files' = Appended(p, whole, open), count' = count + 1
      PROVE  /\ FilesTyped' /\ Numbered' /\ count' \in Nat
             /\ tail \in [Loggers -> [prev : 0..count', newline : BOOLEAN]]
             /\ returned \subseteq 1..count' /\ expired \subseteq 1..count'
             /\ count' \in 1..count'
  <2>1. FilesTyped' /\ Numbered'
    BY <1>8, AppendNumbered
  <2>2. count \in Nat /\ 0..count \subseteq 0..(count + 1) /\ 1..count \subseteq 1..(count + 1)
    BY DEF TypeOK
  <2> QED
    BY <1>8, <2>1, <2>2 DEF TypeOK
<1>9. ASSUME NEW p \in Loggers, AppendLine(p) PROVE TypeOK'
  <2>1. /\ FilesTyped' /\ Numbered' /\ count' \in Nat
        /\ tail' \in [Loggers -> [prev : 0..count', newline : BOOLEAN]]
        /\ returned' \subseteq 1..count' /\ expired' \subseteq 1..count'
    BY <1>8, <1>9 DEF AppendLine
  <2>2. pc' \in [Loggers -> Steps] /\ \A q \in Loggers : pc'[q] = pc[q] \/ pc'[q] = "idle"
    BY <1>9 DEF AppendLine, TypeOK, Steps
  <2> QED
    BY <1>9, <2>1, <2>2 DEF AppendLine, TypeOK, FilesTyped, Numbered
<1>10. ASSUME NEW p \in Loggers, AppendCut(p) PROVE TypeOK'
  <2>1. /\ FilesTyped' /\ Numbered' /\ count' \in Nat
        /\ tail' \in [Loggers -> [prev : 0..count', newline : BOOLEAN]]
        /\ returned' \subseteq 1..count' /\ expired' \subseteq 1..count'
    BY <1>8, <1>10 DEF AppendCut
  <2>2. /\ pc' \in [Loggers -> Steps]
        /\ \A q \in Loggers : (q # p /\ pc'[q] = pc[q]) \/ pc'[q] = "idle"
    BY <1>10 DEF AppendCut, TypeOK, Steps
  <2>3. /\ held' \in [Loggers -> Loggers \union {None}]
        /\ \A q \in Loggers : q # p => held'[q] = held[q]
    BY <1>10 DEF AppendCut, TypeOK
  <2> QED
    BY <1>10, <2>1, <2>2, <2>3 DEF AppendCut, TypeOK, FilesTyped, Numbered
<1>11. ASSUME NEW p \in Loggers, Crash(p) PROVE TypeOK'
  BY <1>11 DEF Crash, TypeOK, Steps, logFiles
<1>12. CASE UNCHANGED vars
  BY <1>12 DEF vars, logFiles, TypeOK
<1> QED
  BY <1>1, <1>2, <1>3, <1>4, <1>5, <1>6, <1>7, <1>9, <1>10, <1>11, <1>12 DEF Next

(***************************************************************************)
(* The types of AuditLog, for every number of loggers, files and records.  *)
(***************************************************************************)
THEOREM TypeCorrect == Spec => []TypeOK
BY TypeInit, TypeStep, PTL DEF Spec

-----------------------------------------------------------------------------
(***************************************************************************)
(* One key.  OneKey is kept because a logger signs with the key that is in *)
(* the file, and whoever creates the file has it to itself until the key   *)
(* is written.                                                             *)
(***************************************************************************)
KeyInv ==
    /\ OneKey
    /\ \A p \in Loggers : held[p] # None => keyFile = [by |-> held[p], written |-> TRUE]
    /\ \A p \in Loggers : pc[p] = "writeKey" => keyFile = [by |-> p, written |-> FALSE]
    /\ \A p \in Loggers : pc[p] = "writePub" => keyFile = [by |-> p, written |-> TRUE]

\* Without a written key nobody can sign, and no record is whole.
LEMMA NothingSigned ==
    ASSUME TypeOK, KeyInv, keyFile = None \/ ~keyFile.written
    PROVE  /\ \A q \in Loggers : held[q] = None
           /\ \A i \in 0..Retained : \A j \in DOMAIN LinesOf(files[i]) :
                 ~LinesOf(files[i])[j].whole
<1>1. \A k \in Loggers : keyFile # [by |-> k, written |-> TRUE]
  <2>1. \A k \in Loggers : [by |-> k, written |-> TRUE] \in KeyFiles
    BY DEF KeyFiles
  <2>2. CASE keyFile = None
    BY <2>1, <2>2, AuditAssumption
  <2>3. CASE ~keyFile.written
    BY <2>3
  <2> QED
    BY <2>2, <2>3
<1>2. \A q \in Loggers : held[q] = None
  BY <1>1 DEF KeyInv, TypeOK
<1>3. ASSUME NEW i \in 0..Retained, NEW j \in DOMAIN LinesOf(files[i])
      PROVE  ~LinesOf(files[i])[j].whole
  <2>1. LinesOf(files[i]) \in Seq(Lines)
    BY LinesTyped DEF TypeOK
  <2>2. LinesOf(files[i])[j] \in Lines
    BY <2>1
  <2> QED
    BY <1>1, <2>2 DEF KeyInv, OneKey, Lines
<1> QED
  BY <1>2, <1>3

LEMMA KeyFileIsThere ==
    ASSUME NEW p \in Loggers, NEW w \in BOOLEAN
    PROVE  [by |-> p, written |-> w] # None
<1>1. [by |-> p, written |-> w] \in KeyFiles
  BY DEF KeyFiles
<1> QED
  BY <1>1, AuditAssumption

LEMMA KeyStep == TypeOK /\ KeyInv /\ [Next]_vars => KeyInv'
<1> SUFFICES ASSUME TypeOK, KeyInv, [Next]_vars PROVE KeyInv'
  OBVIOUS
<1> DEFINE Keys == <<files, keyFile, pubFile, held>>
<1>1. ASSUME NEW p \in Loggers, UNCHANGED Keys,
             \A q \in Loggers : pc'[q] \in {"writeKey", "writePub"} => pc'[q] = pc[q]
      PROVE  KeyInv'
  BY <1>1 DEF KeyInv, OneKey
<1>2. ASSUME NEW p \in Loggers, Begin(p) PROVE KeyInv'
  <2>1. \A q \in Loggers : pc'[q] \in {"writeKey", "writePub"} => pc'[q] = pc[q]
    BY <1>2 DEF Begin, Goto, TypeOK
  <2> QED
    BY <1>1, <1>2, <2>1 DEF Begin, logFiles
<1>3. ASSUME NEW p \in Loggers, ReadTail(p) PROVE KeyInv'
  <2>1. \A q \in Loggers : pc'[q] \in {"writeKey", "writePub"} => pc'[q] = pc[q]
    BY <1>3 DEF ReadTail, Goto, TypeOK
  <2> QED
    BY <1>1, <1>3, <2>1 DEF ReadTail, logFiles
<1>4. ASSUME NEW p \in Loggers, Rotate(p) PROVE KeyInv'
  <2>1. \A i \in 0..Retained : files'[i] = None \/ \E k \in 0..Retained : files'[i] = files[k]
    BY <1>4, RotatePermutes
  <2>2. \A q \in Loggers : pc'[q] \in {"writeKey", "writePub"} => pc'[q] = pc[q]
    BY <1>4 DEF Rotate, Goto, TypeOK
  <2>3. UNCHANGED <<keyFile, pubFile, held>>
    BY <1>4 DEF Rotate
  <2>4. LinesOf(None) = << >>
    BY DEF LinesOf
  <2>5. OneKey'
    BY <2>1, <2>3, <2>4 DEF KeyInv, OneKey, LinesOf
  <2> QED
    BY <2>2, <2>3, <2>5 DEF KeyInv
<1>5. ASSUME NEW p \in Loggers, keyFile # None, ParseKey(p),
             UNCHANGED <<files, keyFile, pubFile>>
      PROVE  KeyInv'
  <2>1. /\ \A q \in Loggers : q # p => pc'[q] = pc[q] /\ held'[q] = held[q]
        /\ \/ keyFile.written /\ held'[p] = keyFile.by /\ pc'[p] = "append"
           \/ held'[p] = held[p] /\ pc'[p] = "idle"
    BY <1>5, KeyParsed
  <2>2. keyFile.written => keyFile = [by |-> keyFile.by, written |-> TRUE]
    BY <1>5 DEF TypeOK, KeyFiles
  <2> QED
    BY <1>5, <2>1, <2>2 DEF KeyInv, OneKey
<1>6. ASSUME NEW p \in Loggers, LoadKey(p) PROVE KeyInv'
  <2>1. CASE keyFile = None
    <3>1. \A q \in Loggers : pc'[q] \in {"writeKey", "writePub"} => pc'[q] = pc[q]
      BY <1>6, <2>1 DEF LoadKey, Goto, TypeOK
    <3> QED
      BY <1>1, <1>6, <2>1, <3>1 DEF LoadKey, logFiles
  <2>2. CASE keyFile # None
    BY <1>5, <1>6, <2>2 DEF LoadKey, logFiles
  <2> QED
    BY <2>1, <2>2
<1>7. ASSUME NEW p \in Loggers, CreateKey(p) PROVE KeyInv'
  <2>1. CASE keyFile = None
    <3>1. /\ keyFile' = [by |-> p, written |-> FALSE] /\ UNCHANGED <<files, pubFile, held>>
          /\ pc' = [pc EXCEPT ![p] = "writeKey"]
      BY <1>7, <2>1 DEF CreateKey, Goto
    <3>2. /\ \A q \in Loggers : held[q] = None
          /\ \A i \in 0..Retained : \A j \in DOMAIN LinesOf(files[i]) :
                ~LinesOf(files[i])[j].whole
          /\ pubFile = None
      BY <2>1, NothingSigned DEF KeyInv, OneKey
    <3>3. \A q \in Loggers : pc[q] \notin {"writeKey", "writePub"}
      BY <2>1, KeyFileIsThere DEF KeyInv
    <3>4. OneKey'
      BY <3>1, <3>2 DEF OneKey
    <3>5. /\ pc'[p] = "writeKey"
          /\ \A q \in Loggers : q # p => pc'[q] \notin {"writeKey", "writePub"}
      BY <3>1, <3>3 DEF TypeOK
    <3> QED
      BY <3>1, <3>2, <3>4, <3>5 DEF KeyInv
  <2>2. CASE keyFile # None
    BY <1>5, <1>7, <2>2 DEF CreateKey
  <2> QED
    BY <2>1, <2>2
<1>8. ASSUME NEW p \in Loggers, WriteKey(p) PROVE KeyInv'
  <2>1. /\ keyFile = [by |-> p, written |-> FALSE]
        /\ keyFile' = [by |-> p, written |-> TRUE] /\ UNCHANGED <<files, pubFile, held>>
        /\ pc' = [pc EXCEPT ![p] = "writePub"]
    BY <1>8 DEF WriteKey, Goto, KeyInv
  <2>2. /\ \A q \in Loggers : held[q] = None
        /\ \A i \in 0..Retained : \A j \in DOMAIN LinesOf(files[i]) :
              ~LinesOf(files[i])[j].whole
    BY <2>1, NothingSigned
  <2>3. keyFile' # None
    BY <2>1, KeyFileIsThere
  <2>4. OneKey'
    BY <2>1, <2>2, <2>3 DEF KeyInv, OneKey
  <2>5. \A q \in Loggers : q # p => pc[q] \notin {"writeKey", "writePub"}
    BY <2>1 DEF KeyInv
  <2>6. /\ pc'[p] = "writePub"
        /\ \A q \in Loggers : q # p => pc'[q] \notin {"writeKey", "writePub"}
    BY <2>1, <2>5 DEF TypeOK
  <2> QED
    BY <2>1, <2>2, <2>4, <2>6 DEF KeyInv
<1>9. ASSUME NEW p \in Loggers, WritePub(p) PROVE KeyInv'
  <2>1. /\ keyFile = [by |-> p, written |-> TRUE] /\ keyFile # None
        /\ pubFile' = p /\ UNCHANGED <<files, keyFile>>
        /\ held' = [held EXCEPT ![p] = p] /\ pc' = [pc EXCEPT ![p] = "append"]
    BY <1>9, KeyFileIsThere DEF WritePub, Goto, KeyInv
  <2>2. OneKey'
    BY <2>1 DEF KeyInv, OneKey
  <2>3. \A q \in Loggers : /\ held'[q] = IF q = p THEN p ELSE held[q]
                           /\ pc'[q] = IF q = p THEN "append" ELSE pc[q]
    BY <2>1 DEF TypeOK
  <2>4. \A q \in Loggers : held'[q] # None => keyFile' = [by |-> held'[q], written |-> TRUE]
    BY <2>1, <2>3 DEF KeyInv
  <2>5. \A q \in Loggers : pc'[q] \in {"writeKey", "writePub"} => pc'[q] = pc[q]
    BY <2>3
  <2>6. /\ \A q \in Loggers : pc'[q] = "writeKey" => keyFile' = [by |-> q, written |-> FALSE]
        /\ \A q \in Loggers : pc'[q] = "writePub" => keyFile' = [by |-> q, written |-> TRUE]
    BY <2>1, <2>5 DEF KeyInv
  <2> QED
    BY <2>2, <2>4, <2>6 DEF KeyInv
<1>10. ASSUME NEW p \in Loggers, NEW whole \in BOOLEAN, NEW open \in BOOLEAN,
              pc[p] = "append", files' = Appended(p, whole, open),
              UNCHANGED <<keyFile, pubFile>>
       PROVE  OneKey'
  <2>1. /\ FilesTyped'
        /\ \A i \in 1..Retained : files'[i] = files[i]
    BY <1>10, AppendAdds
  <2>2. PICK n \in Nat :
           /\ n <= Len(LinesOf(files[0]))
           /\ Len(LinesOf(files'[0])) = n + 1
           /\ \A j \in 1..n : LinesOf(files'[0])[j] = LinesOf(files[0])[j]
           /\ LinesOf(files'[0])[n + 1].key = held[p]
    BY <1>10, AppendAdds
  <2>3. 0 \in 0..Retained /\ \A i \in 0..Retained : i = 0 \/ i \in 1..Retained
    BY AuditAssumption
  <2>4. LinesOf(files[0]) \in Seq(Lines) /\ LinesOf(files'[0]) \in Seq(Lines)
    BY <2>1, <2>3, LinesTyped DEF TypeOK, FilesTyped
  <2>5. /\ DOMAIN LinesOf(files'[0]) = 1..(n + 1)
        /\ \A j \in 1..n : j \in DOMAIN LinesOf(files[0])
    BY <2>2, <2>4
  <2>6. keyFile = [by |-> held[p], written |-> TRUE]
    BY <1>10 DEF TypeOK, KeyInv
  <2>7. ASSUME NEW i \in 0..Retained, NEW j \in DOMAIN LinesOf(files'[i]),
               LinesOf(files'[i])[j].whole
        PROVE  keyFile = [by |-> LinesOf(files'[i])[j].key, written |-> TRUE]
    <3>1. CASE i = 0 /\ j = n + 1
      BY <2>2, <2>6, <3>1
    <3>2. CASE i = 0 /\ j \in 1..n
      BY <2>2, <2>3, <2>5, <2>7, <3>2 DEF KeyInv, OneKey
    <3>3. CASE i \in 1..Retained
      BY <2>1, <2>7, <3>3 DEF KeyInv, OneKey
    <3> QED
      BY <2>3, <2>5, <3>1, <3>2, <3>3
  <2> QED
    BY <1>10, <2>7 DEF KeyInv, OneKey
<1>11. ASSUME NEW p \in Loggers, AppendLine(p) PROVE KeyInv'
  <2>1. OneKey'
    BY <1>10, <1>11 DEF AppendLine
  <2>2. \A q \in Loggers : pc'[q] \in {"writeKey", "writePub"} => pc'[q] = pc[q]
    BY <1>11 DEF AppendLine, Goto, TypeOK
  <2> QED
    BY <1>11, <2>1, <2>2 DEF AppendLine, KeyInv
<1>12. ASSUME NEW p \in Loggers, AppendCut(p) PROVE KeyInv'
  <2>1. OneKey'
    BY <1>10, <1>12 DEF AppendCut
  <2>2. /\ \A q \in Loggers : pc'[q] \in {"writeKey", "writePub"} => pc'[q] = pc[q]
        /\ \A q \in Loggers : held'[q] = held[q] \/ held'[q] = None
    BY <1>12 DEF AppendCut, Goto, TypeOK
  <2> QED
    BY <1>12, <2>1, <2>2 DEF AppendCut, KeyInv
<1>13. ASSUME NEW p \in Loggers, Crash(p) PROVE KeyInv'
  <2>1. /\ \A q \in Loggers : pc'[q] \in {"writeKey", "writePub"} => pc'[q] = pc[q]
        /\ \A q \in Loggers : held'[q] = held[q] \/ held'[q] = None
    BY <1>13 DEF Crash, Goto, TypeOK
  <2> QED
    BY <1>13, <2>1 DEF Crash, logFiles, KeyInv, OneKey
<1>14. CASE UNCHANGED vars
  BY <1>14 DEF vars, logFiles, KeyInv, OneKey
<1> QED
  BY <1>2, <1>3, <1>4, <1>6, <1>7, <1>8, <1>9, <1>11, <1>12, <1>13, <1>14 DEF Next

(***************************************************************************)
(* All whole records, in whatever order loggers create keys, rotate,       *)
(* append and die, verify against the one key in the key file.             *)
(***************************************************************************)
THEOREM OneKeyHolds == Spec => []OneKey
<1>1. Init => KeyInv
  BY AuditAssumption DEF Init, KeyInv, OneKey, LinesOf
<1>2. KeyInv => OneKey
  BY DEF KeyInv
<1> QED
  BY <1>1, <1>2, KeyStep, TypeCorrect, PTL DEF Spec

-----------------------------------------------------------------------------
(***************************************************************************)
(* One call at a time.  When no two processes are in a call at once, what  *)
(* readTail told a logger is still so when it appends, and the place that  *)
(* a rotation fills is empty.  The chain follows from the first, and that  *)
(* no record is lost from both.                                            *)
(***************************************************************************)
AfterTail == {"loadKey", "createKey", "writeKey", "writePub", "append"}

OneCall == \A p, q \in Loggers : pc[p] # "idle" /\ pc[q] # "idle" => p = q
TailIsRead == \A p \in Loggers : pc[p] \in AfterTail => tail[p] = TailOf(files[0])
GapIsOpen ==
    \A p \in Loggers : pc[p] = "rotate" /\ level[p] # Retained => files[level[p]] = None

SerialInv == ~overlap => OneCall /\ TailIsRead /\ GapIsOpen

LEMMA SerialStep == TypeOK /\ SerialInv /\ [Next]_vars => SerialInv'
<1> SUFFICES ASSUME TypeOK, OneCall, TailIsRead, GapIsOpen, ~overlap, overlap' = overlap, [Next]_vars
             PROVE  OneCall' /\ TailIsRead' /\ GapIsOpen'
  <2>1. [Next]_vars => overlap' = overlap
    BY DEF Next, vars, Begin, Rotate, ReadTail, LoadKey, CreateKey, WriteKey, WritePub,
           AppendLine, AppendCut, Crash
  <2> QED
    BY <2>1 DEF SerialInv
<1>1. ASSUME NEW p \in Loggers, pc[p] # "idle",
             \A q \in Loggers : q # p => pc'[q] = pc[q]
      PROVE  OneCall' /\ \A q \in Loggers : q # p => pc'[q] = "idle"
  BY <1>1 DEF OneCall
\* The log, the tails and the levels stay, and p is idle or further in its call.
<1>2. ASSUME NEW p \in Loggers, pc[p] # "idle", UNCHANGED <<files, tail, level>>,
             \A q \in Loggers : q # p => pc'[q] = pc[q],
             pc'[p] = "idle" \/ (pc[p] \in AfterTail /\ pc'[p] # "rotate")
      PROVE  OneCall' /\ TailIsRead' /\ GapIsOpen'
  <2>1. OneCall' /\ \A q \in Loggers : q # p => pc'[q] = "idle"
    BY <1>1, <1>2
  <2>2. "idle" # "rotate" /\ "idle" \notin AfterTail
    BY DEF AfterTail
  <2>3. GapIsOpen'
    BY <1>2, <2>1, <2>2 DEF GapIsOpen
  <2>4. TailIsRead'
    BY <1>2, <2>1, <2>2 DEF TailIsRead
  <2> QED
    BY <2>1, <2>3, <2>4
<1>3. ASSUME NEW p \in Loggers, Begin(p) PROVE OneCall' /\ TailIsRead' /\ GapIsOpen'
  <2>1. /\ \A q \in Loggers : pc[q] = "idle"
        /\ \A q \in Loggers : q # p => pc'[q] = "idle"
        /\ (pc'[p] = "rotate" /\ level'[p] = Retained) \/ pc'[p] = "tail"
    BY <1>3 DEF Begin, Goto, TypeOK
  <2> QED
    BY <2>1 DEF OneCall, TailIsRead, GapIsOpen, AfterTail
<1>4. ASSUME NEW p \in Loggers, Rotate(p) PROVE OneCall' /\ TailIsRead' /\ GapIsOpen'
  <2>1. /\ pc[p] = "rotate" /\ pc'[p] \in {"rotate", "tail"}
        /\ \A q \in Loggers : q # p => pc'[q] = pc[q]
        /\ level'[p] = level[p] - 1
    BY <1>4 DEF Rotate, Goto, TypeOK
  <2>2. OneCall' /\ \A q \in Loggers : q # p => pc'[q] = "idle"
    BY <1>1, <2>1
  <2>3. files'[level[p] - 1] = None
    BY <1>4, RotateMoves
  <2> QED
    BY <2>1, <2>2, <2>3 DEF TailIsRead, GapIsOpen, AfterTail
<1>5. ASSUME NEW p \in Loggers, ReadTail(p) PROVE OneCall' /\ TailIsRead' /\ GapIsOpen'
  <2>1. /\ pc[p] = "tail" /\ pc'[p] \in {"loadKey", "append"}
        /\ \A q \in Loggers : q # p => pc'[q] = pc[q]
        /\ tail'[p] = TailOf(files[0]) /\ files' = files
    BY <1>5 DEF ReadTail, Goto, TypeOK, logFiles
  <2>2. OneCall' /\ \A q \in Loggers : q # p => pc'[q] = "idle"
    BY <1>1, <2>1
  <2> QED
    BY <2>1, <2>2 DEF TailIsRead, GapIsOpen, AfterTail
<1>6. ASSUME NEW p \in Loggers, LoadKey(p) PROVE OneCall' /\ TailIsRead' /\ GapIsOpen'
  <2>1. /\ pc[p] = "loadKey" /\ pc'[p] \in {"createKey", "append", "idle"}
        /\ \A q \in Loggers : q # p => pc'[q] = pc[q]
    BY <1>6 DEF LoadKey, ParseKey, Throw, Goto, TypeOK
  <2> QED
    BY <1>2, <1>6, <2>1 DEF LoadKey, logFiles, AfterTail
<1>7. ASSUME NEW p \in Loggers, CreateKey(p) PROVE OneCall' /\ TailIsRead' /\ GapIsOpen'
  <2>1. /\ pc[p] = "createKey" /\ pc'[p] \in {"writeKey", "append", "idle"}
        /\ \A q \in Loggers : q # p => pc'[q] = pc[q]
    BY <1>7 DEF CreateKey, ParseKey, Throw, Goto, TypeOK
  <2> QED
    BY <1>2, <1>7, <2>1 DEF CreateKey, AfterTail
<1>8. ASSUME NEW p \in Loggers, WriteKey(p) PROVE OneCall' /\ TailIsRead' /\ GapIsOpen'
  <2>1. /\ pc[p] = "writeKey" /\ pc'[p] = "writePub"
        /\ \A q \in Loggers : q # p => pc'[q] = pc[q]
    BY <1>8 DEF WriteKey, Goto, TypeOK
  <2> QED
    BY <1>2, <1>8, <2>1 DEF WriteKey, AfterTail
<1>9. ASSUME NEW p \in Loggers, WritePub(p) PROVE OneCall' /\ TailIsRead' /\ GapIsOpen'
  <2>1. /\ pc[p] = "writePub" /\ pc'[p] = "append"
        /\ \A q \in Loggers : q # p => pc'[q] = pc[q]
    BY <1>9 DEF WritePub, Goto, TypeOK
  <2> QED
    BY <1>2, <1>9, <2>1 DEF WritePub, AfterTail
<1>10. ASSUME NEW p \in Loggers, AppendLine(p) \/ AppendCut(p)
       PROVE  OneCall' /\ TailIsRead' /\ GapIsOpen'
  <2>1. /\ pc[p] = "append" /\ pc'[p] = "idle"
        /\ \A q \in Loggers : q # p => pc'[q] = pc[q]
    BY <1>10 DEF AppendLine, AppendCut, Goto, TypeOK
  <2>2. OneCall' /\ \A q \in Loggers : q # p => pc'[q] = "idle"
    BY <1>1, <2>1
  <2> QED
    BY <2>1, <2>2 DEF TailIsRead, GapIsOpen, AfterTail
<1>11. ASSUME NEW p \in Loggers, Crash(p) PROVE OneCall' /\ TailIsRead' /\ GapIsOpen'
  <2>1. \A q \in Loggers : pc'[q] = pc[q] \/ pc'[q] = "idle"
    BY <1>11 DEF Crash, Goto, TypeOK
  <2>2. UNCHANGED <<files, tail, level>>
    BY <1>11 DEF Crash, logFiles
  <2> QED
    BY <2>1, <2>2 DEF OneCall, TailIsRead, GapIsOpen, AfterTail
<1>12. CASE UNCHANGED vars
  BY <1>12 DEF vars, logFiles, OneCall, TailIsRead, GapIsOpen
<1> QED
  BY <1>3, <1>4, <1>5, <1>6, <1>7, <1>8, <1>9, <1>10, <1>11, <1>12 DEF Next

\* When what readTail told p is so, its line follows the last one and joins none.
LEMMA AppendFollows ==
    ASSUME TypeOK, NEW p \in Loggers, pc[p] = "append", tail[p] = TailOf(files[0]),
           NEW whole \in BOOLEAN, NEW open \in BOOLEAN,
           files' = Appended(p, whole, open)
    PROVE  LET old == LinesOf(files[0])
               new == LinesOf(files'[0])
               n == Len(old)
           IN  /\ \A i \in 1..Retained : files'[i] = files[i]
               /\ n \in Nat /\ DOMAIN old = 1..n /\ DOMAIN new = 1..(n + 1)
               /\ \A j \in 1..n : new[j] = old[j]
               /\ new[n + 1].id = count + 1
               /\ new[n + 1].prev = IF n = 0 THEN GENESIS ELSE old[n].id
               /\ new[n + 1].whole = whole
<1>1. FilesTyped' /\ \A i \in 1..Retained : files'[i] = files[i]
  BY AppendAdds
<1> DEFINE f == files[0]
           old == LinesOf(f)
<1>2. /\ 0 \in 0..Retained /\ f \in Files \union {None}
      /\ f # None => f.lines # << >>
  BY AuditAssumption DEF TypeOK
<1>3. old \in Seq(Lines) /\ LinesOf(files'[0]) \in Seq(Lines)
  <2>1. files'[0] \in Files \union {None}
    BY <1>1, <1>2 DEF FilesTyped
  <2>2. LinesOf(files'[0]) \in Seq(Lines)
    BY <2>1, LinesTyped
  <2>3. old \in Seq(Lines)
    BY <1>2, LinesTyped
  <2> QED
    BY <2>2, <2>3
<1>4. f = None \/ ~f.open \/ tail[p].newline
  <2> SUFFICES ASSUME f # None PROVE ~f.open \/ tail[p].newline
    OBVIOUS
  <2>1. LinesOf(f) # << >>
    BY <1>2 DEF LinesOf
  <2>2. tail[p].newline = f.open
    BY <2>1 DEF TailOf
  <2>3. f.open \in BOOLEAN
    BY <1>2 DEF Files
  <2> QED
    BY <2>2, <2>3
<1>5. PICK n \in Nat :
         /\ Len(LinesOf(files'[0])) = n + 1
         /\ \A j \in 1..n : LinesOf(files'[0])[j] = old[j]
         /\ LinesOf(files'[0])[n + 1].id = count + 1
         /\ LinesOf(files'[0])[n + 1].prev = tail[p].prev
         /\ n = Len(old) /\ LinesOf(files'[0])[n + 1].whole = whole
  BY <1>4, AppendAdds
<1>6. tail[p].prev = IF Len(old) = 0 THEN GENESIS ELSE old[Len(old)].id
  <2>1. CASE old = << >>
    BY <2>1 DEF TailOf
  <2>2. CASE old # << >>
    <3>1. f # None /\ old = f.lines
      BY <2>2 DEF LinesOf
    <3>2. Len(old) # 0
      BY <1>3, <2>2
    <3> QED
      BY <2>2, <3>1, <3>2 DEF TailOf
  <2> QED
    BY <2>1, <2>2
<1> QED
  BY <1>1, <1>3, <1>5, <1>6

-----------------------------------------------------------------------------
\* A step that begins or ends a call, or that is about the key, leaves the files alone.
LEMMA FilesChange ==
    ASSUME [Next]_vars
    PROVE  \/ files' = files /\ returned' = returned /\ expired' = expired
           \/ \E p \in Loggers : Rotate(p)
           \/ \E p \in Loggers : AppendLine(p) \/ AppendCut(p)
BY DEF Next, vars, logFiles, Begin, ReadTail, LoadKey, CreateKey, WriteKey, WritePub, Crash

\* In a call that appends, the line follows the last one that is there.
LEMMA AppendIsNext ==
    ASSUME TypeOK, TailIsRead, NEW p \in Loggers, AppendLine(p) \/ AppendCut(p)
    PROVE  /\ pc[p] = "append" /\ tail[p] = TailOf(files[0])
           /\ \E whole, open \in BOOLEAN :
                 files' = Appended(p, whole, open) /\ (AppendLine(p) => whole)
<1>1. pc[p] = "append" /\ tail[p] = TailOf(files[0])
  BY DEF AppendLine, AppendCut, TailIsRead, AfterTail
<1>2. CASE AppendLine(p)
  BY <1>1, <1>2 DEF AppendLine
<1>3. CASE AppendCut(p) /\ ~AppendLine(p)
  BY <1>1, <1>3 DEF AppendCut
<1> QED
  BY <1>2, <1>3

ChainInv == ~overlap => ChainHolds

LEMMA ChainStep == TypeOK /\ SerialInv /\ ChainInv /\ [Next]_vars => ChainInv'
<1> SUFFICES ASSUME TypeOK, TailIsRead, ChainHolds, [Next]_vars PROVE ChainHolds'
  <2>1. [Next]_vars => overlap' = overlap
    BY DEF Next, vars, Begin, Rotate, ReadTail, LoadKey, CreateKey, WriteKey, WritePub,
           AppendLine, AppendCut, Crash
  <2> QED
    BY <2>1 DEF SerialInv, ChainInv
<1>1. CASE files' = files
  BY <1>1 DEF ChainHolds
<1>2. ASSUME NEW p \in Loggers, Rotate(p) PROVE ChainHolds'
  <2>1. \A i \in 0..Retained :
           files'[i] = None \/ \E k \in 0..Retained : files'[i] = files[k]
    BY <1>2, RotatePermutes
  <2>2. LinesOf(None) = << >>
    BY DEF LinesOf
  <2> QED
    BY <2>1, <2>2 DEF ChainHolds, LinesOf
<1>3. ASSUME NEW p \in Loggers, AppendLine(p) \/ AppendCut(p) PROVE ChainHolds'
  <2> DEFINE old == LinesOf(files[0])
             new == LinesOf(files'[0])
             n == Len(old)
  <2>1. /\ \A i \in 1..Retained : files'[i] = files[i]
        /\ n \in Nat /\ DOMAIN old = 1..n /\ DOMAIN new = 1..(n + 1)
        /\ \A j \in 1..n : new[j] = old[j]
        /\ new[n + 1].prev = IF n = 0 THEN GENESIS ELSE old[n].id
    BY <1>3, AppendIsNext, AppendFollows
  <2>2. 0 \in 0..Retained /\ \A i \in 0..Retained : i = 0 \/ i \in 1..Retained
    BY AuditAssumption
  <2>3. \A j \in 1..n : old[j].whole => old[j].prev = IF j = 1 THEN GENESIS ELSE old[j - 1].id
    BY <2>1, <2>2 DEF ChainHolds
  <2>4. ASSUME NEW i \in 1..Retained, NEW j \in DOMAIN LinesOf(files'[i])
        PROVE  LET l == LinesOf(files'[i])
               IN  l[j].whole => l[j].prev = IF j = 1 THEN GENESIS ELSE l[j - 1].id
    BY <2>1, <2>4 DEF ChainHolds
  <2> HIDE DEF old, new, n
  <2>5. ASSUME NEW j \in 1..(n + 1), new[j].whole
        PROVE  new[j].prev = IF j = 1 THEN GENESIS ELSE new[j - 1].id
    <3>1. CASE j = n + 1
      BY <2>1, <3>1
    <3>2. CASE j \in 1..n
      <4>1. new[j] = old[j] /\ (j # 1 => new[j - 1] = old[j - 1])
        BY <2>1, <3>2
      <4> QED
        BY <2>3, <2>5, <3>2, <4>1
    <3> QED
      BY <2>1, <3>1, <3>2
  <2>6. \A j \in DOMAIN new : new[j].whole => new[j].prev = IF j = 1 THEN GENESIS ELSE new[j - 1].id
    BY <2>1, <2>5
  <2> QED
    BY <2>2, <2>4, <2>6 DEF ChainHolds, new
<1> QED
  BY <1>1, <1>2, <1>3, FilesChange

(***************************************************************************)
(* As long as one process at a time is in a call, every whole record       *)
(* chains to the line before it in its file, whatever is cut short, joined *)
(* or rotated, and however many processes take turns.                      *)
(***************************************************************************)
THEOREM SerialChain == Spec => []SerialChainHolds
<1>1. Init => SerialInv /\ ChainInv
  BY AuditAssumption DEF Init, SerialInv, OneCall, TailIsRead, GapIsOpen, AfterTail,
     ChainInv, ChainHolds, LinesOf
<1>2. ChainInv => SerialChainHolds
  BY DEF ChainInv, SerialChainHolds
<1> QED
  BY <1>1, <1>2, SerialStep, ChainStep, TypeCorrect, PTL DEF Spec

\* Record r is in file i as a line of its own.
Kept(r, i) ==
    \E j \in DOMAIN LinesOf(files[i]) :
        LinesOf(files[i])[j].id = r /\ LinesOf(files[i])[j].whole

LossInv == ~overlap => \A r \in returned \ expired : \E i \in 0..Retained : Kept(r, i)

LEMMA LossStep == TypeOK /\ SerialInv /\ LossInv /\ [Next]_vars => LossInv'
<1> SUFFICES ASSUME TypeOK, TailIsRead, GapIsOpen, [Next]_vars,
                    \A r \in returned \ expired : \E i \in 0..Retained : Kept(r, i),
                    NEW r \in returned' \ expired'
             PROVE  \E i \in 0..Retained : Kept(r, i)'
  <2>1. [Next]_vars => overlap' = overlap
    BY DEF Next, vars, Begin, Rotate, ReadTail, LoadKey, CreateKey, WriteKey, WritePub,
           AppendLine, AppendCut, Crash
  <2> QED
    BY <2>1 DEF SerialInv, LossInv
<1>1. CASE files' = files /\ returned' = returned /\ expired' = expired
  BY <1>1 DEF Kept
<1>2. ASSUME NEW p \in Loggers, Rotate(p) PROVE \E i \in 0..Retained : Kept(r, i)'
  <2>0. PICK i \in 0..Retained : i = level[p]
    BY DEF TypeOK
  <2>1. /\ i \in 1..Retained /\ i - 1 \in 0..Retained /\ i \in 0..Retained
        /\ files'[i] = IF files[i - 1] # None THEN files[i - 1]
                       ELSE IF i = Retained THEN None ELSE files[i]
        /\ \A k \in 0..Retained : k # i /\ k # i - 1 => files'[k] = files[k]
    BY <1>2, <2>0, RotateMoves, AuditAssumption
  <2>2. /\ returned' = returned /\ pc[p] = "rotate"
        /\ expired' = IF i = Retained THEN expired \union IdsOf(files[i]) ELSE expired
    BY <1>2, <2>0 DEF Rotate
  <2>3. PICK k \in 0..Retained : Kept(r, k)
    BY <2>2
  <2>4. LinesOf(files[k]) # << >> /\ files[k] # None
    BY <2>3 DEF Kept, LinesOf
  <2>5. CASE k = i
    <3>1. r \in IdsOf(files[i])
      BY <2>3, <2>5 DEF Kept, IdsOf
    <3>2. i # Retained
      BY <2>2, <3>1
    <3>3. files[i] = None
      BY <2>0, <2>2, <3>2 DEF GapIsOpen
    <3> QED
      BY <2>4, <2>5, <3>3
  <2>6. CASE k = i - 1
    <3>1. files'[i] = files[k]
      BY <2>1, <2>4, <2>6
    <3>2. Kept(r, i)'
      BY <2>3, <3>1 DEF Kept
    <3> QED
      BY <2>1, <3>2
  <2>7. CASE k # i /\ k # i - 1
    <3>1. files'[k] = files[k]
      BY <2>1, <2>7
    <3> QED
      BY <2>3, <3>1 DEF Kept
  <2> QED
    BY <2>5, <2>6, <2>7
<1>3. ASSUME NEW p \in Loggers, AppendLine(p) \/ AppendCut(p)
      PROVE  \E i \in 0..Retained : Kept(r, i)'
  <2> DEFINE old == LinesOf(files[0])
             new == LinesOf(files'[0])
             n == Len(old)
  <2>1. PICK whole, open \in BOOLEAN :
           files' = Appended(p, whole, open) /\ (AppendLine(p) => whole)
    BY <1>3, AppendIsNext
  <2>2. /\ \A i \in 1..Retained : files'[i] = files[i]
        /\ n \in Nat /\ DOMAIN old = 1..n /\ DOMAIN new = 1..(n + 1)
        /\ \A j \in 1..n : new[j] = old[j]
        /\ new[n + 1].id = count + 1 /\ new[n + 1].whole = whole
    BY <1>3, <2>1, AppendIsNext, AppendFollows
  <2>3. 0 \in 0..Retained /\ \A i \in 0..Retained : i = 0 \/ i \in 1..Retained
    BY AuditAssumption
  <2>4. /\ expired' = expired
        /\ returned' = IF AppendLine(p) THEN returned \union {count + 1} ELSE returned
    BY <1>3 DEF AppendLine, AppendCut
  <2>5. CASE r \in returned
    <3>1. PICK k \in 0..Retained : Kept(r, k)
      BY <2>4, <2>5
    <3>2. CASE k = 0
      <4>1. PICK j \in 1..n : old[j].id = r /\ old[j].whole
        BY <2>2, <3>1, <3>2 DEF Kept
      <4> HIDE DEF old, new, n
      <4>2. j \in DOMAIN new /\ new[j].id = r /\ new[j].whole
        BY <2>2, <4>1
      <4> USE DEF new
      <4>3. Kept(r, 0)'
        BY <4>2 DEF Kept
      <4> QED
        BY <2>3, <4>3
    <3>3. CASE k \in 1..Retained
      <4>1. files'[k] = files[k]
        BY <2>2, <3>3
      <4> QED
        BY <3>1, <4>1 DEF Kept
    <3> QED
      BY <2>3, <3>2, <3>3
  <2>6. CASE r \notin returned
    <3>1. r = count + 1 /\ whole
      BY <2>1, <2>4, <2>6
    <3> HIDE DEF old, new, n
    <3>2. n + 1 \in DOMAIN new /\ new[n + 1].id = r /\ new[n + 1].whole
      BY <2>2, <3>1
    <3> USE DEF new
    <3>3. Kept(r, 0)'
      BY <3>2 DEF Kept
    <3> QED
      BY <2>3, <3>3
  <2> QED
    BY <2>5, <2>6
<1> QED
  BY <1>1, <1>2, <1>3, FilesChange

(***************************************************************************)
(* As long as one process at a time is in a call, a record whose log()     *)
(* returned stays in one of the files, as a whole line, until its file is  *)
(* deleted as the oldest: neither a rotation nor a cut write loses it.     *)
(***************************************************************************)
THEOREM SerialLoss == Spec => []SerialNoneLost
<1>1. Init => SerialInv /\ LossInv
  BY DEF Init, SerialInv, OneCall, TailIsRead, GapIsOpen, AfterTail, LossInv
<1>2. LossInv => SerialNoneLost
  BY DEF LossInv, SerialNoneLost, NoneLost, Kept
<1> QED
  BY <1>1, <1>2, SerialStep, LossStep, TypeCorrect, PTL DEF Spec
-----------------------------------------------------------------------------
(***************************************************************************)
(* TranscriptWatch and SecretExposure.                                     *)
(*                                                                         *)
(* Shaped says what is known of a command by where it stands, and gives    *)
(* the types.  KeptWhole, for the lines of the session: a rewrite that is  *)
(* past its comparison, or compares with a stamp that is still the file's, *)
(* has every line.  Serial, for commands that do not overlap: one is in    *)
(* the middle, and what it read of the store and the annotations is still  *)
(* there.  Tracked, on it: an open exposure is of the value that is        *)
(* stored, or known to be stale, or a command is about to close it.        *)
(* Owing, on it: a redacted value is reported as not marked, or it is      *)
(* marked, or a marking that will find it is under way, also while a       *)
(* command is about to take its mark away.                                 *)
(***************************************************************************)


\* The command of a process.
CommandRecords ==
    [pc : Pcs, op : {"none", "set", "remove", "expose", "mark"},
     name : Names \union {Absent}, value : Values \union {Absent},
     closes : BOOLEAN, spans : SUBSET Values, todo : SUBSET Names,
     seen : Notes \union {Absent}]

\* What is known of a command by where it stands.
WellFormed(c) ==
    /\ c \in CommandRecords
    /\ c.pc = "idle" <=> c.op = "none"
    /\ c.pc \in {"compare", "store"} => c.op = "set" /\ c.value \in Values
    /\ c.pc = "delete" => c.op = "remove"
    /\ c.pc \in {"compare", "store", "delete", "readNotes", "writeNotes"} => c.name \in Names
    /\ c.pc = "writeNotes" => c.seen \in Notes
    /\ c.pc \in {"load", "list"} => c.op = "mark"
    /\ c.pc = "load" => c.todo = {}
    /\ c.pc = "confirm" => c.op \in {"expose", "mark"}
    /\ c.op \in {"set", "remove"} => c.todo = {}

Passes == [pc : {"none", "read", "check", "rename"}, stamp : Nat, lines : Seq(SpokenLines)]

\* Who may be in such a command: users do not mark, and nobody else does anything else.
Allowed(p, c) == IF p \in Commanders THEN c.op # "mark" ELSE c.op \in {"none", "mark"}

Shaped ==
    /\ WatchTypeOK
    /\ rewrite \in [Rewriters -> Passes]
    /\ \A p \in Procs : WellFormed(cmd[p]) /\ Allowed(p, cmd[p])

Keeps(text) ==
    /\ Len(text) = Len(said)
    /\ \A i \in DOMAIN text :
          text[i].says = said[i] /\ (text[i].state = "redacted" => said[i] # Absent)

KeptWhole ==
    window = "closed" =>
        /\ Keeps(lines)
        /\ \A r \in Rewriters :
              \/ rewrite[r].pc = "check" /\ rewrite[r].stamp = stamp
              \/ rewrite[r].pc = "rename"
              => Keeps(rewrite[r].lines)

Active(p) == ~Idle(p) /\ ~At(p, "load")

OneActive == \A p, q \in Procs : Active(p) /\ Active(q) => p = q

UpToDate(p) ==
    LET c == cmd[p]
    IN  /\ c.pc = "store" /\ c.closes => stored[c.name] # c.value
        /\ c.pc \in {"readNotes", "writeNotes"} /\ c.op \in {"expose", "mark"} =>
              c.value = stored[c.name] /\ c.value # Absent
        /\ c.pc = "writeNotes" => c.seen = notes

Serial == overlapping = "none" => OneActive /\ \A p \in Procs : UpToDate(p)

LoadPending(n) ==
    \E m \in Procs : cmd[m].op = "mark" /\ At(m, "load") /\ stored[n] \in cmd[m].spans

IsMarked(n) ==
    /\ notes[n] # Absent \/ BeingMarked(n)
    /\ \A p \in Procs : Halfway(p) /\ cmd[p].name = n => LoadPending(n)

Owing ==
    ~stops /\ overlapping = "none" =>
        \A n \in owed :
            /\ stored[n] # Absent
            /\ n \in unmarked \/ IsMarked(n)

Tracked ==
    overlapping = "none" =>
        /\ \A n \in Names :
              \/ notes[n] \in {Absent, stored[n]} \/ n \in stale
              \/ \E p \in Procs : Halfway(p) /\ cmd[p].name = n
        /\ \A p \in Procs : Halfway(p) =>
              LET n == cmd[p].name
              IN  notes[n] = Absent \/ stored[n] # notes[n] \/ n \in stale

LEMMA NoCommandWellFormed == WellFormed(NoCommand)
BY DEF WellFormed, NoCommand, CommandRecords, Pcs

\* What is left of a command is a command.
LEMMA ProceedsWellFormed ==
    ASSUME NEW c, WellFormed(c), NEW left \in SUBSET c.todo, c.op # "none"
    PROVE  WellFormed(Proceeds(c, left)) /\ Proceeds(c, left).op \in {c.op, "none"}
<1>1. CASE left = {}
  BY <1>1, NoCommandWellFormed DEF Proceeds, NoCommand
<1>2. CASE left # {}
  <2>1. Proceeds(c, left) = [c EXCEPT !.pc = "confirm", !.todo = left, !.seen = Absent]
    BY <1>2 DEF Proceeds
  <2>2. c.op \in {"expose", "mark"}
    BY <1>2 DEF WellFormed, CommandRecords
  <2> QED
    BY <2>1, <2>2 DEF WellFormed, CommandRecords, Pcs
<1> QED
  BY <1>1, <1>2

\* A step of a command gives its process a new record, and changes nothing else of the others.
LEMMA CommandMoves ==
    ASSUME Shaped, NEW p \in Procs, CommandStep(p)
    PROVE  /\ \E c : Becomes(p, c) /\ WellFormed(c) /\ c.op \in {cmd[p].op, "none"}
           /\ stored' \in Notes /\ notes' \in Notes
           /\ stale' \subseteq Names /\ unmarked' \subseteq Names
           /\ UNCHANGED <<overlapping, commands>>
<1> USE ExposureAssumption DEF histories
<1>1. /\ WellFormed(cmd[p]) /\ stored \in Notes /\ notes \in Notes
      /\ stale \subseteq Names /\ unmarked \subseteq Names
  BY DEF Shaped, WatchTypeOK, ExposureTypeOK, Notes
<1>2. cmd[p] \in CommandRecords
  BY <1>1 DEF WellFormed
<1>3. CASE Compare(p)
  <2> DEFINE c == [cmd[p] EXCEPT !.pc = "store", !.closes = stored[cmd[p].name] # cmd[p].value]
  <2>1. WellFormed(c) /\ c.op = cmd[p].op
    BY <1>1, <1>2, <1>3 DEF WellFormed, CommandRecords, Pcs, Compare, At
  <2> QED
    BY <1>1, <1>3, <2>1 DEF Compare
<1>4. CASE StoreValue(p)
  <2> DEFINE c == IF cmd[p].closes THEN [cmd[p] EXCEPT !.pc = "readNotes"] ELSE NoCommand
  <2>1. WellFormed(c) /\ c.op \in {cmd[p].op, "none"}
    <3>1. CASE cmd[p].closes
      BY <1>1, <1>2, <1>4, <3>1 DEF WellFormed, CommandRecords, Pcs, StoreValue, At
    <3>2. CASE ~cmd[p].closes
      BY <3>2, NoCommandWellFormed DEF NoCommand
    <3> QED
      BY <3>1, <3>2
  <2>2. stored' \in Notes /\ stale' \subseteq Names
    BY <1>1, <1>4 DEF StoreValue, At, WellFormed, Notes
  <2> QED
    BY <1>1, <1>4, <2>1, <2>2 DEF StoreValue
<1>5. CASE DeleteValue(p)
  <2> DEFINE c == [cmd[p] EXCEPT !.pc = "readNotes"]
  <2>1. WellFormed(c) /\ c.op = cmd[p].op
    BY <1>1, <1>2, <1>5 DEF WellFormed, CommandRecords, Pcs, DeleteValue, At
  <2>2. stored' \in Notes
    BY <1>1, <1>5 DEF DeleteValue, At, WellFormed, Notes
  <2> QED
    BY <1>1, <1>5, <2>1, <2>2 DEF DeleteValue
<1>6. CASE LoadSecrets(p)
  <2> DEFINE names == {n \in Names : stored[n] \in cmd[p].spans}
             c == [cmd[p] EXCEPT !.pc = "list", !.todo = names]
  <2>1. names \in SUBSET Names
    OBVIOUS
  <2> HIDE DEF names
  <2>2. WellFormed(c) /\ c.op = cmd[p].op
    BY <1>1, <1>2, <1>6, <2>1 DEF WellFormed, CommandRecords, Pcs, LoadSecrets, At
  <2> QED
    BY <1>1, <1>6, <2>2 DEF LoadSecrets, names
<1>7. CASE ListAnnotations(p)
  <2> DEFINE rest == {n \in cmd[p].todo : notes[n] = Absent}
             c == IF rest = {} THEN NoCommand ELSE [cmd[p] EXCEPT !.pc = "confirm", !.todo = rest]
  <2>1. rest \in SUBSET Names
    BY <1>2 DEF CommandRecords
  <2> HIDE DEF rest
  <2>2. WellFormed(c) /\ c.op \in {cmd[p].op, "none"}
    <3>1. CASE rest = {}
      BY <3>1, NoCommandWellFormed DEF NoCommand
    <3>2. CASE rest # {}
      BY <1>1, <1>2, <1>7, <2>1, <3>2 DEF WellFormed, CommandRecords, Pcs, ListAnnotations, At
    <3> QED
      BY <3>1, <3>2
  <2> QED
    BY <1>1, <1>7, <2>2 DEF ListAnnotations, rest
<1>8. ASSUME NEW n \in Names, Confirm(p, n)
      PROVE  /\ \E c : Becomes(p, c) /\ WellFormed(c) /\ c.op \in {cmd[p].op, "none"}
             /\ UNCHANGED <<overlapping, commands, stored, notes, histories>>
  <2> DEFINE left == cmd[p].todo \ {n}
             d == [cmd[p] EXCEPT !.pc = "readNotes", !.name = n, !.value = stored[n]]
             c == IF stored[n] = Absent THEN Proceeds(cmd[p], left) ELSE d
  <2>1. cmd[p].op # "none"
    BY <1>1, <1>8 DEF WellFormed, Confirm, At
  <2>2. WellFormed(Proceeds(cmd[p], left)) /\ Proceeds(cmd[p], left).op \in {cmd[p].op, "none"}
    BY <1>1, <2>1, ProceedsWellFormed
  <2>3. WellFormed(d) /\ d.op = cmd[p].op
    <3>1. stored[n] \in Values \union {Absent}
      BY <1>1 DEF Notes
    <3> QED
      BY <1>1, <1>2, <1>8, <3>1 DEF WellFormed, CommandRecords, Pcs, Confirm, At
  <2>4. WellFormed(c) /\ c.op \in {cmd[p].op, "none"}
    BY <2>2, <2>3
  <2>5. Becomes(p, c)
    BY <1>8 DEF Confirm
  <2> QED
    BY <1>8, <2>4, <2>5 DEF Confirm
<1>9. CASE ReadNotes(p)
  <2> DEFINE c == [cmd[p] EXCEPT !.pc = "writeNotes", !.seen = notes]
  <2>1. WellFormed(c) /\ c.op = cmd[p].op
    BY <1>1, <1>2, <1>9 DEF WellFormed, CommandRecords, Pcs, ReadNotes, At
  <2> QED
    BY <1>1, <1>9, <2>1 DEF ReadNotes
<1>10. CASE WriteNotes(p)
  <2>1. cmd[p].op # "none"
    BY <1>1, <1>10 DEF WellFormed, WriteNotes, At
  <2> DEFINE c == Proceeds(cmd[p], cmd[p].todo \ {cmd[p].name})
  <2>2. WellFormed(c) /\ c.op \in {cmd[p].op, "none"}
    BY <1>1, <2>1, ProceedsWellFormed
  <2>3. notes' \in Notes
    <3> DEFINE v == IF cmd[p].op \in {"set", "remove"} THEN Absent ELSE cmd[p].value
    <3>1. v \in Values \union {Absent}
      BY <1>2 DEF CommandRecords
    <3>2. cmd[p].seen \in Notes /\ cmd[p].name \in Names
      BY <1>1, <1>10 DEF WellFormed, WriteNotes, At
    <3>3. notes' = notes \/ notes' = [cmd[p].seen EXCEPT ![cmd[p].name] = v]
      BY <1>10 DEF WriteNotes
    <3> HIDE DEF v
    <3> QED
      BY <1>1, <3>1, <3>2, <3>3 DEF Notes
  <2> QED
    BY <1>1, <1>10, <2>2, <2>3 DEF WriteNotes
<1>11. CASE NotChecked(p)
  <2>1. NoCommand.op = "none" /\ unmarked' \subseteq Names
    BY <1>1, <1>11 DEF NotChecked, ToMark, NoCommand
  <2> QED
    BY <1>1, <1>11, <2>1, NoCommandWellFormed DEF NotChecked
<1>12. ASSUME NEW n \in Names, NotMarked(p, n)
       PROVE  /\ \E c : Becomes(p, c) /\ WellFormed(c) /\ c.op \in {cmd[p].op, "none"}
              /\ UNCHANGED <<overlapping, commands, stored, notes, stale>>
              /\ unmarked' \subseteq Names
  <2> DEFINE c == Proceeds(cmd[p], cmd[p].todo \ {n})
  <2>1. WellFormed(c) /\ c.op \in {cmd[p].op, "none"}
    BY <1>1, <1>12, ProceedsWellFormed DEF NotMarked
  <2>2. Becomes(p, c)
    BY <1>12 DEF NotMarked
  <2> QED
    BY <1>1, <1>12, <2>1, <2>2 DEF NotMarked
<1> QED
  BY <1>1, <1>3, <1>4, <1>5, <1>6, <1>7, <1>8, <1>9, <1>10, <1>11, <1>12 DEF CommandStep

\* A user's process gets a record of a command of the user's.
LEMMA StartMoves ==
    ASSUME Shaped, NEW p \in Procs, CommandStart(p)
    PROVE  /\ \E c : Becomes(p, c) /\ WellFormed(c) /\ c.op \in {"set", "remove", "expose"}
           /\ commands' \in 0..MaxCommands
           /\ UNCHANGED <<overlapping, stored, notes, histories>>
<1> USE ExposureAssumption
<1>1. commands \in 0..MaxCommands
  BY DEF Shaped, WatchTypeOK, ExposureTypeOK
<1>2. NoCommand \in CommandRecords
  BY NoCommandWellFormed DEF WellFormed
<1>3. PICK n \in Names : (\E v \in Values : SetSecret(p, n, v)) \/ RemoveSecret(p, n) \/ RecordExposure(p, n)
  BY DEF CommandStart
<1>4. ASSUME NEW v \in Values, SetSecret(p, n, v)
      PROVE  /\ \E c : Becomes(p, c) /\ WellFormed(c) /\ c.op = "set"
             /\ commands' \in 0..MaxCommands /\ UNCHANGED <<overlapping, stored, notes, histories>>
  <2>0. PICK readable \in BOOLEAN :
           Becomes(p, [NoCommand EXCEPT
              !.pc = IF readable /\ notes[n] # Absent THEN "compare" ELSE "store",
              !.op = "set", !.name = n, !.value = v])
    BY <1>4 DEF SetSecret
  <2> DEFINE at == IF readable /\ notes[n] # Absent THEN "compare" ELSE "store"
             c == [NoCommand EXCEPT !.pc = at, !.op = "set", !.name = n, !.value = v]
  <2>1. at \in {"compare", "store"}
    OBVIOUS
  <2> HIDE DEF at
  <2>2. WellFormed(c) /\ c.op = "set"
    BY <2>1 DEF WellFormed, CommandRecords, Pcs, NoCommand
  <2>3. commands' \in 0..MaxCommands
    BY <1>1, <1>4 DEF SetSecret, MayStart
  <2>4. Becomes(p, c) /\ UNCHANGED <<overlapping, stored, notes, histories>>
    BY <1>4, <2>0 DEF SetSecret, at
  <2> QED
    BY <2>2, <2>3, <2>4
<1>5. CASE RemoveSecret(p, n)
  <2> DEFINE c == [NoCommand EXCEPT !.pc = "delete", !.op = "remove", !.name = n]
  <2>1. WellFormed(c) /\ c.op = "remove"
    BY DEF WellFormed, CommandRecords, Pcs, NoCommand
  <2>3. commands' \in 0..MaxCommands
    BY <1>1, <1>5 DEF RemoveSecret, MayStart
  <2>4. Becomes(p, c) /\ UNCHANGED <<overlapping, stored, notes, histories>>
    BY <1>5 DEF RemoveSecret
  <2> QED
    BY <2>1, <2>3, <2>4
<1>6. CASE RecordExposure(p, n)
  <2> DEFINE c == [NoCommand EXCEPT !.pc = "confirm", !.op = "expose", !.todo = {n}]
  <2>1. WellFormed(c) /\ c.op = "expose"
    BY DEF WellFormed, CommandRecords, Pcs, NoCommand
  <2>3. commands' \in 0..MaxCommands
    BY <1>1, <1>6 DEF RecordExposure, MayStart
  <2>4. Becomes(p, c) /\ UNCHANGED <<overlapping, stored, notes, histories>>
    BY <1>6 DEF RecordExposure
  <2> QED
    BY <2>1, <2>3, <2>4
<1> QED
  BY <1>3, <1>4, <1>5, <1>6

\* What a rewrite takes out are values of secrets.
LEMMA SpansAreValues ==
    ASSUME NEW text \in Seq(SpokenLines)
    PROVE  Spans(text) \in SUBSET Values
<1> SUFFICES ASSUME NEW i \in DOMAIN text, Found(text[i])
             PROVE  text[i].says \in Values
  BY DEF Spans
<1>1. text[i] \in SpokenLines
  OBVIOUS
<1> QED
  BY <1>1, WatchAssumption DEF SpokenLines, Found

\* The rewritten text has the lines of the text.
LEMMA RedactedLines ==
    ASSUME NEW text \in Seq(SpokenLines)
    PROVE  /\ Redacted(text) \in Seq(SpokenLines)
           /\ Len(Redacted(text)) = Len(text)
           /\ \A i \in DOMAIN text :
                 /\ Redacted(text)[i].says = text[i].says
                 /\ Redacted(text)[i].state = "redacted" =>
                       text[i].state = "redacted" \/ text[i].says # Absent
<1> DEFINE line(i) == IF Found(text[i]) THEN [text[i] EXCEPT !.state = "redacted"] ELSE text[i]
<1>1. Redacted(text) = [i \in 1..Len(text) |-> line(i)]
  BY DEF Redacted
<1>2. ASSUME NEW i \in 1..Len(text)
      PROVE  /\ line(i) \in SpokenLines
             /\ line(i).says = text[i].says
             /\ line(i).state = "redacted" => text[i].state = "redacted" \/ text[i].says # Absent
  <2>1. text[i] \in SpokenLines
    OBVIOUS
  <2> QED
    BY <2>1 DEF SpokenLines, Found
<1> HIDE DEF line
<1>3. Redacted(text) \in Seq(SpokenLines)
  BY <1>1, <1>2, IsASeq
<1>4. Len(Redacted(text)) = Len(text)
  BY <1>1, <1>3
<1> QED
  BY <1>1, <1>2, <1>3, <1>4

\* Marking, for the values of a text, is a command of a marker.
LEMMA MarkingWellFormed ==
    ASSUME NEW spans \in SUBSET Values
    PROVE  WellFormed(Marking(spans)) /\ Marking(spans).op = "mark"
BY DEF Marking, WellFormed, CommandRecords, Pcs, NoCommand

\* A pass that replaces the file gives the marking to an idle process of its own.
LEMMA MarkerIsIdle ==
    ASSUME NEW r \in Rewriters, Replace(r)
    PROVE  \E m \in Procs \ Commanders :
              Idle(m) /\ Becomes(m, Marking(Spans(rewrite[r].lines)))
BY WatchAssumption DEF Replace, Redactions

CommandsShaped ==
    ExposureTypeOK /\ \A p \in Procs : WellFormed(cmd[p]) /\ Allowed(p, cmd[p])

LEMMA BecomesShaped ==
    ASSUME Shaped, NEW p \in Procs, NEW c, WellFormed(c), Allowed(p, c), Becomes(p, c)
    PROVE  /\ cmd' \in [Procs -> CommandRecords]
           /\ \A q \in Procs : WellFormed(cmd'[q]) /\ Allowed(q, cmd'[q])
           /\ cmd'[p] = c /\ \A q \in Procs \ {p} : cmd'[q] = cmd[q]
<1>1. cmd \in [Procs -> CommandRecords]
  BY DEF Shaped, WatchTypeOK, ExposureTypeOK, CommandRecords
<1>2. c \in CommandRecords
  BY DEF WellFormed
<1>3. \A q \in Procs : WellFormed(cmd[q]) /\ Allowed(q, cmd[q])
  BY DEF Shaped
<1> QED
  BY <1>1, <1>2, <1>3 DEF Becomes

\* The commands keep their shape, whatever happens.
LEMMA CommandsStayShaped ==
    ASSUME Shaped, WatchNext
    PROVE  CommandsShaped'
<1> USE DEF CommandsShaped, ExposureTypeOK, Notes, histories
<1>1. /\ overlapping \in CommandOverlaps /\ stored \in Notes /\ notes \in Notes
      /\ commands \in 0..MaxCommands
      /\ stale \subseteq Names /\ unmarked \subseteq Names
      /\ cmd \in [Procs -> CommandRecords]
      /\ \A q \in Procs : WellFormed(cmd[q]) /\ Allowed(q, cmd[q])
  BY DEF Shaped, WatchTypeOK, CommandRecords
<1>2. CASE UNCHANGED exposureVars
  BY <1>1, <1>2 DEF exposureVars, CommandRecords
<1>3. CASE Command
  <2>1. PICK p \in Procs : CommandStep(p)
    BY <1>3 DEF Command
  <2>2. /\ \E c : Becomes(p, c) /\ WellFormed(c) /\ c.op \in {cmd[p].op, "none"}
        /\ stored' \in Notes /\ notes' \in Notes
        /\ stale' \subseteq Names /\ unmarked' \subseteq Names
        /\ UNCHANGED <<overlapping, commands>>
    BY <2>1, CommandMoves
  <2>3. PICK c : Becomes(p, c) /\ WellFormed(c) /\ c.op \in {cmd[p].op, "none"}
    BY <2>2
  <2>4. Allowed(p, c)
    BY <1>1, <2>3 DEF Allowed
  <2>5. cmd' \in [Procs -> CommandRecords] /\ \A q \in Procs : WellFormed(cmd'[q]) /\ Allowed(q, cmd'[q])
    BY <2>3, <2>4, BecomesShaped
  <2> QED
    BY <1>1, <2>2, <2>5 DEF CommandRecords
<1>4. CASE StartCommand
  <2>1. PICK p \in Commanders : CommandStart(p)
    BY <1>4 DEF StartCommand
  <2>2. p \in Procs
    BY WatchAssumption
  <2>3. /\ \E c : Becomes(p, c) /\ WellFormed(c) /\ c.op \in {"set", "remove", "expose"}
        /\ commands' \in 0..MaxCommands
        /\ UNCHANGED <<overlapping, stored, notes, histories>>
    BY <2>1, <2>2, StartMoves
  <2>4. PICK c : Becomes(p, c) /\ WellFormed(c) /\ c.op \in {"set", "remove", "expose"}
    BY <2>3
  <2>5. Allowed(p, c)
    BY <2>4 DEF Allowed
  <2>6. cmd' \in [Procs -> CommandRecords] /\ \A q \in Procs : WellFormed(cmd'[q]) /\ Allowed(q, cmd'[q])
    BY <2>2, <2>4, <2>5, BecomesShaped
  <2> QED
    BY <1>1, <2>3, <2>6 DEF CommandRecords
<1>5. CASE KillCommand
  <2>1. PICK p \in Commanders : Ends(p)
    BY <1>5 DEF KillCommand
  <2>2. /\ p \in Procs /\ Becomes(p, NoCommand)
        /\ UNCHANGED <<overlapping, stored, notes, commands, unmarked>>
        /\ stale' \subseteq Names
    BY <1>1, <2>1, WatchAssumption DEF Ends, Halfway, WellFormed
  <2>3. Allowed(p, NoCommand)
    BY DEF Allowed, NoCommand
  <2>4. cmd' \in [Procs -> CommandRecords] /\ \A q \in Procs : WellFormed(cmd'[q]) /\ Allowed(q, cmd'[q])
    BY <2>2, <2>3, NoCommandWellFormed, BecomesShaped
  <2> QED
    BY <1>1, <2>2, <2>4 DEF CommandRecords
<1>6. ASSUME NEW r \in Rewriters, Replace(r)
      PROVE  CommandsShaped'
  <2> DEFINE c == Marking(Spans(rewrite[r].lines))
  <2>1. PICK m \in Procs \ Commanders : Becomes(m, c)
    BY <1>6, MarkerIsIdle
  <2>2. rewrite[r].lines \in Seq(SpokenLines)
    BY DEF Shaped, WatchTypeOK
  <2>3. WellFormed(c) /\ Allowed(m, c)
    BY <2>1, <2>2, SpansAreValues, MarkingWellFormed DEF Allowed
  <2>4. cmd' \in [Procs -> CommandRecords] /\ \A q \in Procs : WellFormed(cmd'[q]) /\ Allowed(q, cmd'[q])
    BY <2>1, <2>3, BecomesShaped
  <2>5. UNCHANGED <<overlapping, stored, notes, commands, stale>> /\ unmarked' \subseteq Names
    BY <1>1, <1>6 DEF Replace
  <2> QED
    BY <1>1, <2>4, <2>5 DEF CommandRecords
<1>7. ASSUME NEW w \in Watchers, Stop(w)
      PROVE  CommandsShaped'
  <2>1. /\ cmd' = [p \in Procs |-> IF p \in Markers[w] THEN NoCommand ELSE cmd[p]]
        /\ UNCHANGED <<overlapping, stored, notes, commands, histories>>
    BY <1>7 DEF Stop
  <2>2. \A p \in Procs : Allowed(p, NoCommand)
    BY DEF Allowed, NoCommand
  <2>3. WellFormed(NoCommand) /\ NoCommand \in CommandRecords
    BY NoCommandWellFormed DEF WellFormed
  <2>4. cmd' \in [Procs -> CommandRecords] /\ \A q \in Procs : WellFormed(cmd'[q]) /\ Allowed(q, cmd'[q])
    BY <1>1, <2>1, <2>2, <2>3
  <2> QED
    BY <1>1, <2>1, <2>4 DEF CommandRecords
<1> QED
  BY <1>2, <1>3, <1>4, <1>5, <1>6, <1>7
  DEF WatchNext, SayLine, CompleteLine, Fire, Clean, PassStep, ReadTranscript, CheckUnchanged

TranscriptShaped ==
    /\ window \in Windows /\ stops \in Stops
    /\ lines \in Seq(SpokenLines) /\ said \in Seq(Sayings)
    /\ stamp \in Nat
    /\ running \subseteq Watchers /\ timer \subseteq running
    /\ rewrite \in [Rewriters -> Passes]
    /\ \A r \in Rewriters : rewrite[r].stamp <= stamp
    /\ cleaned \subseteq Cleaners
    /\ owed \subseteq Names

LEMMA ShapedParts == Shaped <=> CommandsShaped /\ TranscriptShaped
<1>1. ASSUME NEW r \in Rewriters, rewrite \in [Rewriters -> Passes], stamp \in Nat
      PROVE  rewrite[r].stamp \in 0..stamp <=> rewrite[r].stamp <= stamp
  BY <1>1 DEF Passes
<1>2. ASSUME rewrite \in [Rewriters -> Passes], NEW r \in Rewriters
      PROVE  /\ rewrite[r].pc \in {"none", "read", "check", "rename"}
             /\ rewrite[r].lines \in Seq(SpokenLines)
  BY <1>2 DEF Passes
<1> QED
  BY <1>1, <1>2 DEF Shaped, CommandsShaped, TranscriptShaped, WatchTypeOK

\* A pass that is put in place of another keeps the shape of the passes.
LEMMA PassShaped ==
    ASSUME TranscriptShaped, NEW r \in Rewriters, NEW x \in Passes, x.stamp <= stamp', Pass(r, x),
           stamp' \in Nat, stamp <= stamp'
    PROVE  rewrite' \in [Rewriters -> Passes] /\ \A q \in Rewriters : rewrite'[q].stamp <= stamp'
<1>1. \A q \in Rewriters : rewrite[q] \in Passes /\ rewrite[q].stamp \in Nat
  BY DEF TranscriptShaped, Passes
<1>2. rewrite' = [rewrite EXCEPT ![r] = x] /\ rewrite \in [Rewriters -> Passes]
  BY DEF Pass, TranscriptShaped
<1>3. \A q \in Rewriters : rewrite'[q] = IF q = r THEN x ELSE rewrite[q]
  BY <1>2
<1>4. \A q \in Rewriters : rewrite[q].stamp <= stamp'
  BY <1>1 DEF TranscriptShaped
<1> QED
  BY <1>2, <1>3, <1>4

\* The transcript and what rewrites it keep their shape.
LEMMA TranscriptStaysShaped ==
    ASSUME Shaped, WatchNext
    PROVE  TranscriptShaped'
<1>1. TranscriptShaped
  BY ShapedParts
<1>2. /\ lines \in Seq(SpokenLines) /\ said \in Seq(Sayings) /\ stamp \in Nat
      /\ rewrite \in [Rewriters -> Passes]
  BY <1>1 DEF TranscriptShaped
<1>3. <<>> \in Seq(SpokenLines)
  OBVIOUS
<1>4. NoPass \in Passes
  BY <1>3 DEF NoPass, Passes
<1>5. ASSUME NEW says \in Sayings, NEW state \in {"part", "whole"}, SayLine(says, state)
      PROVE  TranscriptShaped'
  <2>1. [says |-> says, state |-> state] \in SpokenLines
    BY DEF SpokenLines
  <2>2. said' \in Seq(Sayings) /\ lines' \in Seq(SpokenLines)
    BY <1>2, <1>5, <2>1, AppendProperties DEF SayLine, Changes
  <2>3. stamp' = stamp + 1 /\ timer' = running /\ UNCHANGED <<window, stops, running, rewrite, cleaned, owed>>
    BY <1>5 DEF SayLine, Changes
  <2>4. \A r \in Rewriters : rewrite[r].stamp <= stamp'
    BY <1>1, <1>2, <2>3 DEF TranscriptShaped, Passes
  <2> QED
    BY <1>1, <2>2, <2>3, <2>4 DEF TranscriptShaped
<1>6. CASE CompleteLine
  <2>1. /\ stamp' = stamp + 1 /\ timer' = running
        /\ UNCHANGED <<window, stops, said, running, rewrite, cleaned, owed>>
    BY <1>6 DEF CompleteLine, Changes
  <2>2. lines' \in Seq(SpokenLines)
    <3> DEFINE k == Len(lines)
               new == [lines[k] EXCEPT !.state = "whole"]
    <3>1. lines' = [lines EXCEPT ![k] = new] /\ lines # <<>>
      BY <1>6 DEF CompleteLine, Changes
    <3>2. k \in 1..Len(lines) /\ lines[k] \in SpokenLines
      BY <1>2, <3>1, EmptySeq
    <3>3. new \in SpokenLines
      BY <3>2 DEF SpokenLines
    <3> HIDE DEF new, k
    <3> QED
      BY <1>2, <3>1, <3>2, <3>3, ExceptSeq
  <2>3. \A r \in Rewriters : rewrite[r].stamp <= stamp'
    BY <1>1, <1>2, <2>1 DEF TranscriptShaped, Passes
  <2> QED
    BY <1>1, <2>1, <2>2, <2>3 DEF TranscriptShaped
<1>7. ASSUME NEW r \in Rewriters, NEW x \in Passes, x.stamp <= stamp, Pass(r, x), UNCHANGED stamp
      PROVE  rewrite' \in [Rewriters -> Passes] /\ \A q \in Rewriters : rewrite'[q].stamp <= stamp'
  BY <1>1, <1>2, <1>7, PassShaped
<1> DEFINE opened == [NoPass EXCEPT !.pc = "read", !.stamp = stamp]
<1>8. opened \in Passes /\ opened.stamp <= stamp
  <2>1. opened \in Passes /\ opened.stamp = stamp
    BY <1>2, <1>3 DEF NoPass, Passes
  <2> HIDE DEF opened
  <2> QED
    BY <1>2, <2>1
<1>9. NoPass.stamp = 0
  BY DEF NoPass
<1>10. ASSUME NEW w \in Watchers, Fire(w)
       PROVE  TranscriptShaped'
  <2>1. w \in Rewriters
    BY DEF Rewriters
  <2>2. Pass(w, opened) /\ UNCHANGED stamp
    BY <1>10 DEF Fire
  <2> HIDE DEF opened
  <2>3. rewrite' \in [Rewriters -> Passes] /\ \A q \in Rewriters : rewrite'[q].stamp <= stamp'
    BY <1>7, <1>8, <2>1, <2>2
  <2> QED
    BY <1>1, <1>10, <2>3 DEF TranscriptShaped, Fire
<1>11. ASSUME NEW w \in Watchers, Stop(w)
       PROVE  TranscriptShaped'
  <2>1. w \in Rewriters
    BY DEF Rewriters
  <2>2. rewrite' \in [Rewriters -> Passes] /\ \A q \in Rewriters : rewrite'[q].stamp <= stamp'
    BY <1>2, <1>4, <1>7, <1>9, <1>11, <2>1 DEF Stop
  <2> QED
    BY <1>1, <1>11, <2>2 DEF TranscriptShaped, Stop
<1>12. ASSUME NEW c \in Cleaners, Clean(c)
       PROVE  TranscriptShaped'
  <2>1. c \in Rewriters
    BY DEF Rewriters
  <2>2. Pass(c, opened) /\ UNCHANGED stamp
    BY <1>12 DEF Clean
  <2> HIDE DEF opened
  <2>3. rewrite' \in [Rewriters -> Passes] /\ \A q \in Rewriters : rewrite'[q].stamp <= stamp'
    BY <1>7, <1>8, <2>1, <2>2
  <2> QED
    BY <1>1, <1>12, <2>3 DEF TranscriptShaped, Clean
<1>13. ASSUME NEW r \in Rewriters
       PROVE  rewrite[r] \in Passes /\ rewrite[r].stamp <= stamp /\ rewrite[r].lines \in Seq(SpokenLines)
  BY <1>1 DEF TranscriptShaped, Passes
<1>14. ASSUME NEW r \in Rewriters, ReadTranscript(r)
       PROVE  TranscriptShaped'
  <2> DEFINE x == IF Spans(lines) = {} THEN NoPass
                  ELSE [rewrite[r] EXCEPT !.pc = "check", !.lines = lines]
  <2>1. x \in Passes /\ x.stamp <= stamp
    <3> DEFINE y == [rewrite[r] EXCEPT !.pc = "check", !.lines = lines]
    <3>1. y \in Passes /\ y.stamp <= stamp
      BY <1>2, <1>13 DEF Passes
    <3>2. NoPass.stamp <= stamp
      BY <1>2, <1>9
    <3> HIDE DEF y
    <3>3. x = NoPass \/ x = y
      BY DEF y
    <3> HIDE DEF x
    <3> QED
      BY <1>4, <3>1, <3>2, <3>3
  <2>2. Pass(r, x) /\ UNCHANGED <<stamp, window, stops, lines, said, running, timer, cleaned, owed>>
    BY <1>14 DEF ReadTranscript
  <2> HIDE DEF x
  <2>3. rewrite' \in [Rewriters -> Passes] /\ \A q \in Rewriters : rewrite'[q].stamp <= stamp'
    BY <1>7, <2>1, <2>2
  <2> QED
    BY <1>1, <2>2, <2>3 DEF TranscriptShaped
<1>15. ASSUME NEW r \in Rewriters, CheckUnchanged(r)
       PROVE  TranscriptShaped'
  <2> DEFINE x == IF stamp = rewrite[r].stamp THEN [rewrite[r] EXCEPT !.pc = "rename"] ELSE NoPass
  <2>1. x \in Passes /\ x.stamp <= stamp
    <3> DEFINE y == [rewrite[r] EXCEPT !.pc = "rename"]
    <3>1. y \in Passes /\ y.stamp <= stamp
      BY <1>2, <1>13 DEF Passes
    <3>2. NoPass.stamp <= stamp
      BY <1>2, <1>9
    <3> HIDE DEF y
    <3>3. x = NoPass \/ x = y
      BY DEF y
    <3> HIDE DEF x
    <3> QED
      BY <1>4, <3>1, <3>2, <3>3
  <2>2. Pass(r, x) /\ UNCHANGED <<stamp, window, stops, lines, said, running, timer, cleaned, owed>>
    BY <1>15 DEF CheckUnchanged
  <2> HIDE DEF x
  <2>3. rewrite' \in [Rewriters -> Passes] /\ \A q \in Rewriters : rewrite'[q].stamp <= stamp'
    BY <1>7, <2>1, <2>2
  <2> QED
    BY <1>1, <2>2, <2>3 DEF TranscriptShaped
<1>16. ASSUME NEW r \in Rewriters, Replace(r)
       PROVE  TranscriptShaped'
  <2>1. /\ stamp' = stamp + 1 /\ timer' = running /\ lines' = Redacted(rewrite[r].lines)
        /\ Pass(r, NoPass)
        /\ owed' = owed \union {n \in Names : stored[n] \in Spans(rewrite[r].lines)}
        /\ UNCHANGED <<window, stops, said, running, cleaned>>
    BY <1>16 DEF Replace, Changes
  <2>2. lines' \in Seq(SpokenLines)
    BY <1>13, <2>1, RedactedLines
  <2>3. rewrite' \in [Rewriters -> Passes] /\ \A q \in Rewriters : rewrite'[q].stamp <= stamp'
    BY <1>1, <1>2, <1>4, <1>9, <2>1, PassShaped
  <2> QED
    BY <1>1, <2>1, <2>2, <2>3 DEF TranscriptShaped
<1>17. CASE Command \/ StartCommand \/ KillCommand
  BY <1>1, <1>17 DEF Command, StillOwed, StartCommand, KillCommand, TranscriptShaped, transcriptVars
<1> QED
  BY <1>5, <1>6, <1>10, <1>11, <1>12, <1>14, <1>15, <1>16, <1>17 DEF WatchNext, PassStep

LEMMA ShapedStep ==
    ASSUME Shaped, [WatchNext]_watchVars
    PROVE  Shaped'
<1>1. CASE WatchNext
  BY <1>1, CommandsStayShaped, TranscriptStaysShaped, ShapedParts, PTL
<1>2. CASE UNCHANGED watchVars
  BY <1>2, ShapedParts DEF ShapedParts, Shaped, WatchTypeOK, ExposureTypeOK, WellFormed, Allowed,
     watchVars, exposureVars, histories, transcriptVars
<1> QED
  BY <1>1, <1>2

LEMMA ShapedInitially == WatchInit => Shaped
<1> SUFFICES ASSUME WatchInit PROVE Shaped
  OBVIOUS
<1>1. CommandsShaped
  <2>1. WellFormed(NoCommand) /\ NoCommand \in CommandRecords /\ NoCommand.op = "none"
    BY NoCommandWellFormed DEF WellFormed, NoCommand
  <2>2. cmd = [p \in Procs |-> NoCommand] /\ commands = 0 /\ stored \in Notes
        /\ notes = [n \in Names |-> Absent] /\ overlapping \in CommandOverlaps
        /\ stale = {} /\ unmarked = {}
    BY DEF WatchInit, ExposureInit, Notes
  <2>3. \A p \in Procs : Allowed(p, NoCommand)
    BY <2>1 DEF Allowed
  <2> QED
    BY <2>1, <2>2, <2>3, ExposureAssumption DEF CommandsShaped, ExposureTypeOK, CommandRecords, Notes
<1>2. TranscriptShaped
  <2>1. <<>> \in Seq(SpokenLines) /\ <<>> \in Seq(Sayings)
    OBVIOUS
  <2>2. NoPass \in Passes /\ NoPass.stamp = 0
    BY <2>1 DEF NoPass, Passes
  <2> QED
    BY <2>1, <2>2 DEF WatchInit, TranscriptShaped
<1> QED
  BY <1>1, <1>2, ShapedParts

(***************************************************************************)
(* The shape of every variable.                                            *)
(***************************************************************************)
LEMMA AlwaysShaped == WatchSpec => []Shaped
<1>1. Shaped /\ [WatchNext]_watchVars => Shaped'
  BY ShapedStep
<1> QED
  BY <1>1, ShapedInitially, PTL DEF WatchSpec

\* Every variable of the watcher and of the commands has its shape (the watcher of watch.ts
\* with the rewrite of transcript.ts, and the commands of secret-store.ts).
THEOREM WatchTypeCorrect == WatchSpec => []WatchTypeOK
<1>1. Shaped => WatchTypeOK
  BY DEF Shaped
<1> QED
  BY <1>1, AlwaysShaped, PTL
-----------------------------------------------------------------------------
\* A text that keeps the session's lines keeps them when its secrets are taken out.
LEMMA RedactedKeeps ==
    ASSUME NEW text \in Seq(SpokenLines), Keeps(text)
    PROVE  Keeps(Redacted(text))
BY RedactedLines DEF Keeps

LEMMA KeptStep ==
    ASSUME Shaped, KeptWhole, [WatchNext]_watchVars
    PROVE  KeptWhole'
<1> SUFFICES ASSUME window' = "closed"
             PROVE  /\ Keeps(lines)'
                    /\ \A q \in Rewriters :
                          \/ rewrite'[q].pc = "check" /\ rewrite'[q].stamp = stamp'
                          \/ rewrite'[q].pc = "rename"
                          => Keeps(rewrite[q].lines)'
  BY DEF KeptWhole
<1>1. TranscriptShaped
  BY ShapedParts
<1>2. /\ lines \in Seq(SpokenLines) /\ said \in Seq(Sayings) /\ stamp \in Nat
      /\ rewrite \in [Rewriters -> Passes]
      /\ \A q \in Rewriters : rewrite[q].stamp <= stamp /\ rewrite[q].stamp \in Nat
  BY <1>1 DEF TranscriptShaped, Passes
<1>3. window = "closed"
  BY DEF WatchNext, SayLine, CompleteLine, Fire, Stop, Clean, PassStep, ReadTranscript,
         CheckUnchanged, Replace, Command, StartCommand, KillCommand, watchVars, transcriptVars
<1>4. /\ Keeps(lines)
      /\ \A q \in Rewriters :
            \/ rewrite[q].pc = "check" /\ rewrite[q].stamp = stamp
            \/ rewrite[q].pc = "rename"
            => Keeps(rewrite[q].lines)
  BY <1>3 DEF KeptWhole
<1> DEFINE goal == /\ Keeps(lines)'
                   /\ \A q \in Rewriters :
                         \/ rewrite'[q].pc = "check" /\ rewrite'[q].stamp = stamp'
                         \/ rewrite'[q].pc = "rename"
                         => Keeps(rewrite[q].lines)'
\* An append: no pass is at its rename, and every pass has an older stamp.
<1>5. ASSUME MayAppend, stamp' = stamp + 1, UNCHANGED rewrite, NEW q \in Rewriters
      PROVE  rewrite'[q].pc # "rename" /\ rewrite'[q].stamp # stamp'
  BY <1>2, <1>3, <1>5 DEF MayAppend
<1>6. ASSUME NEW says \in Sayings, NEW state \in {"part", "whole"}, SayLine(says, state)
      PROVE  goal
  <2> DEFINE line == [says |-> says, state |-> state]
  <2>1. /\ MayAppend /\ stamp' = stamp + 1 /\ UNCHANGED rewrite
        /\ said' = Append(said, says) /\ lines' = Append(lines, line)
    BY <1>6 DEF SayLine, Changes
  <2>2. line \in SpokenLines /\ line.says = says /\ line.state # "redacted"
    BY DEF SpokenLines
  <2> HIDE DEF line
  <2>3. Len(lines) = Len(said)
    BY <1>4 DEF Keeps
  <2>4. Len(lines') = Len(said') /\ DOMAIN lines' = 1..Len(lines) + 1
    BY <1>2, <2>1, <2>2, <2>3
  <2>5. ASSUME NEW i \in 1..Len(lines)
        PROVE  lines'[i] = lines[i] /\ said'[i] = said[i]
    BY <1>2, <2>1, <2>2, <2>3
  <2>6. lines'[Len(lines) + 1] = line /\ said'[Len(lines) + 1] = says
    BY <1>2, <2>1, <2>2, <2>3
  <2>7. Keeps(lines)'
    BY <1>2, <1>4, <2>2, <2>4, <2>5, <2>6 DEF Keeps
  <2> QED
    BY <1>5, <2>1, <2>7
<1>7. CASE CompleteLine
  <2> DEFINE k == Len(lines)
  <2>1. /\ MayAppend /\ stamp' = stamp + 1 /\ UNCHANGED <<rewrite, said>>
        /\ lines # <<>> /\ lines' = [lines EXCEPT ![k].state = "whole"]
    BY <1>7 DEF CompleteLine, Changes
  <2>2. k \in DOMAIN lines /\ Len(lines') = Len(lines) /\ DOMAIN lines' = DOMAIN lines
    BY <1>2, <2>1
  <2>3. ASSUME NEW i \in DOMAIN lines
        PROVE  /\ lines'[i].says = lines[i].says
               /\ lines'[i].state = "redacted" => lines[i].state = "redacted"
    <3>1. lines[i] \in SpokenLines /\ lines[k] \in SpokenLines
      BY <1>2, <2>2
    <3>2. CASE i = k
      <4>1. lines'[i] = [lines[i] EXCEPT !.state = "whole"]
        BY <2>1, <2>2, <3>2
      <4> QED
        BY <3>1, <4>1 DEF SpokenLines
    <3>3. CASE i # k
      BY <2>1, <2>2, <3>3
    <3> QED
      BY <3>2, <3>3
  <2>4. Keeps(lines)'
    BY <1>4, <2>1, <2>2, <2>3 DEF Keeps
  <2> QED
    BY <1>5, <2>1, <2>4
\* A pass that begins or ends keeps nothing.
<1>8. ASSUME NEW r \in Rewriters, NEW x \in Passes, Pass(r, x), x.pc \in {"none", "read"},
             UNCHANGED <<lines, said, stamp>>
      PROVE  goal
  <2>1. /\ rewrite'[r] = x
        /\ \A q \in Rewriters \ {r} : rewrite'[q] = rewrite[q]
    BY <1>2, <1>8 DEF Pass
  <2> QED
    BY <1>4, <1>8, <2>1 DEF Keeps
<1>9. NoPass \in Passes /\ NoPass.pc = "none"
  BY DEF NoPass, Passes
<1> DEFINE opened == [NoPass EXCEPT !.pc = "read", !.stamp = stamp]
<1>10. opened \in Passes /\ opened.pc = "read"
  <2>1. <<>> \in Seq(SpokenLines)
    OBVIOUS
  <2> QED
    BY <1>2, <2>1 DEF NoPass, Passes
<1>11. ASSUME NEW w \in Watchers, Fire(w)
       PROVE  goal
  <2>1. w \in Rewriters /\ Pass(w, opened) /\ UNCHANGED <<lines, said, stamp>>
    BY <1>11 DEF Fire, Rewriters
  <2> HIDE DEF opened, goal
  <2> QED
    BY <1>8, <1>10, <2>1
<1>12. ASSUME NEW w \in Watchers, Stop(w)
       PROVE  goal
  <2>1. w \in Rewriters /\ Pass(w, NoPass) /\ UNCHANGED <<lines, said, stamp>>
    BY <1>12 DEF Stop, Rewriters
  <2> HIDE DEF goal
  <2> QED
    BY <1>8, <1>9, <2>1
<1>13. ASSUME NEW c \in Cleaners, Clean(c)
       PROVE  goal
  <2>1. c \in Rewriters /\ Pass(c, opened) /\ UNCHANGED <<lines, said, stamp>>
    BY <1>13 DEF Clean, Rewriters
  <2> HIDE DEF opened, goal
  <2> QED
    BY <1>8, <1>10, <2>1
\* What is read keeps the lines, and what is compared with an unchanged file still does.
<1>14. ASSUME NEW r \in Rewriters, ReadTranscript(r)
       PROVE  goal
  <2>1. /\ UNCHANGED <<lines, said, stamp>>
        /\ \/ Pass(r, NoPass)
           \/ Pass(r, [rewrite[r] EXCEPT !.pc = "check", !.lines = lines])
    BY <1>14 DEF ReadTranscript
  <2>2. CASE Pass(r, NoPass)
    BY <1>8, <1>9, <2>1, <2>2
  <2>3. CASE Pass(r, [rewrite[r] EXCEPT !.pc = "check", !.lines = lines])
    <3>1. /\ rewrite'[r].lines = lines
          /\ \A q \in Rewriters \ {r} : rewrite'[q] = rewrite[q]
      BY <1>2, <2>3 DEF Pass, Passes
    <3> QED
      BY <1>4, <2>1, <3>1 DEF Keeps
  <2> QED
    BY <2>1, <2>2, <2>3
<1>15. ASSUME NEW r \in Rewriters, CheckUnchanged(r)
       PROVE  goal
  <2>1. /\ UNCHANGED <<lines, said, stamp>>
        /\ rewrite[r].pc = "check"
        /\ \/ Pass(r, NoPass)
           \/ stamp = rewrite[r].stamp /\ Pass(r, [rewrite[r] EXCEPT !.pc = "rename"])
    BY <1>15 DEF CheckUnchanged
  <2>2. CASE Pass(r, NoPass)
    BY <1>8, <1>9, <2>1, <2>2
  <2>3. CASE stamp = rewrite[r].stamp /\ Pass(r, [rewrite[r] EXCEPT !.pc = "rename"])
    <3>1. /\ rewrite'[r].lines = rewrite[r].lines
          /\ \A q \in Rewriters \ {r} : rewrite'[q] = rewrite[q]
      BY <1>2, <2>3 DEF Pass, Passes
    <3>2. Keeps(rewrite[r].lines)
      BY <1>4, <2>1, <2>3
    <3> QED
      BY <1>4, <2>1, <3>1, <3>2 DEF Keeps
  <2> QED
    BY <2>1, <2>2, <2>3
<1>16. ASSUME NEW r \in Rewriters, Replace(r)
       PROVE  goal
  <2>1. /\ rewrite[r].pc = "rename" /\ Pass(r, NoPass)
        /\ lines' = Redacted(rewrite[r].lines) /\ stamp' = stamp + 1 /\ said' = said
    BY <1>16 DEF Replace, Changes
  <2>2. rewrite[r].lines \in Seq(SpokenLines) /\ Keeps(rewrite[r].lines)
    BY <1>2, <1>4, <2>1 DEF Passes
  <2>3. Keeps(lines')
    BY <2>1, <2>2, RedactedKeeps
  <2>4. /\ rewrite'[r] = NoPass
        /\ \A q \in Rewriters \ {r} : rewrite'[q] = rewrite[q]
    BY <1>2, <2>1 DEF Pass
  <2>5. \A q \in Rewriters : rewrite[q].stamp # stamp'
    BY <1>2, <2>1
  <2> QED
    BY <1>4, <1>9, <2>1, <2>3, <2>4, <2>5 DEF Keeps
<1>17. CASE Command \/ StartCommand \/ KillCommand \/ UNCHANGED watchVars
  BY <1>4, <1>17 DEF Command, StartCommand, KillCommand, transcriptVars, watchVars, Keeps
<1> QED
  BY <1>6, <1>7, <1>11, <1>12, <1>13, <1>14, <1>15, <1>16, <1>17 DEF WatchNext, PassStep

(***************************************************************************)
(* No line of the session is lost, whichever watchers and cleaners rewrite *)
(* the transcript and whenever it grows, as long as nothing is appended    *)
(* between the comparison and the rename (atomicWrite, transcript.ts).     *)
(***************************************************************************)
THEOREM NoLineIsLost == WatchSpec => []NoLineLostOutsideWindow
<1>1. WatchInit => KeptWhole
  BY DEF WatchInit, KeptWhole, Keeps, NoPass
<1>2. Shaped /\ KeptWhole /\ [WatchNext]_watchVars => KeptWhole'
  BY KeptStep
<1>3. KeptWhole => NoLineLostOutsideWindow
  BY DEF KeptWhole, Keeps, NoLineLostOutsideWindow, LinesKept
<1> QED
  BY <1>1, <1>2, <1>3, AlwaysShaped, PTL DEF WatchSpec
-----------------------------------------------------------------------------
(***************************************************************************)
(* Commands that do not overlap.  A step is of one process, which is in a  *)
(* command or begins one while nobody else is in the middle of one; what   *)
(* that process read is then still so when it writes.                      *)
(***************************************************************************)
OneMoves(p) ==
    /\ \A q \in Procs \ {p} : cmd'[q] = cmd[q]
    /\ Active(p) \/ (UNCHANGED <<stored, notes>> /\ (Active(p)' => Alone(p)))
    /\ UNCHANGED overlapping

NobodyMoves ==
    /\ UNCHANGED <<stored, notes, overlapping>>
    /\ \A q \in Procs : cmd'[q] \in {cmd[q], NoCommand}

LEMMA CommandMovesOne ==
    ASSUME Shaped, NEW p \in Procs, CommandStep(p)
    PROVE  OneMoves(p)
<1>1. cmd \in [Procs -> CommandRecords]
  BY DEF Shaped, WatchTypeOK, ExposureTypeOK, CommandRecords
<1>2. UNCHANGED overlapping /\ \A q \in Procs \ {p} : cmd'[q] = cmd[q]
  BY <1>1 DEF CommandStep, Compare, StoreValue, DeleteValue, LoadSecrets, ListAnnotations, Confirm,
              ReadNotes, WriteNotes, NotChecked, NotMarked, Becomes
<1>3. Active(p) \/ LoadSecrets(p) \/ NotChecked(p)
  BY DEF CommandStep, Compare, StoreValue, DeleteValue, ListAnnotations, Confirm, ReadNotes,
         WriteNotes, NotMarked, At, Idle, Active
<1>4. NotChecked(p) => ~Active(p)'
  BY <1>1 DEF NotChecked, Becomes, NoCommand, Active, Idle
<1> QED
  BY <1>2, <1>3, <1>4 DEF OneMoves, LoadSecrets, NotChecked

LEMMA StartMovesOne ==
    ASSUME Shaped, NEW p \in Procs, CommandStart(p)
    PROVE  OneMoves(p)
<1>1. cmd \in [Procs -> CommandRecords]
  BY DEF Shaped, WatchTypeOK, ExposureTypeOK, CommandRecords
<1> QED
  BY <1>1 DEF CommandStart, SetSecret, RemoveSecret, RecordExposure, MayStart, Becomes, OneMoves

\* The names whose stored value the pass of r takes out.
RedactedNames(r) == {n \in Names : stored[n] \in Spans(rewrite[r].lines)}

LEMMA WhoMoves ==
    ASSUME Shaped, [WatchNext]_watchVars
    PROVE  \/ \E p \in Procs : CommandStep(p) /\ OneMoves(p) /\ StillOwed /\ UNCHANGED transcriptVars
           \/ \E p \in Commanders :
                 /\ CommandStart(p) /\ OneMoves(p) /\ UNCHANGED <<stale, unmarked, owed>>
                 /\ UNCHANGED transcriptVars
           \/ \E p \in Commanders :
                 /\ Ends(p) /\ NobodyMoves
                 /\ cmd'[p] = NoCommand /\ \A q \in Procs \ {p} : cmd'[q] = cmd[q]
                 /\ UNCHANGED <<unmarked, owed>> /\ UNCHANGED transcriptVars
           \/ \E r \in Rewriters, m \in Procs \ Commanders :
                 /\ Replace(r) /\ OneMoves(m) /\ Idle(m)
                 /\ cmd'[m] = Marking(Spans(rewrite[r].lines))
                 /\ UNCHANGED <<stored, notes, stale, stops>>
                 /\ owed' = owed \union RedactedNames(r) /\ unmarked' = unmarked \ RedactedNames(r)
           \/ \E w \in Watchers :
                 /\ stops /\ NobodyMoves /\ UNCHANGED <<stale, stops, owed>>
                 /\ \A q \in Procs : cmd'[q] = IF q \in Markers[w] THEN NoCommand ELSE cmd[q]
           \/ UNCHANGED <<exposureVars, owed, stops>>
<1>1. cmd \in [Procs -> CommandRecords]
  BY DEF Shaped, WatchTypeOK, ExposureTypeOK, CommandRecords
<1>2. CASE Command
  BY <1>2, CommandMovesOne DEF Command
<1>3. CASE StartCommand
  <2>1. PICK p \in Commanders : CommandStart(p)
    BY <1>3 DEF StartCommand
  <2>2. OneMoves(p)
    BY <2>1, StartMovesOne, WatchAssumption
  <2>3. UNCHANGED <<stale, unmarked>>
    BY <2>1 DEF CommandStart, SetSecret, RemoveSecret, RecordExposure, histories
  <2> QED
    BY <1>3, <2>1, <2>2, <2>3 DEF StartCommand
<1>4. CASE KillCommand
  <2>1. PICK p \in Commanders : Ends(p)
    BY <1>4 DEF KillCommand
  <2>2. p \in Procs
    BY WatchAssumption
  <2>3. cmd'[p] = NoCommand /\ \A q \in Procs \ {p} : cmd'[q] = cmd[q]
    BY <1>1, <2>1, <2>2 DEF Ends, Becomes
  <2>4. NobodyMoves
    BY <2>1, <2>2, <2>3 DEF NobodyMoves, Ends
  <2> QED
    BY <1>4, <2>1, <2>3, <2>4 DEF KillCommand, Ends
<1>5. ASSUME NEW r \in Rewriters, Replace(r)
      PROVE  \E m \in Procs \ Commanders :
                /\ OneMoves(m) /\ Idle(m)
                /\ cmd'[m] = Marking(Spans(rewrite[r].lines))
                /\ UNCHANGED <<stored, notes, stale, stops>>
                /\ owed' = owed \union RedactedNames(r) /\ unmarked' = unmarked \ RedactedNames(r)
  <2> DEFINE c == Marking(Spans(rewrite[r].lines))
  <2>1. PICK m \in Procs \ Commanders : Idle(m) /\ Becomes(m, c)
    BY <1>5, MarkerIsIdle
  <2>2. /\ UNCHANGED <<stored, notes, stale, stops, overlapping>>
        /\ owed' = owed \union RedactedNames(r) /\ unmarked' = unmarked \ RedactedNames(r)
    BY <1>5 DEF Replace, RedactedNames
  <2>3. c.pc = "load"
    BY DEF Marking, NoCommand
  <2> HIDE DEF c
  <2>4. cmd'[m] = c /\ \A q \in Procs \ {m} : cmd'[q] = cmd[q]
    BY <1>1, <2>1 DEF Becomes
  <2>5. ~Active(m)'
    BY <2>3, <2>4 DEF Active, At
  <2> QED
    BY <2>1, <2>2, <2>4, <2>5 DEF OneMoves, c
<1>6. ASSUME NEW w \in Watchers, Stop(w)
      PROVE  /\ stops /\ NobodyMoves /\ UNCHANGED <<stale, stops, owed>>
             /\ \A q \in Procs : cmd'[q] = IF q \in Markers[w] THEN NoCommand ELSE cmd[q]
  BY <1>6 DEF Stop, NobodyMoves, histories
<1>7. CASE \/ \E says \in Sayings, state \in {"part", "whole"} : SayLine(says, state)
           \/ CompleteLine
           \/ \E w \in Watchers : Fire(w)
           \/ \E c \in Cleaners : Clean(c)
           \/ \E r \in Rewriters : ReadTranscript(r) \/ CheckUnchanged(r)
  BY <1>7 DEF SayLine, CompleteLine, Fire, Clean, ReadTranscript, CheckUnchanged
<1>8. CASE UNCHANGED watchVars
  BY <1>8 DEF watchVars, transcriptVars
<1> QED
  BY <1>2, <1>3, <1>4, <1>5, <1>6, <1>7, <1>8 DEF WatchNext, PassStep

\* What a step of a command leaves in its own record is up to date.
LEMMA CommandStaysUpToDate ==
    ASSUME Shaped, NEW p \in Procs, CommandStep(p), UpToDate(p)
    PROVE  UpToDate(p)'
<1>1. cmd[p] \in CommandRecords /\ WellFormed(cmd[p]) /\ stored \in Notes /\ notes \in Notes
      /\ cmd \in [Procs -> CommandRecords]
  BY DEF Shaped, WatchTypeOK, ExposureTypeOK, CommandRecords, Notes
<1>2. CASE Compare(p)
  <2>1. /\ cmd'[p].pc = "store" /\ cmd'[p].closes = (stored[cmd[p].name] # cmd[p].value)
        /\ cmd'[p].name = cmd[p].name /\ cmd'[p].value = cmd[p].value
        /\ stored' = stored
    BY <1>1, <1>2 DEF Compare, Becomes, CommandRecords
  <2> QED
    BY <2>1 DEF UpToDate
<1>3. CASE StoreValue(p)
  <2>1. /\ cmd'[p].pc \in {"idle", "readNotes"}
        /\ cmd'[p].pc = "readNotes" => cmd'[p].op = "set"
    BY <1>1, <1>3 DEF StoreValue, Becomes, CommandRecords, WellFormed, NoCommand, At
  <2> QED
    BY <2>1 DEF UpToDate
<1>4. CASE DeleteValue(p)
  <2>1. cmd'[p].pc = "readNotes" /\ cmd'[p].op = "remove"
    BY <1>1, <1>4 DEF DeleteValue, Becomes, CommandRecords, WellFormed, At
  <2> QED
    BY <2>1 DEF UpToDate
<1>5. CASE LoadSecrets(p)
  <2>1. cmd'[p].pc = "list"
    BY <1>1, <1>5 DEF LoadSecrets, Becomes, CommandRecords
  <2> QED
    BY <2>1 DEF UpToDate
<1>6. CASE ListAnnotations(p)
  <2>1. cmd'[p].pc \in {"idle", "confirm"}
    BY <1>1, <1>6 DEF ListAnnotations, Becomes, CommandRecords, NoCommand
  <2> QED
    BY <2>1 DEF UpToDate
<1>7. ASSUME NEW c \in CommandRecords, NEW left
      PROVE  Proceeds(c, left).pc \in {"idle", "confirm"}
  BY <1>7 DEF Proceeds, NoCommand, CommandRecords
<1>8. ASSUME NEW n \in Names, Confirm(p, n)
      PROVE  UpToDate(p)'
  <2>1. CASE stored[n] = Absent
    <3>1. cmd'[p] = Proceeds(cmd[p], cmd[p].todo \ {n})
      BY <1>1, <1>8, <2>1 DEF Confirm, Becomes
    <3> QED
      BY <1>1, <1>7, <3>1 DEF UpToDate
  <2>2. CASE stored[n] # Absent
    <3>1. /\ cmd'[p].pc = "readNotes" /\ cmd'[p].name = n /\ cmd'[p].value = stored[n]
          /\ stored' = stored
      BY <1>1, <1>8, <2>2 DEF Confirm, Becomes, CommandRecords
    <3> QED
      BY <2>2, <3>1 DEF UpToDate
  <2> QED
    BY <2>1, <2>2
<1>9. CASE ReadNotes(p)
  <2>1. /\ cmd[p].pc = "readNotes"
        /\ cmd'[p].pc = "writeNotes" /\ cmd'[p].seen = notes /\ cmd'[p].op = cmd[p].op
        /\ cmd'[p].name = cmd[p].name /\ cmd'[p].value = cmd[p].value
        /\ stored' = stored /\ notes' = notes
    BY <1>1, <1>9 DEF ReadNotes, Becomes, CommandRecords, At
  <2> QED
    BY <2>1 DEF UpToDate
<1>10. CASE WriteNotes(p)
  <2>1. cmd'[p] = Proceeds(cmd[p], cmd[p].todo \ {cmd[p].name})
    BY <1>1, <1>10 DEF WriteNotes, Becomes
  <2> QED
    BY <1>1, <1>7, <2>1 DEF UpToDate
<1>11. CASE NotChecked(p)
  <2>1. cmd'[p].pc = "idle"
    BY <1>1, <1>11 DEF NotChecked, Becomes, NoCommand
  <2> QED
    BY <2>1 DEF UpToDate
<1>12. ASSUME NEW n \in Names, NotMarked(p, n)
       PROVE  UpToDate(p)'
  <2>1. cmd'[p] = Proceeds(cmd[p], cmd[p].todo \ {n})
    BY <1>1, <1>12 DEF NotMarked, Becomes
  <2> QED
    BY <1>1, <1>7, <2>1 DEF UpToDate
<1> QED
  BY <1>2, <1>3, <1>4, <1>5, <1>6, <1>8, <1>9, <1>10, <1>11, <1>12 DEF CommandStep

\* A command begins up to date: a set that does not look at the store closes nothing.
LEMMA StartsUpToDate ==
    ASSUME Shaped, NEW p \in Procs, CommandStart(p)
    PROVE  UpToDate(p)'
<1>1. cmd \in [Procs -> CommandRecords]
  BY DEF Shaped, WatchTypeOK, ExposureTypeOK, CommandRecords
<1>2. PICK n \in Names : (\E v \in Values : SetSecret(p, n, v)) \/ RemoveSecret(p, n) \/ RecordExposure(p, n)
  BY DEF CommandStart
<1>3. ASSUME NEW v \in Values, SetSecret(p, n, v)
      PROVE  UpToDate(p)'
  <2>1. cmd'[p].pc \in {"compare", "store"} /\ cmd'[p].closes = FALSE
    BY <1>1, <1>3 DEF SetSecret, Becomes, NoCommand
  <2> QED
    BY <2>1 DEF UpToDate
<1>4. CASE RemoveSecret(p, n) \/ RecordExposure(p, n)
  <2>1. cmd'[p].pc \in {"delete", "confirm"}
    BY <1>1, <1>4 DEF RemoveSecret, RecordExposure, Becomes, NoCommand
  <2> QED
    BY <2>1 DEF UpToDate
<1> QED
  BY <1>2, <1>3, <1>4

LEMMA SerialWatchStep ==
    ASSUME Shaped, Serial, [WatchNext]_watchVars
    PROVE  Serial'
<1> SUFFICES ASSUME overlapping' = "none"
             PROVE  OneActive' /\ \A q \in Procs : UpToDate(q)'
  BY DEF Serial
<1>1. \/ \E p \in Procs : CommandStep(p) /\ OneMoves(p)
      \/ \E p \in Procs : CommandStart(p) /\ OneMoves(p)
      \/ NobodyMoves
      \/ \E m \in Procs : OneMoves(m) /\ cmd'[m].pc = "load"
      \/ UNCHANGED exposureVars
  <2>1. \A spans : Marking(spans).pc = "load"
    BY DEF Marking, NoCommand
  <2> QED
    BY <2>1, WhoMoves, WatchAssumption
<1>2. overlapping = "none"
  BY <1>1 DEF OneMoves, NobodyMoves, exposureVars
<1>3. OneActive /\ \A q \in Procs : UpToDate(q)
  BY <1>2 DEF Serial
<1>4. CASE UNCHANGED exposureVars
  BY <1>3, <1>4 DEF exposureVars, OneActive, UpToDate, Active, Idle, At
<1>5. CASE NobodyMoves
  <2>1. ASSUME NEW q \in Procs
        PROVE  UpToDate(q)' /\ (Active(q)' => Active(q))
    <3>1. CASE cmd'[q] = cmd[q]
      BY <1>3, <1>5, <3>1 DEF NobodyMoves, UpToDate, Active, Idle, At
    <3>2. CASE cmd'[q] = NoCommand
      BY <3>2 DEF UpToDate, Active, NoCommand, Idle
    <3> QED
      BY <1>5, <3>1, <3>2 DEF NobodyMoves
  <2> QED
    BY <1>3, <2>1 DEF OneActive
<1>6. ASSUME NEW p \in Procs, OneMoves(p), UpToDate(p)'
      PROVE  OneActive' /\ \A q \in Procs : UpToDate(q)'
  <2>1. ASSUME NEW q \in Procs \ {p}
        PROVE  Active(q)' <=> Active(q)
    BY <1>6 DEF OneMoves, Active, Idle, At
  <2>2. ASSUME NEW q \in Procs \ {p}, Active(p)'
        PROVE  ~Active(q)
    BY <1>2, <1>3, <1>6, <2>2 DEF OneMoves, OneActive, Alone, Active
  <2>3. OneActive'
    BY <1>3, <2>1, <2>2 DEF OneActive
  <2>4. ASSUME NEW q \in Procs \ {p}
        PROVE  UpToDate(q)'
    <3>1. CASE Active(p)
      <4>1. cmd'[q] = cmd[q] /\ ~Active(q)
        BY <1>3, <1>6, <3>1 DEF OneMoves, OneActive
      <4> QED
        BY <4>1 DEF UpToDate, Active, Idle, At
    <3>2. CASE ~Active(p)
      BY <1>3, <1>6, <3>2 DEF OneMoves, UpToDate
    <3> QED
      BY <3>1, <3>2
  <2> QED
    BY <1>6, <2>3, <2>4
<1>7. ASSUME NEW m \in Procs, cmd'[m].pc = "load"
      PROVE  UpToDate(m)'
  BY <1>7 DEF UpToDate
<1> QED
  BY <1>1, <1>3, <1>4, <1>5, <1>6, <1>7, CommandStaysUpToDate, StartsUpToDate

LEMMA AlwaysSerial == WatchSpec => []Serial
<1>1. WatchInit => Serial
  BY DEF WatchInit, ExposureInit, Serial, OneActive, UpToDate, Active, Idle, NoCommand
<1>2. Shaped /\ Serial /\ [WatchNext]_watchVars => Serial'
  BY SerialWatchStep
<1> QED
  BY <1>1, <1>2, AlwaysShaped, PTL DEF WatchSpec
-----------------------------------------------------------------------------
\* Where nothing is written and no command gets to or leaves the middle, all is tracked as before.
LEMMA TrackedAsBefore ==
    ASSUME Tracked, UNCHANGED <<stored, notes, overlapping>>, stale \subseteq stale',
           \A q \in Procs : /\ Halfway(q)' <=> Halfway(q)
                            /\ Halfway(q) => cmd'[q].name = cmd[q].name
    PROVE  Tracked'
BY DEF Tracked

\* The one command in the middle: the exposures but the one it closes are of stored values.
LEMMA OthersTracked ==
    ASSUME Tracked, Serial, overlapping = "none", NEW p \in Procs, Active(p), NEW n \in Names
    PROVE  \/ notes[n] \in {Absent, stored[n]} \/ n \in stale
           \/ Halfway(p) /\ cmd[p].name = n
<1>1. ASSUME NEW q \in Procs, Halfway(q)
      PROVE  q = p
  BY <1>1 DEF Serial, OneActive, Halfway, Active, Idle, At
<1> QED
  BY <1>1 DEF Tracked

LEMMA CommandStaysTracked ==
    ASSUME Shaped, Serial, Tracked, NEW p \in Procs, CommandStep(p), OneMoves(p)
    PROVE  Tracked'
<1> SUFFICES ASSUME overlapping' = "none"
             PROVE  /\ \A n \in Names :
                          \/ notes'[n] \in {Absent, stored'[n]} \/ n \in stale'
                          \/ \E q \in Procs : Halfway(q)' /\ cmd'[q].name = n
                    /\ \A q \in Procs : Halfway(q)' =>
                          \/ notes'[cmd'[q].name] = Absent
                          \/ stored'[cmd'[q].name] # notes'[cmd'[q].name]
                          \/ cmd'[q].name \in stale'
  BY DEF Tracked
<1>1. overlapping = "none"
  BY DEF OneMoves
<1>2. /\ cmd \in [Procs -> CommandRecords] /\ cmd[p] \in CommandRecords /\ WellFormed(cmd[p])
      /\ stored \in Notes /\ notes \in Notes
  BY DEF Shaped, WatchTypeOK, ExposureTypeOK, CommandRecords, Notes
<1>3. OneActive /\ UpToDate(p)
  BY <1>1 DEF Serial
<1>4. ASSUME NEW q \in Procs \ {p}, Active(p)
      PROVE  ~Halfway(q)'
  <2>1. ~Active(q) /\ cmd'[q] = cmd[q]
    BY <1>3, <1>4 DEF OneActive, OneMoves
  <2> QED
    BY <2>1 DEF Active, Halfway, Idle, At
<1>5. CASE \/ Compare(p) \/ LoadSecrets(p) \/ ListAnnotations(p) \/ NotChecked(p)
           \/ \E n \in Names : Confirm(p, n) \/ NotMarked(p, n)
  <2>1. UNCHANGED <<stored, notes, stale, overlapping>> /\ ~Halfway(p)
    BY <1>5 DEF Compare, LoadSecrets, ListAnnotations, Confirm, NotChecked, NotMarked, Halfway, At,
       histories
  <2>2. ~Halfway(p)'
    <3>1. CASE Compare(p)
      BY <1>2, <3>1 DEF Compare, Becomes, CommandRecords, Halfway
    <3>2. CASE LoadSecrets(p)
      BY <1>2, <3>2 DEF LoadSecrets, Becomes, CommandRecords, Halfway
    <3>3. CASE ListAnnotations(p)
      BY <1>2, <3>3 DEF ListAnnotations, Becomes, CommandRecords, Halfway, NoCommand
    <3>4. ASSUME NEW n \in Names, Confirm(p, n)
          PROVE  ~Halfway(p)'
      <4>1. cmd[p].op \in {"expose", "mark"}
        BY <1>2, <3>4 DEF WellFormed, Confirm, At
      <4>2. CASE stored[n] = Absent
        BY <1>2, <3>4, <4>1, <4>2, ProceedsWellFormed DEF Confirm, Becomes, Halfway
      <4>3. CASE stored[n] # Absent
        BY <1>2, <3>4, <4>1, <4>3 DEF Confirm, Becomes, Halfway, CommandRecords
      <4> QED
        BY <4>2, <4>3
    <3>5. CASE NotChecked(p)
      BY <1>2, <3>5 DEF NotChecked, Becomes, NoCommand, Halfway
    <3>6. ASSUME NEW n \in Names, NotMarked(p, n)
          PROVE  ~Halfway(p)'
      BY <1>2, <3>6, ProceedsWellFormed DEF NotMarked, Becomes, Halfway
    <3> QED
      BY <1>5, <3>1, <3>2, <3>3, <3>4, <3>5, <3>6
  <2>3. ASSUME NEW q \in Procs \ {p}
        PROVE  (Halfway(q)' <=> Halfway(q)) /\ cmd'[q].name = cmd[q].name
    BY <2>3 DEF OneMoves, Halfway
  <2>4. Tracked'
    BY <2>1, <2>2, <2>3, TrackedAsBefore
  <2> QED
    BY <2>4 DEF Tracked
<1> DEFINE k == cmd[p].name
<1>6. CASE StoreValue(p)
  <2>1. /\ Active(p) /\ ~Halfway(p) /\ k \in Names
        /\ stored' = [stored EXCEPT ![k] = cmd[p].value] /\ notes' = notes
        /\ stale' = IF ~cmd[p].closes /\ notes[k] \notin {Absent, cmd[p].value}
                    THEN stale \union {k} ELSE stale
    BY <1>2, <1>6 DEF StoreValue, At, Idle, Active, Halfway, WellFormed
  <2>2. \A n \in Names : notes[n] \in {Absent, stored[n]} \/ n \in stale
    BY <1>1, <2>1, OthersTracked
  <2>3. CASE cmd[p].closes
    <3>1. /\ Halfway(p)' /\ cmd'[p].name = k
          /\ stored[k] # cmd[p].value /\ stored'[k] = cmd[p].value
          /\ \A n \in Names \ {k} : stored'[n] = stored[n]
      <4>1. cmd'[p] = [cmd[p] EXCEPT !.pc = "readNotes"] /\ cmd[p].op = "set"
        BY <1>2, <1>6, <2>3 DEF StoreValue, Becomes, WellFormed, At
      <4>2. Halfway(p)' /\ cmd'[p].name = k
        BY <1>2, <4>1 DEF Halfway, CommandRecords
      <4>3. stored[k] # cmd[p].value
        BY <1>3, <1>6, <2>3 DEF UpToDate, StoreValue, At
      <4> QED
        BY <1>2, <2>1, <4>2, <4>3 DEF Notes
    <3> HIDE DEF k
    <3> QED
      BY <1>4, <2>1, <2>2, <3>1
  <2>4. CASE ~cmd[p].closes
    <3>1. ~Halfway(p)' /\ \A n \in Names \ {k} : stored'[n] = stored[n]
      BY <1>2, <1>6, <2>1, <2>4 DEF StoreValue, Becomes, Halfway, NoCommand, Notes
    <3>2. stored'[k] = cmd[p].value /\ (notes[k] \in {Absent, stored'[k]} \/ k \in stale')
      BY <1>2, <2>1, <2>4 DEF Notes
    <3>3. stale \subseteq stale'
      BY <2>1
    <3> HIDE DEF k
    <3> QED
      BY <1>4, <2>1, <2>2, <3>1, <3>2, <3>3
  <2> QED
    BY <2>3, <2>4
<1>7. CASE DeleteValue(p)
  <2>1. /\ Active(p) /\ ~Halfway(p) /\ k \in Names
        /\ stored' = [stored EXCEPT ![k] = Absent] /\ notes' = notes /\ stale' = stale
    BY <1>2, <1>7 DEF DeleteValue, At, Idle, Active, Halfway, WellFormed, histories
  <2>2. \A n \in Names : notes[n] \in {Absent, stored[n]} \/ n \in stale
    BY <1>1, <2>1, OthersTracked
  <2>3. Halfway(p)' /\ cmd'[p].name = k
    <3>1. cmd'[p] = [cmd[p] EXCEPT !.pc = "readNotes"] /\ cmd[p].op = "remove"
      BY <1>2, <1>7 DEF DeleteValue, Becomes, WellFormed, At
    <3> QED
      BY <1>2, <3>1 DEF Halfway, CommandRecords
  <2>4. stored'[k] = Absent /\ \A n \in Names \ {k} : stored'[n] = stored[n]
    BY <1>2, <2>1 DEF Notes
  <2> HIDE DEF k
  <2> QED
    BY <1>4, <2>1, <2>2, <2>3, <2>4
<1>8. CASE ReadNotes(p)
  <2>1. UNCHANGED <<stored, notes, stale, overlapping>>
    BY <1>8 DEF ReadNotes, histories
  <2>2. (Halfway(p)' <=> Halfway(p)) /\ cmd'[p].name = cmd[p].name
    BY <1>2, <1>8 DEF ReadNotes, At, Becomes, Halfway, CommandRecords
  <2>3. ASSUME NEW q \in Procs \ {p}
        PROVE  (Halfway(q)' <=> Halfway(q)) /\ cmd'[q].name = cmd[q].name
    BY <2>3 DEF OneMoves, Halfway
  <2>4. Tracked'
    BY <2>1, <2>2, <2>3, TrackedAsBefore
  <2> QED
    BY <2>4 DEF Tracked
<1>9. CASE WriteNotes(p)
  <2>1. /\ Active(p) /\ k \in Names /\ stored' = stored /\ cmd[p].seen = notes
        /\ cmd[p].op # "none" /\ stale' = stale \ {k}
    BY <1>2, <1>3, <1>9 DEF WriteNotes, At, Idle, Active, WellFormed, UpToDate
  <2>2. ~Halfway(p)'
    <3>1. cmd'[p] = Proceeds(cmd[p], cmd[p].todo \ {k})
      BY <1>2, <1>9 DEF WriteNotes, Becomes
    <3> QED
      BY <1>2, <3>1 DEF Proceeds, NoCommand, Halfway, CommandRecords
  <2>3. \A n \in Names \ {k} : notes[n] \in {Absent, stored[n]} \/ n \in stale
    BY <1>1, <2>1, OthersTracked
  <2>4. /\ \A n \in Names \ {k} : notes'[n] = notes[n]
        /\ notes'[k] \in {Absent, stored[k]}
    <3>1. CASE cmd[p].op = "remove" /\ notes[k] = Absent
      BY <1>9, <2>1, <3>1 DEF WriteNotes
    <3>2. CASE ~(cmd[p].op = "remove" /\ notes[k] = Absent)
      <4> DEFINE v == IF cmd[p].op \in {"set", "remove"} THEN Absent ELSE cmd[p].value
      <4>1. notes' = [notes EXCEPT ![k] = v]
        BY <1>9, <2>1, <3>2 DEF WriteNotes
      <4>2. v \in {Absent, stored[k]}
        BY <1>2, <1>3, <1>9, <2>1 DEF UpToDate, WriteNotes, At, CommandRecords
      <4> HIDE DEF v
      <4> QED
        BY <1>2, <2>1, <4>1, <4>2 DEF Notes
    <3> QED
      BY <3>1, <3>2
  <2> HIDE DEF k
  <2> QED
    BY <1>4, <2>1, <2>2, <2>3, <2>4
<1> QED
  BY <1>5, <1>6, <1>7, <1>8, <1>9 DEF CommandStep

LEMMA TrackedStep ==
    ASSUME Shaped, Serial, Tracked, [WatchNext]_watchVars
    PROVE  Tracked'
<1>1. CASE \E p \in Procs : CommandStep(p) /\ OneMoves(p)
  BY <1>1, CommandStaysTracked
<1>2. ASSUME NEW p \in Procs, CommandStart(p), OneMoves(p), UNCHANGED stale
      PROVE  Tracked'
  <2>1. cmd \in [Procs -> CommandRecords]
    BY DEF Shaped, WatchTypeOK, ExposureTypeOK, CommandRecords
  <2>2. Idle(p) /\ UNCHANGED <<stored, notes, overlapping>>
        /\ cmd'[p].pc \in {"compare", "store", "delete", "confirm"}
    <3>1. PICK n \in Names :
             (\E v \in Values : SetSecret(p, n, v)) \/ RemoveSecret(p, n) \/ RecordExposure(p, n)
      BY <1>2 DEF CommandStart
    <3>2. ASSUME NEW v \in Values, SetSecret(p, n, v)
          PROVE  cmd'[p].pc \in {"compare", "store"} /\ Idle(p) /\ UNCHANGED <<stored, notes, overlapping>>
      BY <2>1, <3>2 DEF SetSecret, MayStart, Becomes, NoCommand
    <3>3. CASE RemoveSecret(p, n) \/ RecordExposure(p, n)
      BY <2>1, <3>3 DEF RemoveSecret, RecordExposure, MayStart, Becomes, NoCommand
    <3> QED
      BY <3>1, <3>2, <3>3
  <2>3. ASSUME NEW q \in Procs \ {p}
        PROVE  (Halfway(q)' <=> Halfway(q)) /\ cmd'[q].name = cmd[q].name
    BY <1>2 DEF OneMoves, Halfway
  <2>4. ~Halfway(p) /\ ~Halfway(p)'
    BY <2>2 DEF Halfway, Idle
  <2> QED
    BY <1>2, <2>2, <2>3, <2>4, TrackedAsBefore
<1>3. ASSUME NEW p \in Commanders, Ends(p), NobodyMoves,
             cmd'[p] = NoCommand, \A q \in Procs \ {p} : cmd'[q] = cmd[q]
      PROVE  Tracked'
  <2>1. /\ ~Halfway(p)' /\ UNCHANGED <<stored, notes, overlapping>>
        /\ stale' = IF Halfway(p) /\ notes[cmd[p].name] # Absent
                    THEN stale \union {cmd[p].name} ELSE stale
    BY <1>3 DEF Halfway, NoCommand, NobodyMoves, Ends
  <2>2. ASSUME NEW q \in Procs \ {p}
        PROVE  (Halfway(q)' <=> Halfway(q)) /\ cmd'[q].name = cmd[q].name
    BY <1>3 DEF Halfway
  <2> QED
    BY <2>1, <2>2 DEF Tracked
<1>4. ASSUME NEW m \in Procs, NEW spans, OneMoves(m), Idle(m), cmd'[m] = Marking(spans),
             UNCHANGED <<stored, notes, stale>>
      PROVE  Tracked'
  <2>1. ~Halfway(m) /\ ~Halfway(m)' /\ UNCHANGED overlapping
    BY <1>4 DEF Halfway, Idle, Marking, NoCommand, OneMoves
  <2>2. ASSUME NEW q \in Procs \ {m}
        PROVE  (Halfway(q)' <=> Halfway(q)) /\ cmd'[q].name = cmd[q].name
    BY <1>4 DEF OneMoves, Halfway
  <2> QED
    BY <1>4, <2>1, <2>2, TrackedAsBefore
<1>5. ASSUME NEW w \in Watchers, NobodyMoves, UNCHANGED stale,
             \A q \in Procs : cmd'[q] = IF q \in Markers[w] THEN NoCommand ELSE cmd[q]
      PROVE  Tracked'
  <2>1. ASSUME NEW q \in Procs, q \in Markers[w]
        PROVE  ~Halfway(q) /\ ~Halfway(q)'
    <3>1. Allowed(q, cmd[q]) /\ q \notin Commanders
      BY <2>1, WatchAssumption DEF Shaped, Rewriters
    <3> QED
      BY <1>5, <2>1, <3>1 DEF Allowed, Halfway, NoCommand
  <2>2. ASSUME NEW q \in Procs, q \notin Markers[w]
        PROVE  (Halfway(q)' <=> Halfway(q)) /\ cmd'[q].name = cmd[q].name
    BY <1>5, <2>2 DEF Halfway
  <2> QED
    BY <1>5, <2>1, <2>2, TrackedAsBefore DEF NobodyMoves
<1>6. CASE UNCHANGED exposureVars
  BY <1>6, TrackedAsBefore DEF exposureVars, histories, Halfway
<1> QED
  BY <1>1, <1>2, <1>3, <1>4, <1>5, <1>6, WhoMoves, WatchAssumption

(***************************************************************************)
(* Only a new value, or none, in the store ends an exposure, when commands *)
(* do not overlap (setSecret and removeSecret of secret-store.ts):         *)
(* whatever watchers and cleaners mark in between, and wherever commands   *)
(* fail and processes are killed; but for a record that a command had left *)
(* behind the value (it ended between its two writes, or could not read    *)
(* the annotations), which the next set ends whatever the value.           *)
(***************************************************************************)
THEOREM ExposureEndsByRotation == WatchSpec => ClosedOnlyByRotation
<1> DEFINE Closing == \A n \in Names \ stale :
              overlapping = "none" /\ notes[n] # Absent /\ notes'[n] # notes[n] => stored[n] # notes[n]
<1>1. WatchInit => Tracked
  BY DEF WatchInit, ExposureInit, Tracked, Halfway, NoCommand
<1>2. Shaped /\ Serial /\ Tracked /\ [WatchNext]_watchVars => Tracked'
  BY TrackedStep
<1>3. ASSUME Shaped, Serial, Tracked, [WatchNext]_watchVars
      PROVE  [Closing]_notes
  <2> SUFFICES ASSUME NEW n \in Names \ stale, overlapping = "none", notes[n] # Absent, notes'[n] # notes[n]
               PROVE  stored[n] # notes[n]
    OBVIOUS
  <2>1. PICK p \in Procs : WriteNotes(p)
    BY <1>3, WhoMoves, WatchAssumption
    DEF CommandStep, Compare, StoreValue, DeleteValue, LoadSecrets, ListAnnotations, Confirm, ReadNotes,
        NotChecked, NotMarked, OneMoves, NobodyMoves, exposureVars, CommandStart, SetSecret, RemoveSecret, RecordExposure
  <2>2. UpToDate(p) /\ WellFormed(cmd[p]) /\ notes \in Notes
    BY <1>3 DEF Serial, Shaped, WatchTypeOK, ExposureTypeOK
  <2>3. cmd[p].seen = notes /\ cmd[p].name \in Names
    BY <2>1, <2>2 DEF UpToDate, WellFormed, WriteNotes, At
  <2>4. n = cmd[p].name
    BY <2>1, <2>2, <2>3 DEF WriteNotes, Notes
  <2>5. CASE cmd[p].op \in {"set", "remove"}
    BY <1>3, <2>1, <2>4, <2>5 DEF Tracked, Halfway, WriteNotes, At
  <2>6. CASE cmd[p].op \notin {"set", "remove"}
    <3>1. cmd[p].value = stored[n]
      BY <2>1, <2>2, <2>4, <2>6 DEF UpToDate, WriteNotes, At, WellFormed, CommandRecords
    <3>2. notes'[n] = cmd[p].value
      BY <2>1, <2>2, <2>3, <2>4, <2>6 DEF WriteNotes, Notes
    <3> QED
      BY <3>1, <3>2
  <2> QED
    BY <2>5, <2>6
<1> QED
  BY <1>1, <1>2, <1>3, AlwaysShaped, AlwaysSerial, PTL DEF WatchSpec, ClosedOnlyByRotation
-----------------------------------------------------------------------------
(***************************************************************************)
(* What is owed.  A name whose value was redacted is reported as not       *)
(* marked, or it is marked, or in the list of a marking, or will be found  *)
(* by one that has not read the store yet; and while a command is about to *)
(* take its mark away, the last.                                           *)
(***************************************************************************)
Pending(n, m) ==
    /\ cmd[m].op = "mark"
    /\ \/ At(m, "load") /\ stored[n] \in cmd[m].spans
       \/ n \in cmd[m].todo

\* While nothing is written and no command begins or ends its second write, what is owed stays owed.
LEMMA OwedAsBefore ==
    ASSUME Owing, UNCHANGED <<stored, notes, overlapping, stops>>, NEW n \in owed,
           ~stops, overlapping = "none",
           \A q \in Procs : Halfway(q)' => Halfway(q) /\ cmd'[q].name = cmd[q].name,
           \A q \in Procs : cmd[q].op = "mark" => cmd'[q] = cmd[q],
           n \in unmarked => n \in unmarked'
    PROVE  stored'[n] # Absent /\ (n \in unmarked' \/ IsMarked(n)')
<1>1. BeingMarked(n) => BeingMarked(n)'
  BY DEF BeingMarked, ToMark, At
<1> QED
  BY <1>1 DEF Owing, IsMarked, LoadPending, At

\* A step of a command marks what it had to mark, or still has to.
LEMMA CommandStillOwes ==
    ASSUME Shaped, Serial, Owing, ~stops, overlapping = "none", NEW p \in Procs, CommandStep(p),
           OneMoves(p), NEW n \in owed, n \in Names, stored'[n] = stored[n], UNCHANGED stops
    PROVE  stored'[n] # Absent /\ (n \in unmarked' \/ IsMarked(n)')
<1>0. n \in unmarked => n \in unmarked'
  BY DEF CommandStep, Compare, StoreValue, DeleteValue, LoadSecrets, ListAnnotations, Confirm, ReadNotes,
     WriteNotes, NotChecked, NotMarked, histories
<1> SUFFICES ASSUME n \notin unmarked'
             PROVE  stored'[n] # Absent /\ IsMarked(n)'
  BY <1>0 DEF Owing
<1> USE DEF IsMarked
<1>1. /\ cmd \in [Procs -> CommandRecords] /\ cmd[p] \in CommandRecords /\ WellFormed(cmd[p])
      /\ stored \in Notes /\ notes \in Notes
  BY DEF Shaped, WatchTypeOK, ExposureTypeOK, CommandRecords, Notes
<1>2. OneActive /\ UpToDate(p)
  BY DEF Serial
<1>3. /\ stored[n] # Absent
      /\ notes[n] # Absent \/ BeingMarked(n)
      /\ \A q \in Procs : Halfway(q) /\ cmd[q].name = n => LoadPending(n)
  BY <1>0 DEF Owing
<1>4. ASSUME NEW q \in Procs \ {p}
      PROVE  cmd'[q] = cmd[q]
  BY DEF OneMoves
\* A marking of another process has what it had.
<1>5. ASSUME NEW m \in Procs \ {p}, Pending(n, m)
      PROVE  BeingMarked(n)'
  BY <1>4, <1>5 DEF Pending, BeingMarked, ToMark, At
<1>6. ASSUME NEW m \in Procs \ {p}, cmd[m].op = "mark", At(m, "load"), stored[n] \in cmd[m].spans
      PROVE  LoadPending(n)'
  BY <1>4, <1>6 DEF LoadPending, At
<1>7. ASSUME NEW q \in Procs \ {p}, Halfway(q)', cmd'[q].name = n, ~At(p, "load")
      PROVE  LoadPending(n)'
  <2>1. Halfway(q) /\ cmd[q].name = n
    BY <1>4, <1>7 DEF Halfway
  <2>2. PICK m \in Procs : cmd[m].op = "mark" /\ At(m, "load") /\ stored[n] \in cmd[m].spans
    BY <1>3, <2>1 DEF LoadPending
  <2>3. m # p
    BY <1>7, <2>2
  <2> QED
    BY <1>6, <2>2, <2>3
<1>8. CASE LoadSecrets(p)
  <2>1. /\ UNCHANGED <<stored, notes>>
        /\ cmd'[p] = [cmd[p] EXCEPT !.pc = "list", !.todo = {k \in Names : stored[k] \in cmd[p].spans}]
        /\ At(p, "load") /\ Alone(p)
    BY <1>1, <1>8 DEF LoadSecrets, Becomes
  <2>2. cmd'[p].op = cmd[p].op /\ cmd'[p].pc = "list"
        /\ cmd'[p].todo = {k \in Names : stored[k] \in cmd[p].spans}
    BY <1>1, <2>1 DEF CommandRecords
  <2>3. ASSUME NEW q \in Procs
        PROVE  ~Halfway(q)'
    <3>1. CASE q = p
      BY <2>2, <3>1 DEF Halfway
    <3>2. CASE q # p
      BY <1>4, <2>1, <3>2 DEF Halfway, Alone, Idle, At
    <3> QED
      BY <3>1, <3>2
  <2>4. ASSUME Pending(n, p)
        PROVE  BeingMarked(n)'
    <3>1. cmd[p].todo = {}
      BY <1>1, <2>1 DEF WellFormed, At
    <3>2. n \in cmd'[p].todo
      BY <2>2, <2>4, <3>1 DEF Pending
    <3> QED
      BY <2>2, <2>4, <3>2 DEF BeingMarked, ToMark, Pending
  <2>5. notes'[n] # Absent \/ BeingMarked(n)'
    BY <1>3, <1>5, <2>1, <2>4 DEF BeingMarked, ToMark, Pending
  <2> QED
    BY <1>3, <2>3, <2>5
<1>9. CASE Compare(p) \/ StoreValue(p) \/ DeleteValue(p)
  <2>1. cmd[p].op \in {"set", "remove"} /\ notes' = notes /\ cmd[p].name \in Names
        /\ ~At(p, "load")
    BY <1>1, <1>9 DEF Compare, StoreValue, DeleteValue, WellFormed, At, LoadSecrets
  <2>2. notes'[n] # Absent \/ BeingMarked(n)'
    BY <1>3, <1>5, <2>1 DEF BeingMarked, ToMark, Pending
  <2>3. ~(Halfway(p)' /\ cmd'[p].name = n)
    <3>1. CASE Compare(p)
      BY <1>1, <3>1 DEF Compare, Becomes, CommandRecords, Halfway
    <3>2. CASE StoreValue(p)
      <4>1. stored' = [stored EXCEPT ![cmd[p].name] = cmd[p].value]
            /\ (cmd[p].closes => stored[cmd[p].name] # cmd[p].value)
        BY <1>2, <3>2 DEF StoreValue, UpToDate, At
      <4>2. CASE cmd[p].closes
        <5>1. n # cmd[p].name
          BY <1>1, <2>1, <4>1, <4>2 DEF Notes
        <5> QED
          BY <1>1, <3>2, <4>2, <5>1 DEF StoreValue, Becomes, CommandRecords
      <4>3. CASE ~cmd[p].closes
        BY <1>1, <3>2, <4>3 DEF StoreValue, Becomes, NoCommand, Halfway
      <4> QED
        BY <4>2, <4>3
    <3>3. CASE DeleteValue(p)
      <4>1. stored' = [stored EXCEPT ![cmd[p].name] = Absent]
        BY <3>3 DEF DeleteValue
      <4>2. n # cmd[p].name
        BY <1>1, <1>3, <2>1, <4>1 DEF Notes
      <4> QED
        BY <1>1, <3>3, <4>2 DEF DeleteValue, Becomes, CommandRecords
    <3> QED
      BY <1>9, <3>1, <3>2, <3>3
  <2> QED
    BY <1>3, <1>7, <2>1, <2>2, <2>3
<1>10. CASE ListAnnotations(p)
  <2> DEFINE rest == {k \in cmd[p].todo : notes[k] = Absent}
  <2>1. /\ notes' = notes /\ ~At(p, "load")
        /\ cmd'[p] = IF rest = {} THEN NoCommand ELSE [cmd[p] EXCEPT !.pc = "confirm", !.todo = rest]
    BY <1>1, <1>10 DEF ListAnnotations, Becomes, LoadSecrets, At
  <2>2. ~Halfway(p)'
    BY <1>1, <2>1 DEF Halfway, NoCommand, CommandRecords
  <2>3. ASSUME notes[n] = Absent, Pending(n, p)
        PROVE  BeingMarked(n)'
    <3>1. n \in rest
      BY <1>10, <2>3 DEF Pending, ListAnnotations, At
    <3> HIDE DEF rest
    <3>2. cmd'[p].op = cmd[p].op /\ cmd'[p].todo = rest
      BY <1>1, <2>1, <3>1 DEF CommandRecords
    <3> QED
      BY <2>3, <3>1, <3>2 DEF BeingMarked, ToMark, Pending
  <2>4. notes'[n] # Absent \/ BeingMarked(n)'
    BY <1>3, <1>5, <2>1, <2>3 DEF BeingMarked, ToMark, Pending
  <2> QED
    BY <1>3, <1>7, <2>1, <2>2, <2>4
<1>11. ASSUME NEW k \in Names, Confirm(p, k)
       PROVE  IsMarked(n)'
  <2>1. notes' = notes /\ ~At(p, "load") /\ cmd[p].op \in {"expose", "mark"} /\ cmd[p].pc = "confirm"
    BY <1>1, <1>11 DEF Confirm, LoadSecrets, WellFormed, At
  <2>2. cmd'[p] = IF stored[k] = Absent THEN Proceeds(cmd[p], cmd[p].todo \ {k})
                  ELSE [cmd[p] EXCEPT !.pc = "readNotes", !.name = k, !.value = stored[k]]
    BY <1>1, <1>11 DEF Confirm, Becomes
  <2>3. ~Halfway(p)' /\ (n \in cmd[p].todo => n \in cmd'[p].todo /\ cmd'[p].op = cmd[p].op)
    <3>1. CASE stored[k] = Absent
      BY <1>1, <1>3, <2>1, <2>2, <3>1 DEF Proceeds, NoCommand, Halfway, CommandRecords
    <3>2. CASE stored[k] # Absent
      BY <1>1, <2>1, <2>2, <3>2 DEF Halfway, CommandRecords
    <3> QED
      BY <3>1, <3>2
  <2>4. notes'[n] # Absent \/ BeingMarked(n)'
    BY <1>3, <1>5, <2>1, <2>3 DEF BeingMarked, ToMark, Pending, At
  <2> QED
    BY <1>7, <2>1, <2>3, <2>4
<1>12. CASE ReadNotes(p)
  <2>1. /\ UNCHANGED <<stored, notes>> /\ ~At(p, "load")
        /\ cmd'[p].op = cmd[p].op /\ cmd'[p].todo = cmd[p].todo /\ cmd'[p].name = cmd[p].name
        /\ Halfway(p)' <=> Halfway(p)
        /\ ~At(p, "load")
    BY <1>1, <1>12 DEF ReadNotes, LoadSecrets, Becomes, CommandRecords, Halfway, At
  <2>2. notes'[n] # Absent \/ BeingMarked(n)'
    BY <1>3, <1>5, <2>1 DEF BeingMarked, ToMark, Pending
  <2>3. Halfway(p)' /\ cmd'[p].name = n => LoadPending(n)'
    <3>1. SUFFICES ASSUME Halfway(p), cmd[p].name = n
                   PROVE  LoadPending(n)'
      BY <2>1
    <3>2. PICK m \in Procs : cmd[m].op = "mark" /\ At(m, "load") /\ stored[n] \in cmd[m].spans
      BY <1>3, <3>1 DEF LoadPending
    <3> QED
      BY <1>6, <2>1, <3>2
  <2> QED
    BY <1>3, <1>7, <2>1, <2>2, <2>3
<1>13. CASE WriteNotes(p)
  <2> DEFINE k == cmd[p].name
  <2>1. /\ ~At(p, "load") /\ k \in Names /\ cmd[p].seen = notes /\ ~At(p, "load")
        /\ cmd'[p] = Proceeds(cmd[p], cmd[p].todo \ {k})
        /\ At(p, "writeNotes") /\ cmd[p].op # "none"
        /\ cmd[p].op \notin {"set", "remove"} => cmd[p].value # Absent
    BY <1>1, <1>2, <1>13 DEF WriteNotes, LoadSecrets, Becomes, WellFormed, UpToDate, At, CommandRecords
  <2>2. ~Halfway(p)' /\ (n # k /\ n \in cmd[p].todo => n \in cmd'[p].todo /\ cmd'[p].op = cmd[p].op)
    BY <1>1, <2>1 DEF Proceeds, NoCommand, Halfway, CommandRecords
  <2>3. n # k => notes'[n] = notes[n]
    BY <1>1, <1>13, <2>1 DEF WriteNotes, Notes
  <2>4. n = k /\ cmd[p].op \notin {"set", "remove"} => notes'[n] # Absent
    BY <1>1, <1>13, <2>1 DEF WriteNotes, Notes
  <2>5. ASSUME n = k, cmd[p].op \in {"set", "remove"}
        PROVE  BeingMarked(n)'
    <3>1. LoadPending(n)
      BY <1>3, <2>1, <2>5 DEF Halfway, At
    <3>2. PICK m \in Procs : cmd[m].op = "mark" /\ At(m, "load") /\ stored[n] \in cmd[m].spans
      BY <3>1 DEF LoadPending
    <3> QED
      BY <1>5, <2>1, <3>2 DEF Pending
  <2>6. ASSUME n # k, BeingMarked(n)
        PROVE  BeingMarked(n)'
    <3>1. PICK m \in Procs : Pending(n, m)
      BY <2>6 DEF BeingMarked, ToMark, Pending
    <3>2. CASE m = p
      BY <2>1, <2>2, <2>6, <3>1, <3>2 DEF Pending, BeingMarked, ToMark
    <3> QED
      BY <1>5, <3>1, <3>2
  <2>7. notes'[n] # Absent \/ BeingMarked(n)'
    BY <1>3, <2>3, <2>4, <2>5, <2>6
  <2> QED
    BY <1>3, <1>7, <2>1, <2>2, <2>7
\* A failure is reported for what it leaves unmarked; the rest is as before.
<1>14. ASSUME \/ NotChecked(p) /\ n \notin ToMark(p)
              \/ \E k \in Names \ {n} : NotMarked(p, k)
       PROVE  IsMarked(n)'
  <2>1. notes' = notes /\ ~Halfway(p)'
    <3>1. CASE NotChecked(p)
      BY <1>1, <3>1 DEF NotChecked, Becomes, NoCommand, Halfway
    <3>2. ASSUME NEW k \in Names, NotMarked(p, k)
          PROVE  notes' = notes /\ ~Halfway(p)'
      BY <1>1, <3>2, ProceedsWellFormed DEF NotMarked, Becomes, Halfway
    <3> QED
      BY <1>14, <3>1, <3>2
  <2>2. ASSUME Pending(n, p)
        PROVE  BeingMarked(n)' /\ ~At(p, "load")
    <3>1. PICK k \in Names \ {n} : NotMarked(p, k)
      BY <1>14, <2>2 DEF Pending, ToMark
    <3>2. ~At(p, "load") /\ cmd'[p] = Proceeds(cmd[p], cmd[p].todo \ {k})
      BY <1>1, <3>1 DEF NotMarked, Becomes, At
    <3>3. n \in cmd'[p].todo /\ cmd'[p].op = "mark"
      BY <1>1, <2>2, <3>2 DEF Pending, Proceeds, CommandRecords
    <3> QED
      BY <3>2, <3>3 DEF BeingMarked, ToMark
  <2>3. notes'[n] # Absent \/ BeingMarked(n)'
    BY <1>3, <1>5, <2>1, <2>2 DEF BeingMarked, ToMark, Pending
  <2>4. ASSUME NEW q \in Procs \ {p}, Halfway(q)', cmd'[q].name = n
        PROVE  LoadPending(n)'
    <3>1. Halfway(q) /\ cmd[q].name = n
      BY <1>4, <2>4 DEF Halfway
    <3>2. PICK m \in Procs : cmd[m].op = "mark" /\ At(m, "load") /\ stored[n] \in cmd[m].spans
      BY <1>3, <3>1 DEF LoadPending
    <3>3. m # p
      BY <2>2, <3>2 DEF Pending
    <3> QED
      BY <1>6, <3>2, <3>3
  <2> QED
    BY <2>1, <2>3, <2>4
<1>15. /\ NotChecked(p) => n \notin ToMark(p)
       /\ ~NotMarked(p, n)
  BY DEF NotChecked, NotMarked
<1> QED
  BY <1>3, <1>8, <1>9, <1>10, <1>11, <1>12, <1>13, <1>14, <1>15 DEF CommandStep

LEMMA OwingStep ==
    ASSUME Shaped, Serial, Owing, [WatchNext]_watchVars
    PROVE  Owing'
<1> SUFFICES ASSUME ~stops', overlapping' = "none", NEW n \in owed'
             PROVE  stored'[n] # Absent /\ (n \in unmarked' \/ IsMarked(n)')
  BY DEF Owing, IsMarked
<1>1. /\ cmd \in [Procs -> CommandRecords] /\ owed \subseteq Names
      /\ \A q \in Procs : WellFormed(cmd[q]) /\ Allowed(q, cmd[q])
  BY DEF Shaped, WatchTypeOK, ExposureTypeOK, CommandRecords
<1> DEFINE owes == stored'[n] # Absent /\ (n \in unmarked' \/ IsMarked(n)')
<1>2. ASSUME NEW p \in Procs, CommandStep(p), OneMoves(p), StillOwed, UNCHANGED transcriptVars
      PROVE  owes
  <2>1. n \in owed /\ n \in Names /\ stored'[n] = stored[n]
    BY <1>1, <1>2 DEF StillOwed
  <2>2. ~stops /\ overlapping = "none" /\ UNCHANGED stops
    BY <1>2 DEF OneMoves, transcriptVars
  <2> QED
    BY <1>2, <2>1, <2>2, CommandStillOwes
<1>3. ASSUME NEW p \in Commanders, CommandStart(p), OneMoves(p), UNCHANGED <<unmarked, owed>>,
             UNCHANGED transcriptVars
      PROVE  owes
  <2>1. p \in Procs
    BY WatchAssumption
  <2>2. /\ Idle(p) /\ cmd'[p].pc \in {"compare", "store", "delete", "confirm"}
        /\ UNCHANGED <<stored, notes, overlapping>>
    <3>1. p \in DOMAIN cmd
      BY <1>1, <2>1
    <3>2. ASSUME NEW m \in Names, NEW v \in Values, SetSecret(p, m, v)
          PROVE  Idle(p) /\ cmd'[p].pc \in {"compare", "store"} /\ UNCHANGED <<stored, notes, overlapping>>
      BY <3>1, <3>2 DEF SetSecret, MayStart, Becomes, NoCommand
    <3>3. ASSUME NEW m \in Names, RemoveSecret(p, m)
          PROVE  Idle(p) /\ cmd'[p].pc = "delete" /\ UNCHANGED <<stored, notes, overlapping>>
      BY <3>1, <3>3 DEF RemoveSecret, MayStart, Becomes, NoCommand
    <3>4. ASSUME NEW m \in Names, RecordExposure(p, m)
          PROVE  Idle(p) /\ cmd'[p].pc = "confirm" /\ UNCHANGED <<stored, notes, overlapping>>
      BY <3>1, <3>4 DEF RecordExposure, MayStart, Becomes, NoCommand
    <3> QED
      BY <1>3, <3>2, <3>3, <3>4 DEF CommandStart
  <2>3. ASSUME NEW q \in Procs
        PROVE  /\ Halfway(q)' => Halfway(q) /\ cmd'[q].name = cmd[q].name
               /\ cmd[q].op = "mark" => cmd'[q] = cmd[q]
    <3>1. CASE q = p
      BY <1>1, <2>2, <3>1 DEF Halfway, Idle, WellFormed
    <3>2. CASE q # p
      BY <1>3, <3>2 DEF OneMoves, Halfway
    <3> QED
      BY <3>1, <3>2
  <2>4. n \in owed /\ UNCHANGED <<stops, unmarked>>
    BY <1>3 DEF transcriptVars
  <2> QED
    BY <2>2, <2>3, <2>4, OwedAsBefore
<1>4. ASSUME NEW p \in Commanders, NobodyMoves, cmd'[p] = NoCommand,
             \A q \in Procs \ {p} : cmd'[q] = cmd[q], UNCHANGED <<unmarked, owed>>,
             UNCHANGED transcriptVars
      PROVE  owes
  <2>1. p \in Procs /\ cmd[p].op # "mark"
    BY <1>1, WatchAssumption DEF Allowed
  <2>2. ASSUME NEW q \in Procs
        PROVE  /\ Halfway(q)' => Halfway(q) /\ cmd'[q].name = cmd[q].name
               /\ cmd[q].op = "mark" => cmd'[q] = cmd[q]
    BY <1>4, <2>1 DEF Halfway, NoCommand
  <2>3. n \in owed /\ UNCHANGED <<stored, notes, overlapping, stops, unmarked>>
    BY <1>4 DEF transcriptVars, NobodyMoves
  <2> QED
    BY <2>2, <2>3, OwedAsBefore
<1>5. ASSUME NEW r \in Rewriters, NEW m \in Procs \ Commanders, OneMoves(m), Idle(m),
             cmd'[m] = Marking(Spans(rewrite[r].lines)), UNCHANGED <<stored, notes, stops>>,
             owed' = owed \union RedactedNames(r), unmarked' = unmarked \ RedactedNames(r)
      PROVE  owes
  <2> DEFINE spans == Spans(rewrite[r].lines)
  <2>1. /\ cmd'[m].op = "mark" /\ cmd'[m].pc = "load" /\ cmd'[m].spans = spans
        /\ cmd[m].op = "none"
    BY <1>1, <1>5 DEF Marking, NoCommand, Idle, WellFormed
  <2>2. ASSUME NEW q \in Procs
        PROVE  /\ Halfway(q)' => Halfway(q) /\ cmd'[q].name = cmd[q].name
               /\ cmd[q].op = "mark" => cmd'[q] = cmd[q]
    <3>1. CASE q = m
      BY <2>1, <3>1 DEF Halfway
    <3>2. CASE q # m
      BY <1>5, <3>2 DEF OneMoves, Halfway
    <3> QED
      BY <3>1, <3>2
  <2>3. UNCHANGED <<stored, notes, overlapping, stops>> /\ ~stops /\ overlapping = "none"
    BY <1>5 DEF OneMoves
  <2>4. CASE n \notin RedactedNames(r)
    BY <1>5, <2>2, <2>3, <2>4, OwedAsBefore
  <2>5. CASE n \in RedactedNames(r)
    <3>1. n \in Names /\ stored[n] \in spans
      BY <2>5 DEF RedactedNames
    <3>2. spans \in SUBSET Values
      <4>1. rewrite[r].lines \in Seq(SpokenLines)
        BY DEF Shaped, WatchTypeOK
      <4> QED
        BY <4>1, SpansAreValues
    <3> HIDE DEF spans
    <3>3. LoadPending(n)' /\ BeingMarked(n)'
      BY <2>1, <2>3, <3>1 DEF LoadPending, BeingMarked, ToMark, At
    <3> QED
      BY <2>3, <3>1, <3>2, <3>3, ExposureAssumption DEF IsMarked
  <2> QED
    BY <2>4, <2>5
<1>6. CASE UNCHANGED <<exposureVars, owed, stops>>
  <2>1. n \in owed /\ UNCHANGED <<stored, notes, overlapping, stops, cmd, unmarked>>
    BY <1>6 DEF exposureVars, histories
  <2>2. \A q \in Procs : /\ Halfway(q)' => Halfway(q) /\ cmd'[q].name = cmd[q].name
                         /\ cmd[q].op = "mark" => cmd'[q] = cmd[q]
    BY <2>1 DEF Halfway
  <2> QED
    BY <2>1, <2>2, OwedAsBefore
<1> HIDE DEF owes
<1> QED
  BY <1>2, <1>3, <1>4, <1>5, <1>6, WhoMoves DEF owes

(***************************************************************************)
(* A redacted secret that is stored is listed as exposed, or a process is  *)
(* still about to list it, or has reported that it did not, until its      *)
(* value changes: with any number of watchers and cleaners that find the   *)
(* same values, marking among the users' commands and wherever a store or  *)
(* a record cannot be read or written (markRedactedSecretsExposed), unless *)
(* a watcher may be stopped or commands overlap.                           *)
(***************************************************************************)
THEOREM RedactedStaysMarked == WatchSpec => []RedactedIsMarkedUndisturbed
<1>1. WatchInit => Owing
  BY DEF WatchInit, Owing
<1>2. Shaped /\ Serial /\ Owing /\ [WatchNext]_watchVars => Owing'
  BY OwingStep
<1>3. Owing => RedactedIsMarkedUndisturbed
  BY DEF Owing, IsMarked, RedactedIsMarkedUndisturbed, RedactedIsMarked
<1> QED
  BY <1>1, <1>2, <1>3, AlwaysShaped, AlwaysSerial, PTL DEF WatchSpec
=============================================================================
