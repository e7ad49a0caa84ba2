----------------------------- MODULE MCAuditLog -----------------------------
(***************************************************************************)
(* Values for checking AuditLog: fewer records when calls overlap, for     *)
(* the interleavings are many more.                                        *)
(***************************************************************************)
EXTENDS AuditLog, TLC

CONSTANTS g1, g2

MCMaxRecords == [o \in BOOLEAN |-> IF o THEN 4 ELSE 6]

Symmetric == Permutations(Loggers)
=============================================================================
