------------------------- MODULE MCTranscriptWatch -------------------------
(***************************************************************************)
(* Values for checking TranscriptWatch.                                    *)
(***************************************************************************)
EXTENDS TranscriptWatch, TLC

CONSTANTS w1, c1, m1, m2, m3, u1, n1, n2, v1, v2

SecretOrNone == {v1, Absent}
OneWatcher == (w1 :> {m1, m2}) @@ (c1 :> {m3})
=============================================================================
