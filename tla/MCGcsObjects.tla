---------------------------- MODULE MCGcsObjects -----------------------------
(* TLC instance of GcsObjects. *)
EXTENDS GcsObjects

CONSTANTS p1, p2, c1, c2, w1

\* The third generation holds the bytes of the first again.
Contents == <<p1, p2, p1>>

\* The writer, too, has the bytes of the first.
Writes == [w \in {w1} |-> p1]
==============================================================================
