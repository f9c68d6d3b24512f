---------------------------- MODULE MCRollbackChain ----------------------------
(* TLC instance of RollbackChain: every registry over four releases of two years. *)
EXTENDS RollbackChain, TLC

CONSTANTS a1, a2, b1, b2, s1, o1

LineageYear == [r \in Release |-> IF r \in {a1, a2} THEN 1 ELSE 2]

OneSource == o1 :> s1
==============================================================================
