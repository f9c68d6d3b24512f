-------------------------- MODULE MCReleaseRefinement --------------------------
(* TLC instance of ReleaseRefinement. *)
EXTENDS ReleaseRefinement, TLC

CONSTANTS a1, a2, b1, s1, o1

LineageYear == [r \in Release |-> IF r = b1 THEN 2 ELSE 1]

OneSource == o1 :> s1

SameYear == Permutations({a1, a2})
==============================================================================
