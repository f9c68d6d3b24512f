--------------------------- MODULE MCReleaseRegistry ---------------------------
(* TLC instance of ReleaseRegistry: one release, one source with an object  *)
(* of each of two runs.                                                     *)
EXTENDS ReleaseRegistry, TLC

CONSTANTS a1, s1, o1, o2

OneYear == [r \in Release |-> 1]

TwoObjects == o1 :> s1 @@ o2 :> s1

TwoRuns == o1 :> 1 @@ o2 :> 2
==============================================================================
