---------------------------- MODULE MCLocalReleases ----------------------------
(* TLC instance of LocalReleases: one release, two sources, the first with  *)
(* an object of each of two runs.                                           *)
EXTENDS LocalReleases, TLC

CONSTANTS a1, s1, s2, o1, o2, o3

OneYear == [r \in Release |-> 1]

TwoSources == o1 :> s1 @@ o2 :> s1 @@ o3 :> s2

TwoRuns == o1 :> 1 @@ o2 :> 2 @@ o3 :> 3
==============================================================================
