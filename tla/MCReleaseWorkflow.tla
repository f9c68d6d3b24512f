--------------------------- MODULE MCReleaseWorkflow ---------------------------
(* TLC instance of ReleaseWorkflow: executions of two years, two sources. *)
EXTENDS ReleaseWorkflow, TLC

CONSTANTS a1, b1, s1, s2, o1, o2, o3, o4

TwoYears == a1 :> 1 @@ b1 :> 2

\* The first source was exported by two runs, one in two parts.
Sources == o1 :> s1 @@ o2 :> s1 @@ o3 :> s1 @@ o4 :> s2

Runs == o1 :> 1 @@ o2 :> 1 @@ o3 :> 2 @@ o4 :> 3

Loop == <<s2, s1>>
==============================================================================
