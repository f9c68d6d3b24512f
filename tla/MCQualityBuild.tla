---------------------------- MODULE MCQualityBuild ----------------------------
(* TLC instances of QualityBuild: two executions. *)
EXTENDS QualityBuild, TLC

CONSTANTS a, b

Alike == Permutations(Release)
==============================================================================
