-------------------------- MODULE ReleaseRefinement --------------------------
(***************************************************************************)
(* ReleaseRegistry implements ReleaseHistory.  The history is the chain of *)
(* the active release from its oldest ancestor up; the retired releases    *)
(* are the published ones outside that chain.  Everything before a         *)
(* promotion (begin, record, complete, fail, build, evaluate) and the      *)
(* cleanup are stuttering steps.                                           *)
(***************************************************************************)
EXTENDS ReleaseRegistry

\* The release with i - 1 ancestors.
ChainInOrder ==
    [i \in 1 .. Cardinality(Chain(active)) |->
        CHOOSE r \in Chain(active) : Cardinality(Chain(r)) = i]

History == INSTANCE ReleaseHistory WITH
    history <- ChainInOrder,
    retired <- Published \ Chain(active)

\* Readers see a history that only grows by new releases of the same or a later
\* year and shrinks by a rollback to the last release of a year: the registry, its
\* pointer and the baselines together implement ReleaseHistory.
ImplementsHistory == History!Spec
==============================================================================
