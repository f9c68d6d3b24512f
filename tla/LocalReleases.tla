----------------------------- MODULE LocalReleases -----------------------------
(***************************************************************************)
(* The in-memory release store that stands for the registry in local QA    *)
(* and in the tests, run beside it: both get the same calls, of manifests  *)
(* of one object.  It has no pointer and no gate, so it says nothing of    *)
(* published releases; its baseline is always the bootstrap row.           *)
(***************************************************************************)
EXTENDS ReleaseRegistry

VARIABLE local  \* the snapshot of each release in the in-memory store

localVars == <<vars, local>>

Snapshot(s, f) == [status |-> s, files |-> f]

NotBegun == Snapshot("absent", {})

\* ReleaseConflictError, or IncompleteReleaseError: the call raises.
Conflict == Snapshot("conflict", {})

LocalBegin(current) ==
    IF current.status \in {"absent", "failed"} THEN Snapshot("running", {}) ELSE current

\* A mapping of the same object with another stamp conflicts; a release that is not
\* running takes no mapping it does not have.
LocalRecord(current, mapping) ==
    IF \/ current.status \in {"absent", "failed"}
       \/ \E m \in current.files : m[1] = mapping[1] /\ m # mapping
       \/ current.status # "running" /\ mapping \notin current.files
    THEN Conflict
    ELSE [current EXCEPT !.files = @ \cup {mapping}]

\* Mutant: the sources are counted, not their runs.
LocalCompleteAnyRun(current) ==
    IF current.status \in {"absent", "failed"} \/ SourcesOf(current.files) # Source
    THEN Conflict
    ELSE [current EXCEPT !.status = "succeeded"]

LocalComplete(current) ==
    IF \/ current.status \in {"absent", "failed"}
       \/ SourcesOf(current.files) # Source
       \/ ~OneRunPerSource(current.files)
    THEN Conflict
    ELSE [current EXCEPT !.status = "succeeded"]

LocalFail(current) ==
    IF current.status = "absent" THEN Conflict ELSE [current EXCEPT !.status = "failed"]

\* A release the operator's cleanup removed is not compared any more: the local store
\* has no cleanup.
Removed == Snapshot("removed", {})

\* The store after a call that gave answer, a conflict changing nothing.
Keeps(r, answer) ==
    local' = [local EXCEPT ![r] = IF Conflict = answer \/ @ = Removed THEN @ ELSE answer]

\* The calls both stores get; the registry's refusal is an assert that fails.
Call(r) ==
    \/ Begin(r) /\ Keeps(r, LocalBegin(local[r]))
    \/ \E object \in Object, stamp \in Stamp :
        /\ Record(r, object, stamp) \/ (~Recordable(r, object, stamp) /\ UNCHANGED vars)
        /\ Keeps(r, LocalRecord(local[r], <<object, stamp>>))
    \/ /\ Complete(r) \/ (~Completable(r) /\ UNCHANGED vars)
       /\ Keeps(r, LocalComplete(local[r]))
    \/ /\ Fail(r) \/ (~Failable(r) /\ UNCHANGED vars)
       /\ Keeps(r, LocalFail(local[r]))

\* The steps the local store knows nothing of.
Elsewhere ==
    \/ \E r \in Release : BuildMetrics(r) \/ Evaluate(r) \/ Promote(r)
    \/ \E y \in Year : Rollback(y)

LocalCleanup(old) ==
    /\ Cleanup(old)
    /\ local' = [r \in Release |-> IF r \in old THEN Removed ELSE local[r]]

LocalInit == Init /\ local = [r \in Release |-> NotBegun]

LocalNext ==
    \/ \E r \in Release : Call(r)
    \/ Elsewhere /\ UNCHANGED local
    \/ \E old \in SUBSET Release : LocalCleanup(old)

LocalSpec == LocalInit /\ [][LocalNext]_localVars

----------------------------------------------------------------------------
(* Properties.                                                             *)

\* Until a release is published, the store of the tests accepts, refuses and keeps
\* what the registry does, so a test of it is a test of the registry (its begin:
\* "Open a new candidate or replay the same release identity").
LocalStoreAgrees ==
    \A r \in Release \ Published :
        local[r] \in {Removed, Snapshot(status[r], files[r])}
==============================================================================
