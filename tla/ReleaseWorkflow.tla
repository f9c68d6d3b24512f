---------------------------- MODULE ReleaseWorkflow ----------------------------
(***************************************************************************)
(* The executions of batch.yaml over the release registry.  An execution   *)
(* draws a release id of its own and calls one job after another; each job *)
(* runs the transactions of ReleaseRegistry.  A call may fail before or    *)
(* after its transaction commits, and the workflow may give a call up      *)
(* while its job, or the script the job sent to BigQuery, still runs.      *)
(* Executions overlap: nothing keeps the scheduler, its retry of a start   *)
(* and an operator apart.                                                  *)
(*                                                                         *)
(*   step   the call each execution is at                                  *)
(*   turn   the source of the loop it is at                                *)
(*   todo   the mappings its batch run has still to record                 *)
(*   late   calls it gave up while their job goes on                       *)
(*                                                                         *)
(* History variable: crossed, the releases whose dbt build was at work     *)
(* together with another one.                                              *)
(***************************************************************************)
EXTENDS ReleaseRegistry, Sequences

CONSTANT Catalog    \* the sources of the workflow, in the order of its loop

ASSUME CatalogListed == Catalog \in Seq(Source) /\ Catalog # <<>>
                        /\ \A s \in Source : \E i \in DOMAIN Catalog : Catalog[i] = s

VARIABLES step, turn, todo, late, crossed

registry == vars
flow == <<step, turn, todo, late, crossed>>
workflowVars == <<vars, flow>>

\* Calls that run one transaction of the registry, and the loop's batch run, which
\* runs one for each Bronze object of the manifest.
SingleCall == {"begin", "complete", "build", "evaluate", "promote", "cleanup"}
Call == SingleCall \cup {"source"}

\* "failed" and "logged" are both a FAILED execution: the cleanup call returned, or
\* raised and was logged.
Ended == {"succeeded", "failed", "logged"}

WorkflowTypeOK ==
    /\ step \in [Release -> {"idle"} \cup Call \cup Ended]
    /\ turn \in [Release -> DOMAIN Catalog]
    /\ todo \in [Release -> SUBSET Mapping]
    /\ late \in [Release -> SUBSET Call]
    /\ crossed \in SUBSET Release

WorkflowInit ==
    /\ Init
    /\ step = [r \in Release |-> "idle"]
    /\ turn = [r \in Release |-> 1]
    /\ todo = [r \in Release |-> {}]
    /\ late = [r \in Release |-> {}]
    /\ crossed = {}

----------------------------------------------------------------------------
(* Control.                                                                *)

\* The step after a call that returned, but for the loop.
Successor == [begin |-> "source", complete |-> "build", build |-> "evaluate",
              evaluate |-> "promote", promote |-> "succeeded", cleanup |-> "failed"]

\* The loop calls the batch run of each source in turn.
Following(r) ==
    IF step[r] = "source"
    THEN IF turn[r] < Len(Catalog) THEN "source" ELSE "complete"
    ELSE Successor[step[r]]

\* Mutants: an error leaves the loop for the next step, or the cleanup is tried again
\* for ever.
RaisedLeavesLoop(r) ==
    CASE step[r] = "source" -> "complete"
      [] step[r] = "cleanup" -> "logged"
      [] OTHER -> "cleanup"

RaisedRetriesCleanup(r) == "cleanup"

\* The step after a call that raised: the cleanup, whose own error is only logged.
Raised(r) == IF step[r] = "cleanup" THEN "logged" ELSE "cleanup"

\* Mutant: the loop's index moves past its end.
ReturnsPastEnd(r) ==
    /\ step' = [step EXCEPT ![r] = Following(r)]
    /\ turn' = [turn EXCEPT ![r] = IF step[r] = "source" THEN @ + 1 ELSE @]

Returns(r) ==
    /\ step' = [step EXCEPT ![r] = Following(r)]
    /\ turn' = [turn EXCEPT ![r] = IF step[r] = "source" /\ @ < Len(Catalog) THEN @ + 1 ELSE @]

Raises(r) ==
    /\ step' = [step EXCEPT ![r] = Raised(r)]
    /\ UNCHANGED turn

\* An execution of the release action, with a year for which an id is drawn.
Start(r) ==
    /\ step[r] = "idle"
    /\ step' = [step EXCEPT ![r] = "begin"]
    /\ UNCHANGED <<registry, turn, todo, late, crossed>>

AtBuild == {r \in Release : step[r] = "build" \/ "build" \in late[r]}

\* Builds that are at work together share the relations their rules read: the labels
\* and the rows of a gate may then be those of any of them.
Builds(r) ==
    IF r \in crossed
    THEN MixRules \/ \E q \in crossed, judged \in MappingsOf(crossed) : Judge(q, judged)
    ELSE Judge(r, files[r])

\* The transaction of each single call.  An execution promotes its id once, so the
\* replay of a promotion is never taken.
Effect(call, r) ==
    \/ call = "begin" /\ Begin(r)
    \/ call = "complete" /\ Complete(r)
    \/ call = "build" /\ Builds(r)
    \/ call = "evaluate" /\ Evaluate(r)
    \/ call = "promote" /\ Promote(r)
    \/ call = "cleanup" /\ Fail(r)

\* The transaction commits; the answer comes back or is lost.
CallCommits(r) ==
    /\ step[r] \in SingleCall
    /\ Effect(step[r], r)
    /\ Returns(r) \/ Raises(r)
    /\ UNCHANGED <<todo, late>>
    /\ crossed' = crossed \cup {q \in AtBuild' : AtBuild' # {q}}

\* The call raises without an effect: an assert refused, the job never ran or died;
\* the loop's batch run may have recorded some of its objects by then.
CallFails(r) ==
    /\ step[r] \in Call
    /\ Raises(r)
    /\ todo' = [todo EXCEPT ![r] = IF step[r] = "source" THEN {} ELSE @]
    /\ UNCHANGED <<registry, late, crossed>>

\* The connector times out or stops polling and the job goes on.
GiveUp(r) ==
    /\ step[r] \in Call
    /\ Raises(r)
    /\ late' = [late EXCEPT ![r] = @ \cup {step[r]}]
    /\ UNCHANGED <<registry, todo, crossed>>

LateCommits(r, call) ==
    /\ call \in late[r] \cap SingleCall
    /\ Effect(call, r)
    /\ late' = [late EXCEPT ![r] = @ \ {call}]
    /\ UNCHANGED <<step, turn, todo, crossed>>

LateDies(r, call) ==
    /\ call \in late[r]
    /\ late' = [late EXCEPT ![r] = @ \ {call}]
    /\ todo' = [todo EXCEPT ![r] = IF call = "source" THEN {} ELSE @]
    /\ UNCHANGED <<registry, step, turn, crossed>>

----------------------------------------------------------------------------
(* The batch run of one source: execute_batch, then record().              *)

\* The Bronze objects a run wrote; its manifest lists all of them.
PartsOf(run) == {o \in Object : RunOf[o] = run}

\* execute_batch returns a completed manifest of the source, its run's or, when the
\* content is unchanged, the one of an earlier run.
ExecuteBatch(r) ==
    /\ step[r] = "source" \/ "source" \in late[r]
    /\ todo[r] = {}
    /\ \E o \in Object, stamp \in Stamp :
        /\ SourceOf[o] = Catalog[turn[r]]
        /\ todo' = [todo EXCEPT ![r] = PartsOf(RunOf[o]) \X {stamp}]
    /\ UNCHANGED <<registry, step, turn, late, crossed>>

\* record() takes one object; with the last one the call returns, unless the answer
\* is lost or nobody waits for it any more.
RecordPart(r) ==
    \E m \in todo[r] :
        /\ Record(r, m[1], m[2])
        /\ todo' = [todo EXCEPT ![r] = @ \ {m}]
        /\ UNCHANGED crossed
        /\ \/ /\ step[r] = "source"
              /\ IF todo[r] = {m} THEN Returns(r) \/ Raises(r) ELSE UNCHANGED <<step, turn>>
              /\ UNCHANGED late
           \/ /\ step[r] # "source"
              /\ late' = [late EXCEPT ![r] = IF todo[r] = {m} THEN @ \ {"source"} ELSE @]
              /\ UNCHANGED <<step, turn>>

----------------------------------------------------------------------------
(* The other callers.                                                      *)

\* The rollback action of the workflow is one call with no cleanup.
RollbackExecution(y) == Rollback(y) /\ UNCHANGED flow

\* The operator's script looks at rows older than any execution lasts.
OperatorCleanup(old) ==
    /\ \A r \in old : step[r] \in Ended /\ late[r] = {}
    /\ Cleanup(old)
    /\ UNCHANGED flow

CallEnds(r) == CallCommits(r) \/ CallFails(r) \/ GiveUp(r)

WorkflowNext ==
    \/ \E r \in Release :
        \/ Start(r)
        \/ CallEnds(r)
        \/ ExecuteBatch(r)
        \/ RecordPart(r)
        \/ \E call \in Call : LateCommits(r, call) \/ LateDies(r, call)
    \/ \E y \in Year : RollbackExecution(y)
    \/ \E old \in SUBSET Release : OperatorCleanup(old)

WorkflowSpec == WorkflowInit /\ [][WorkflowNext]_workflowVars

\* Every call returns or raises: the connector waits 3900 seconds at most, and a job
\* is stopped after 3600.
FairWorkflow == WorkflowSpec /\ \A r \in Release : WF_workflowVars(CallEnds(r))

----------------------------------------------------------------------------
(* Properties.                                                             *)

\* The mappings hold every part of the manifests they mention.
Whole(mappings) == \A m \in mappings : PartsOf(RunOf[m[1]]) \X {m[2]} \subseteq mappings

\* A release is published with every part of every manifest it selects.  The
\* registry counts sources and runs, not parts, and record() commits them one by
\* one; it is the workflow that never completes a release after a record call that
\* stopped half-way.
WholeManifests ==
    \A r \in Published : Whole(files[r])

\* What an execution reports is so and stays so, whatever its abandoned jobs still
\* do: after a success the release is published, and once the cleanup call has
\* returned the release never runs, completes or is published again.
OutcomeStands ==
    \A r \in Release :
        /\ step[r] = "succeeded" => r \in Published
        /\ step[r] = "failed" => status[r] \in {"failed", "absent"}

\* A release whose build no other build overlapped was published on a gate that
\* judged the files it publishes, whatever was given up, rewritten or built between
\* the build, the evaluation and the promotion (batch.yaml runs them one after
\* another on one release_id).
LoneGateJudgesItsFiles ==
    \A r \in Published \ crossed : results[r].judged = files[r]

\* Every execution ends, published or failed, whatever its calls do.
EveryExecutionEnds ==
    \A r \in Release : step[r] # "idle" ~> step[r] \in Ended

----------------------------------------------------------------------------
(* The inductive invariant.  An execution first collects the files of its  *)
(* release, itself or through a job it gave up, and then completes it; it  *)
(* never does both.                                                        *)

Collecting(r) ==
    step[r] \in {"idle", "begin", "source"} \/ late[r] \cap {"begin", "source"} # {}

AfterCollecting == {"complete", "build", "evaluate", "promote"}

Completing(r) ==
    \/ step[r] \in AfterCollecting \cup {"succeeded"}
    \/ late[r] \cap AfterCollecting # {}
    \/ status[r] \in {"succeeded", "active", "inactive"}

\* The gate judged the files of the release, unless its build was not alone or a
\* cleanup removed its row.
Judged(r, gate) ==
    ~Collecting(r) /\ (r \in crossed \/ status[r] = "absent" \/ gate.judged = files[r])

ReleaseInv(r) ==
    /\ late[r] # {} => step[r] \in {"cleanup", "failed", "logged"}
    /\ step[r] \in {"idle", "begin"} => status[r] = "absent" /\ files[r] = {}
    /\ "begin" \in late[r] => status[r] = "absent" /\ "source" \notin late[r]
    /\ step[r] # "source" /\ "source" \notin late[r] => todo[r] = {}
    /\ ~(Collecting(r) /\ Completing(r))
    /\ step[r] = "source" => Whole(files[r] \cup todo[r])
    /\ Completing(r) => Whole(files[r])
    /\ r \in crossed => ~Collecting(r)
    /\ metrics.release = r => Judged(r, metrics)
    /\ results[r] # NoGate => Judged(r, results[r])
    /\ step[r] = "succeeded" => r \in Published
    /\ step[r] = "failed" => status[r] \in {"failed", "absent"} /\ "begin" \notin late[r]

WorkflowInv == WorkflowTypeOK /\ \A r \in Release : ReleaseInv(r)
==============================================================================
