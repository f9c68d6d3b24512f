------------------------- MODULE ReleaseWorkflowProofs -------------------------
(***************************************************************************)
(* Theorems about the executions of batch.yaml, for any sets of releases,  *)
(* sources, objects and runs: they take only steps of the registry, so     *)
(* every theorem about the registry holds of them, and what an execution   *)
(* reports is so.                                                          *)
(***************************************************************************)
EXTENDS ReleaseWorkflow, ReleaseRegistryProofs

----------------------------------------------------------------------------
(* The state of the executions keeps its types.                            *)

LEMMA CatalogDomain ==
    /\ DOMAIN Catalog = 1 .. Len(Catalog)
    /\ Len(Catalog) \in Nat \ {0}
    BY CatalogListed

LEMMA AnswerType ==
    ASSUME WorkflowTypeOK, NEW r \in Release, step[r] \in Call, Returns(r) \/ Raises(r)
    PROVE  /\ step' \in [Release -> {"idle"} \cup Call \cup Ended]
           /\ turn' \in [Release -> DOMAIN Catalog]
<1>1. Following(r) \in Call \cup Ended
    BY DEF Following, Successor, Call, SingleCall, Ended
<1>2. Raised(r) \in Call \cup Ended
    BY DEF Raised, Call, SingleCall, Ended
<1>3. step[r] = "source" /\ turn[r] < Len(Catalog) => turn[r] + 1 \in DOMAIN Catalog
    BY CatalogDomain DEF WorkflowTypeOK
<1> QED
    BY <1>1, <1>2, <1>3 DEF WorkflowTypeOK, Returns, Raises

LEMMA CrossedType ==
    ASSUME WorkflowTypeOK, NEW r \in Release, CallCommits(r)
    PROVE  crossed' \in SUBSET Release
    BY DEF CallCommits, AtBuild, WorkflowTypeOK

LEMMA WorkflowTypeInit == WorkflowInit => WorkflowTypeOK
    BY CatalogDomain DEF WorkflowInit, WorkflowTypeOK

LEMMA WorkflowTypeNext == WorkflowTypeOK /\ [WorkflowNext]_workflowVars => WorkflowTypeOK'
<1> SUFFICES ASSUME WorkflowTypeOK, [WorkflowNext]_workflowVars PROVE WorkflowTypeOK'
    OBVIOUS
<1>1. ASSUME NEW r \in Release, Start(r) PROVE WorkflowTypeOK'
    BY <1>1 DEF Start, WorkflowTypeOK, Call, SingleCall
<1>2. ASSUME NEW r \in Release, CallCommits(r) PROVE WorkflowTypeOK'
    BY <1>2, AnswerType, CrossedType DEF CallCommits, WorkflowTypeOK, Call
<1>3. ASSUME NEW r \in Release, CallFails(r) PROVE WorkflowTypeOK'
    BY <1>3, AnswerType DEF CallFails, WorkflowTypeOK
<1>4. ASSUME NEW r \in Release, GiveUp(r) PROVE WorkflowTypeOK'
    BY <1>4, AnswerType DEF GiveUp, WorkflowTypeOK
<1>5. ASSUME NEW r \in Release, ExecuteBatch(r) PROVE WorkflowTypeOK'
    BY <1>5 DEF ExecuteBatch, WorkflowTypeOK, PartsOf, Mapping
<1>6. ASSUME NEW r \in Release, RecordPart(r) PROVE WorkflowTypeOK'
  <2>1. step[r] = "source" => step[r] \in Call
    BY DEF Call
  <2> QED
    BY <1>6, <2>1, AnswerType DEF RecordPart, WorkflowTypeOK
<1>7. ASSUME NEW r \in Release, NEW call \in Call, LateCommits(r, call) \/ LateDies(r, call)
      PROVE  WorkflowTypeOK'
  <2>1. CASE LateCommits(r, call)
    BY <2>1 DEF LateCommits, WorkflowTypeOK
  <2>2. CASE LateDies(r, call)
    BY <2>2 DEF LateDies, WorkflowTypeOK
  <2> QED
    BY <1>7, <2>1, <2>2
<1>8. ASSUME NEW y \in Year, RollbackExecution(y) PROVE WorkflowTypeOK'
    BY <1>8 DEF RollbackExecution, WorkflowTypeOK, flow
<1>9. ASSUME NEW old \in SUBSET Release, OperatorCleanup(old) PROVE WorkflowTypeOK'
    BY <1>9 DEF OperatorCleanup, WorkflowTypeOK, flow
<1>10. CASE UNCHANGED workflowVars
    BY <1>10 DEF workflowVars, flow, WorkflowTypeOK
<1> QED
    BY <1>1, <1>2, <1>3, <1>4, <1>5, <1>6, <1>7, <1>8, <1>9, <1>10 DEF WorkflowNext, CallEnds

\* Every execution is at one of its calls or has ended, and its loop stays within the
\* catalog.
THEOREM WorkflowTypeCorrect == WorkflowSpec => []WorkflowTypeOK
    BY WorkflowTypeInit, WorkflowTypeNext, PTL DEF WorkflowSpec

----------------------------------------------------------------------------
(* The workflow takes only steps of the registry.                          *)

LEMMA BuildsIsStep ==
    ASSUME WorkflowTypeOK, NEW r \in Release, Builds(r)
    PROVE  \E q \in Release : BuildMetrics(q)
<1>1. MappingsOf(crossed) \subseteq MappingsOf(Release)
    BY DEF MappingsOf, WorkflowTypeOK
<1>2. files[r] = UNION {files[q] : q \in {r}}
    OBVIOUS
<1>3. files[r] \in MappingsOf(Release)
    BY <1>2 DEF MappingsOf
<1> QED
    BY <1>1, <1>3 DEF Builds, BuildMetrics, WorkflowTypeOK

LEMMA EffectIsStep ==
    ASSUME WorkflowTypeOK, NEW call, NEW r \in Release, Effect(call, r)
    PROVE  Next
    BY BuildsIsStep DEF Effect, Next

LEMMA WorkflowStep == WorkflowTypeOK /\ [WorkflowNext]_workflowVars => [Next]_vars
<1> SUFFICES ASSUME WorkflowTypeOK, [WorkflowNext]_workflowVars PROVE [Next]_vars
    OBVIOUS
<1>1. ASSUME NEW r \in Release, CallEnds(r) PROVE [Next]_vars
    BY <1>1, EffectIsStep DEF CallEnds, CallCommits, CallFails, GiveUp, registry
<1>2. ASSUME NEW r \in Release, RecordPart(r) PROVE [Next]_vars
    BY <1>2 DEF RecordPart, WorkflowTypeOK, Mapping, Next
<1>3. ASSUME NEW r \in Release, NEW call \in Call, LateCommits(r, call) \/ LateDies(r, call)
      PROVE  [Next]_vars
    BY <1>3, EffectIsStep DEF LateCommits, LateDies, registry
<1>4. ASSUME NEW y \in Year, RollbackExecution(y) PROVE [Next]_vars
    BY <1>4 DEF RollbackExecution, Next
<1>5. ASSUME NEW old \in SUBSET Release, OperatorCleanup(old) PROVE [Next]_vars
    BY <1>5 DEF OperatorCleanup, Next
<1> QED
    BY <1>1, <1>2, <1>3, <1>4, <1>5
    DEF WorkflowNext, Start, ExecuteBatch, registry, workflowVars

\* An execution, with every call that fails, is lost or runs late, is a behaviour of the
\* registry, so what is proved of the registry holds under the workflow.
THEOREM WorkflowUsesRegistry == WorkflowSpec => Spec
<1>1. WorkflowInit => Init
    BY DEF WorkflowInit
<1> QED
    BY <1>1, WorkflowTypeCorrect, WorkflowStep, PTL DEF WorkflowSpec, Spec

----------------------------------------------------------------------------
(* The inductive invariant.  What a step of one execution, a rollback or a *)
(* cleanup may do to the release of another.                               *)

Same(r) ==
    /\ files'[r] = files[r]
    /\ results'[r] = results[r]
    /\ metrics' = metrics \/ metrics'.release # r \/ r \in crossed
    /\ status'[r] = status[r] \/ {status[r], status'[r]} \subseteq {"active", "inactive"}

Still(r) == step'[r] = step[r] /\ late'[r] = late[r] /\ todo'[r] = todo[r]

\* A release joins the crossed ones, for good, when it is at its build.
Crosses(r) ==
    /\ r \in crossed => r \in crossed'
    /\ r \in crossed' => r \in crossed \/ step'[r] = "build" \/ "build" \in late'[r]

LEMMA CrossedGrows ==
    ASSUME [WorkflowNext]_workflowVars, NEW r \in Release
    PROVE  Crosses(r)
<1>1. CASE crossed' = crossed
    BY <1>1 DEF Crosses
<1>2. ASSUME NEW q \in Release, CallCommits(q) PROVE Crosses(r)
    BY <1>2 DEF CallCommits, AtBuild, Crosses
<1> QED
    BY <1>1, <1>2
    DEF WorkflowNext, CallEnds, Start, CallFails, GiveUp, ExecuteBatch, RecordPart, LateCommits,
        LateDies, RollbackExecution, OperatorCleanup, workflowVars, flow

LEMMA EffectOnOthers ==
    ASSUME TypeOK, NEW q \in Release, NEW call, Effect(call, q), NEW r \in Release \ {q}
    PROVE  Same(r)
<1> USE IdentityAssumption DEF TypeOK, Same, Node
<1>1. CASE Begin(q)
    BY <1>1 DEF Begin, qualityVars
<1>2. CASE Complete(q)
    BY <1>2 DEF Complete, qualityVars
<1>3. CASE Builds(q)
  <2>1. metrics'.release # r \/ r \in crossed
    BY <1>3 DEF Builds, Judge, MixRules, NoMetrics
  <2> QED
    BY <1>3, <2>1 DEF Builds, Judge, MixRules, registryVars
<1>4. CASE Evaluate(q)
    BY <1>4 DEF Evaluate, registryVars
<1>5. CASE Promote(q)
    BY <1>5 DEF Promote, PointerResolves, qualityVars
<1>6. CASE Fail(q)
    BY <1>6 DEF Fail, qualityVars
<1> QED
    BY <1>1, <1>2, <1>3, <1>4, <1>5, <1>6 DEF Effect

LEMMA RollbackOnAll ==
    ASSUME PointerInv, NEW y \in Year, Rollback(y), NEW r \in Release
    PROVE  Same(r)
<1>1. active \in Release /\ RollbackChecks
    BY DEF Rollback
<1>2. PICK target \in NearestOf(baseline, active, y) :
        status' = [status EXCEPT ![active] = "inactive", ![target] = "active"]
    BY DEF Rollback
<1>3. target \in Chain(active)
    BY <1>2 DEF NearestOf, OfYear, Chain
<1>4. status[active] = "active"
    BY <1>1 DEF RollbackChecks
<1>5. status[target] \in {"active", "inactive"}
    BY <1>1, <1>3, <1>4 DEF RollbackChecks
<1> QED
    BY <1>2, <1>4, <1>5, IdentityAssumption DEF Rollback, Same, PointerInv, TypeOK, Node, qualityVars

LEMMA SameKeeps ==
    ASSUME NEW r \in Release, ReleaseInv(r), Same(r), Still(r), Crosses(r)
    PROVE  ReleaseInv(r)'
<1>1. Collecting(r)' <=> Collecting(r)
    BY DEF Still, Collecting
<1>2. Completing(r)' <=> Completing(r)
    BY DEF Same, Still, Completing
<1>3. r \in crossed' => ~Collecting(r)
    BY DEF ReleaseInv, Crosses, Still, Completing, AfterCollecting
<1>4. metrics'.release = r => Judged(r, metrics)'
    BY <1>1, <1>3 DEF ReleaseInv, Crosses, Same, Judged
<1>5. results'[r] # NoGate => ~Collecting(r) /\ (r \in crossed' \/ status'[r] = "absent"
                                                \/ results'[r].judged = files'[r])
    BY DEF ReleaseInv, Crosses, Same, Judged
<1> QED
    BY <1>1, <1>2, <1>3, <1>4, <1>5 DEF ReleaseInv, Same, Still, Judged, Whole, PartsOf, Published
\* Where a call that returned or raised leaves its execution.
LEMMA AnswerSteps ==
    ASSUME WorkflowTypeOK, NEW r \in Release, step[r] \in Call, Returns(r) \/ Raises(r)
    PROVE  /\ step'[r] \in {Following(r), Raised(r)}
           /\ Raised(r) \in {"cleanup", "logged"}
           /\ step[r] = "begin" => Following(r) = "source"
           /\ step[r] = "source" => Following(r) \in {"source", "complete"}
           /\ step[r] \in AfterCollecting => Following(r) \in AfterCollecting \cup {"succeeded"}
           /\ Following(r) = "succeeded" => step[r] = "promote"
           /\ Following(r) = "failed" <=> step[r] = "cleanup"
    BY DEF WorkflowTypeOK, Returns, Raises, Following, Successor, Raised, AfterCollecting,
           Call, SingleCall

LEMMA CommitKeeps ==
    ASSUME TypeOK, WorkflowTypeOK, NEW r \in Release, ReleaseInv(r), Crosses(r), CallCommits(r)
    PROVE  ReleaseInv(r)'
<1> USE DEF ReleaseInv, Crosses, Collecting, Completing, AfterCollecting
<1>1. /\ step[r] \in Call /\ (Returns(r) \/ Raises(r))
      /\ late'[r] = late[r] /\ todo'[r] = todo[r]
    BY DEF CallCommits, Call
<1>2. ASSUME step[r] = "begin", Begin(r) PROVE ReleaseInv(r)'
  <2>1. /\ status'[r] = "running" /\ files'[r] = {} /\ metrics' = metrics /\ results' = results
        /\ todo[r] = {}
    BY <1>2, IdentityAssumption DEF Begin, Open, TypeOK, Node, qualityVars
  <2> QED
    BY <1>1, <1>2, <2>1, AnswerSteps DEF Whole, Judged
<1>3. ASSUME step[r] = "complete", Complete(r) PROVE ReleaseInv(r)'
  <2>1. /\ files'[r] = files[r] /\ metrics' = metrics /\ results' = results
        /\ status[r] # "absent" /\ status'[r] # "absent"
    BY <1>3 DEF Complete, Completable, Open, TypeOK, Node, qualityVars
  <2> QED
    BY <1>1, <1>3, <2>1, AnswerSteps DEF Whole, PartsOf, Judged
<1>4. ASSUME step[r] = "build", Builds(r) PROVE ReleaseInv(r)'
  <2>1. /\ files'[r] = files[r] /\ results' = results /\ status'[r] = status[r]
        /\ r \notin crossed => metrics'.judged = files[r]
    BY <1>4 DEF Builds, Judge, MixRules, registryVars
  <2> QED
    BY <1>1, <1>4, <2>1, AnswerSteps DEF Whole, PartsOf, Judged
<1>5. ASSUME step[r] = "evaluate", Evaluate(r) PROVE ReleaseInv(r)'
  <2>1. /\ files'[r] = files[r] /\ metrics' = metrics /\ status'[r] = status[r]
        /\ results'[r].judged = metrics.judged /\ metrics.release = r /\ status[r] # "absent"
    BY <1>5 DEF Evaluate, registryVars, TypeOK
  <2> QED
    BY <1>1, <1>5, <2>1, AnswerSteps DEF Whole, PartsOf, Judged
<1>6. ASSUME step[r] = "promote", Promote(r) PROVE ReleaseInv(r)'
  <2>1. /\ files'[r] = files[r] /\ metrics' = metrics /\ results' = results
        /\ status'[r] = "active" /\ status[r] = "succeeded"
    BY <1>6, IdentityAssumption
    DEF Promote, Promotable, PointerResolves, qualityVars, TypeOK, Node
  <2> QED
    BY <1>1, <1>6, <2>1, AnswerSteps DEF Whole, PartsOf, Judged, Published
<1>7. ASSUME step[r] = "cleanup", Fail(r) PROVE ReleaseInv(r)'
  <2>1. /\ files'[r] = files[r] /\ metrics' = metrics /\ results' = results
        /\ status'[r] = "failed" /\ status[r] # "absent"
    BY <1>7, IdentityAssumption DEF Fail, Failable, qualityVars, TypeOK, Node
  <2> QED
    BY <1>1, <1>7, <2>1, AnswerSteps DEF Whole, PartsOf, Judged
<1> QED
    BY <1>2, <1>3, <1>4, <1>5, <1>6, <1>7 DEF CallCommits, Effect
\* The state of the registry that a release's invariant reads.
Unread(r) ==
    status'[r] = status[r] /\ files'[r] = files[r] /\ metrics' = metrics /\ results' = results

\* A call that raised or was given up leaves the execution at its cleanup or past it.
LEMMA RaiseKeeps ==
    ASSUME TypeOK, WorkflowTypeOK, NEW r \in Release, ReleaseInv(r), Crosses(r),
           CallFails(r) \/ GiveUp(r)
    PROVE  ReleaseInv(r)'
<1> USE DEF ReleaseInv, Crosses, Collecting, Completing, AfterCollecting, Judged, Whole, PartsOf
<1>1. Unread(r) /\ step[r] \in Call /\ Raises(r)
    BY DEF CallFails, GiveUp, registry, vars, Unread
<1>2. step'[r] \in {"cleanup", "logged"}
    BY <1>1 DEF Raises, Raised, WorkflowTypeOK
<1>3. CASE CallFails(r)
  <2>1. late'[r] = late[r] /\ todo'[r] = (IF step[r] = "source" THEN {} ELSE todo[r])
    BY <1>3 DEF CallFails, WorkflowTypeOK
  <2> QED
    BY <1>1, <1>2, <2>1 DEF Unread
<1>4. CASE GiveUp(r)
  <2>1. late'[r] = late[r] \cup {step[r]} /\ todo'[r] = todo[r]
    BY <1>4 DEF GiveUp, WorkflowTypeOK
  <2> QED
    BY <1>1, <1>2, <2>1 DEF Unread
<1> QED
    BY <1>3, <1>4

LEMMA ExecuteKeeps ==
    ASSUME TypeOK, WorkflowTypeOK, NEW r \in Release, ReleaseInv(r), Crosses(r), ExecuteBatch(r)
    PROVE  ReleaseInv(r)'
<1> USE DEF ReleaseInv, Crosses, Collecting, Completing, AfterCollecting, Judged, PartsOf
<1>1. Unread(r) /\ step'[r] = step[r] /\ late'[r] = late[r]
    BY DEF ExecuteBatch, registry, vars, Unread
<1>2. PICK o \in Object, stamp \in Stamp : todo'[r] = PartsOf(RunOf[o]) \X {stamp}
    BY DEF ExecuteBatch, WorkflowTypeOK
<1>3. todo[r] = {} /\ (step[r] = "source" \/ "source" \in late[r])
    BY DEF ExecuteBatch
<1>4. Whole(todo'[r])
    BY <1>2 DEF Whole
<1>5. Whole(files[r]) => Whole(files[r] \cup todo'[r])
    BY <1>4 DEF Whole
<1> QED
    BY <1>1, <1>3, <1>5 DEF Unread, Whole

LEMMA RecordKeeps ==
    ASSUME TypeOK, WorkflowTypeOK, NEW r \in Release, ReleaseInv(r), Crosses(r), RecordPart(r)
    PROVE  ReleaseInv(r)'
<1> USE DEF ReleaseInv, Crosses, Collecting, Completing, AfterCollecting, Judged
<1>1. PICK m \in todo[r] :
        /\ Record(r, m[1], m[2])
        /\ todo' = [todo EXCEPT ![r] = @ \ {m}]
        /\ \/ /\ step[r] = "source"
              /\ IF todo[r] = {m} THEN Returns(r) \/ Raises(r) ELSE UNCHANGED <<step, turn>>
              /\ UNCHANGED late
           \/ /\ step[r] # "source"
              /\ late' = [late EXCEPT ![r] = IF todo[r] = {m} THEN @ \ {"source"} ELSE @]
              /\ UNCHANGED <<step, turn>>
    BY DEF RecordPart
<1>2. m = <<m[1], m[2]>>
    BY DEF WorkflowTypeOK, Mapping
<1>3. /\ status' = status /\ metrics' = metrics /\ results' = results
      /\ status[r] # "absent"
      /\ files'[r] = files[r] \cup {m} /\ todo'[r] = todo[r] \ {m}
    BY <1>1, <1>2 DEF Record, Recordable, Open, registryVars, qualityVars, TypeOK, WorkflowTypeOK
<1>4. files'[r] \cup todo'[r] = files[r] \cup todo[r]
    BY <1>3
<1>5. Collecting(r) /\ ~Completing(r) /\ metrics.release # r /\ results[r] = NoGate
    BY <1>1
<1>6. CASE step[r] = "source"
  <2>1. late'[r] = late[r] /\ Whole(files[r] \cup todo[r])
    BY <1>1, <1>6
  <2>2. CASE todo[r] = {m}
    <3>1. step'[r] \in {"source", "complete", "cleanup", "logged"}
      BY <1>1, <1>6, <2>2, AnswerSteps DEF Call
    <3>2. todo'[r] = {}
      BY <1>3, <2>2
    <3>3. Whole(files'[r])
      BY <1>4, <2>1, <3>2
    <3> QED
      BY <1>3, <1>5, <1>6, <2>1, <3>1, <3>2, <3>3 DEF Whole, PartsOf
  <2>3. CASE todo[r] # {m}
    BY <1>1, <1>3, <1>4, <1>5, <1>6, <2>1, <2>3 DEF Whole, PartsOf
  <2> QED
    BY <2>2, <2>3
<1>7. CASE step[r] # "source"
  <2>1. step'[r] = step[r] /\ "source" \in late[r]
    BY <1>1, <1>7
  <2>2. late'[r] = IF todo[r] = {m} THEN late[r] \ {"source"} ELSE late[r]
    BY <1>1, <1>7 DEF WorkflowTypeOK
  <2>3. todo[r] = {m} => todo'[r] = {}
    BY <1>3
  <2> QED
    BY <1>3, <1>5, <1>7, <2>1, <2>2, <2>3
<1> QED
    BY <1>6, <1>7
\* A job the workflow gave up: its transaction commits when the execution is at its
\* cleanup or has ended.
LEMMA LateKeeps ==
    ASSUME TypeOK, WorkflowTypeOK, NEW r \in Release, ReleaseInv(r), Crosses(r),
           NEW call \in Call, LateCommits(r, call)
    PROVE  ReleaseInv(r)'
<1> USE DEF ReleaseInv, Crosses, Collecting, Completing, AfterCollecting, Judged
<1>1. /\ call \in late[r] /\ Effect(call, r)
      /\ late'[r] = late[r] \ {call} /\ step'[r] = step[r] /\ todo'[r] = todo[r]
      /\ step[r] \in {"cleanup", "failed", "logged"}
    BY DEF LateCommits, WorkflowTypeOK
<1>2. ASSUME call = "begin", Begin(r) PROVE ReleaseInv(r)'
  <2>1. /\ status[r] = "absent" /\ status'[r] = "running"
        /\ metrics' = metrics /\ results' = results
    BY <1>1, <1>2, IdentityAssumption DEF Begin, Open, TypeOK, Node, qualityVars
  <2> QED
    BY <1>1, <1>2, <2>1
<1>3. ASSUME call = "complete", Complete(r) PROVE ReleaseInv(r)'
  <2>1. /\ files'[r] = files[r] /\ metrics' = metrics /\ results' = results
        /\ Open(r) /\ status'[r] \in {"succeeded", status[r]}
    BY <1>3 DEF Complete, Completable, TypeOK, Node, qualityVars
  <2> QED
    BY <1>1, <1>3, <2>1 DEF Whole, PartsOf, Open
<1>4. ASSUME call = "build", Builds(r) PROVE ReleaseInv(r)'
  <2>1. /\ files'[r] = files[r] /\ results' = results /\ status'[r] = status[r]
        /\ r \notin crossed => metrics'.judged = files[r]
    BY <1>4 DEF Builds, Judge, MixRules, registryVars
  <2> QED
    BY <1>1, <1>4, <2>1 DEF Whole, PartsOf
<1>5. ASSUME call = "evaluate", Evaluate(r) PROVE ReleaseInv(r)'
  <2>1. /\ files'[r] = files[r] /\ metrics' = metrics /\ status'[r] = status[r]
        /\ results'[r].judged = metrics.judged /\ metrics.release = r
        /\ status[r] = "succeeded"
    BY <1>5 DEF Evaluate, registryVars, TypeOK
  <2> QED
    BY <1>1, <1>5, <2>1 DEF Whole, PartsOf
<1>6. ASSUME call = "promote", Promote(r) PROVE ReleaseInv(r)'
  <2>1. /\ files'[r] = files[r] /\ metrics' = metrics /\ results' = results
        /\ status'[r] = "active" /\ status[r] = "succeeded"
    BY <1>6, IdentityAssumption
    DEF Promote, Promotable, PointerResolves, qualityVars, TypeOK, Node
  <2> QED
    BY <1>1, <1>6, <2>1 DEF Whole, PartsOf
<1>7. ASSUME call = "cleanup", Fail(r) PROVE ReleaseInv(r)'
  <2>1. /\ files'[r] = files[r] /\ metrics' = metrics /\ results' = results
        /\ status'[r] = "failed" /\ status[r] # "absent"
    BY <1>7, IdentityAssumption DEF Fail, Failable, qualityVars, TypeOK, Node
  <2> QED
    BY <1>1, <1>7, <2>1 DEF Whole, PartsOf
<1> QED
    BY <1>1, <1>2, <1>3, <1>4, <1>5, <1>6, <1>7 DEF Effect

LEMMA LateDiesKeeps ==
    ASSUME WorkflowTypeOK, NEW r \in Release, ReleaseInv(r), Crosses(r),
           NEW call \in Call, LateDies(r, call)
    PROVE  ReleaseInv(r)'
<1>1. /\ Unread(r) /\ step'[r] = step[r] /\ call \in late[r] /\ late'[r] = late[r] \ {call}
      /\ todo'[r] = IF call = "source" THEN {} ELSE todo[r]
    BY DEF LateDies, registry, vars, Unread, WorkflowTypeOK
<1> QED
    BY <1>1
    DEF ReleaseInv, Crosses, Collecting, Completing, AfterCollecting, Judged, Whole, PartsOf, Unread,
        Published

LEMMA CleanupKeeps ==
    ASSUME TypeOK, WorkflowTypeOK, NEW r \in Release, ReleaseInv(r), Crosses(r),
           NEW old \in SUBSET Release, OperatorCleanup(old) PROVE ReleaseInv(r)'
<1>1. /\ Still(r) /\ metrics' = metrics /\ results' = results
      /\ r \notin old => status'[r] = status[r] /\ files'[r] = files[r]
      /\ r \in old => /\ status'[r] = "absent" /\ files'[r] \in {{}, files[r]}
                             /\ step[r] \in Ended /\ late[r] = {}
                             /\ r \in Deletable
    BY DEF OperatorCleanup, Cleanup, flow, Still, qualityVars, TypeOK, Node
<1>2. CASE r \notin old
    BY <1>1, <1>2, SameKeeps DEF Same
<1>3. CASE r \in old
  <2>1. status[r] \in {"failed", "succeeded"}
    BY <1>1, <1>3 DEF Deletable
  <2>2. step[r] # "succeeded"
    BY <2>1 DEF ReleaseInv, Published
  <2> QED
    BY <1>1, <1>3, <2>1, <2>2
    DEF ReleaseInv, Crosses, Collecting, Completing, AfterCollecting, Judged, Still, Ended
<1> QED
    BY <1>2, <1>3

LEMMA StartKeeps ==
    ASSUME WorkflowTypeOK, NEW r \in Release, ReleaseInv(r), Crosses(r), Start(r)
    PROVE  ReleaseInv(r)'
<1>1. /\ Unread(r) /\ step[r] = "idle" /\ step'[r] = "begin"
      /\ todo'[r] = todo[r] /\ late'[r] = late[r]
    BY DEF Start, registry, vars, Unread, WorkflowTypeOK
<1> QED
    BY <1>1
    DEF ReleaseInv, Crosses, Collecting, Completing, AfterCollecting, Judged, Whole, PartsOf, Unread

LEMMA UnreadIsSame == \A r \in Release : Unread(r) => Same(r)
    BY DEF Unread, Same

\* The step of one execution leaves the flow of the others alone.
LEMMA ExecutionOnOthers ==
    ASSUME TypeOK, WorkflowTypeOK, NEW q \in Release, NEW r \in Release \ {q},
           \/ Start(q) \/ CallEnds(q) \/ ExecuteBatch(q) \/ RecordPart(q)
           \/ \E call \in Call : LateCommits(q, call) \/ LateDies(q, call)
    PROVE  Same(r) /\ Still(r)
<1> USE DEF WorkflowTypeOK, Still
<1>1. CASE Start(q) \/ ExecuteBatch(q) \/ CallFails(q) \/ GiveUp(q)
  <2>1. UNCHANGED vars
    BY <1>1 DEF Start, ExecuteBatch, CallFails, GiveUp, registry
  <2> QED
    BY <1>1, <2>1, UnreadIsSame
    DEF Start, ExecuteBatch, CallFails, GiveUp, Raises, vars, Unread
<1>2. CASE CallCommits(q)
    BY <1>2, EffectOnOthers DEF CallCommits, Returns, Raises
<1>3. CASE RecordPart(q)
  <2>1. Same(r)
    BY <1>3 DEF RecordPart, Record, registryVars, qualityVars, Same, TypeOK
  <2> QED
    BY <1>3, <2>1 DEF RecordPart, Returns, Raises
<1>4. CASE \E call \in Call : LateCommits(q, call)
    BY <1>4, EffectOnOthers DEF LateCommits
<1>5. CASE \E call \in Call : LateDies(q, call)
    BY <1>5, UnreadIsSame DEF LateDies, registry, vars, Unread
<1> QED
    BY <1>1, <1>2, <1>3, <1>4, <1>5 DEF CallEnds

LEMMA WorkflowInvNext ==
    PointerInv /\ WorkflowInv /\ [WorkflowNext]_workflowVars => WorkflowInv'
<1> SUFFICES ASSUME PointerInv, WorkflowInv, [WorkflowNext]_workflowVars,
                    NEW r \in Release
             PROVE  ReleaseInv(r)'
    BY WorkflowTypeNext DEF WorkflowInv
<1>1. TypeOK /\ WorkflowTypeOK /\ ReleaseInv(r)
    BY DEF PointerInv, WorkflowInv
<1> Crosses(r)
    BY CrossedGrows
<1>2. ASSUME NEW q \in Release,
             \/ Start(q) \/ CallEnds(q) \/ ExecuteBatch(q) \/ RecordPart(q)
             \/ \E call \in Call : LateCommits(q, call) \/ LateDies(q, call)
      PROVE  ReleaseInv(r)'
  <2>1. CASE q = r
    BY <1>1, <1>2, <2>1, StartKeeps, CommitKeeps, RaiseKeeps, ExecuteKeeps, RecordKeeps,
       LateKeeps, LateDiesKeeps DEF CallEnds
  <2>2. CASE q # r
    BY <1>1, <1>2, <2>2, ExecutionOnOthers, SameKeeps
  <2> QED
    BY <2>1, <2>2
<1>3. ASSUME NEW y \in Year, RollbackExecution(y) PROVE ReleaseInv(r)'
  <2>1. Same(r) /\ Still(r)
    BY <1>3, RollbackOnAll DEF RollbackExecution, flow, Still
  <2> QED
    BY <1>1, <2>1, SameKeeps
<1>4. ASSUME NEW old \in SUBSET Release, OperatorCleanup(old) PROVE ReleaseInv(r)'
    BY <1>1, <1>4, CleanupKeeps
<1>5. CASE UNCHANGED workflowVars
  <2>1. Same(r) /\ Still(r)
    BY <1>5 DEF workflowVars, vars, flow, Same, Still
  <2> QED
    BY <1>1, <2>1, SameKeeps
<1> QED
    BY <1>2, <1>3, <1>4, <1>5 DEF WorkflowNext

LEMMA WorkflowInvInit == WorkflowInit => WorkflowInv
<1> SUFFICES ASSUME WorkflowInit, NEW r \in Release PROVE ReleaseInv(r)
    BY WorkflowTypeInit DEF WorkflowInv
<1>1. metrics.release # r
    BY IdentityAssumption DEF WorkflowInit, Init, NoMetrics
<1> QED
    BY <1>1
    DEF WorkflowInit, Init, Node, ReleaseInv, Collecting, Completing, AfterCollecting, Judged

LEMMA WorkflowPointer == WorkflowSpec => []PointerInv
    BY WorkflowUsesRegistry, TypeCorrect, PointerCorrect, PTL DEF PointerInv

\* An execution collects the files of its release or completes it, never both at once;
\* what it completes is whole and what the gate judged is what it has.
THEOREM WorkflowInvariant == WorkflowSpec => []WorkflowInv
    BY WorkflowPointer, WorkflowInvInit, WorkflowInvNext, PTL DEF WorkflowSpec

----------------------------------------------------------------------------
(* What the invariant says to a reader of the tables.                      *)

\* No release is published with a part of a manifest missing.
THEOREM ManifestsWhole == WorkflowSpec => []WholeManifests
<1>1. WorkflowInv => WholeManifests
    BY DEF WorkflowInv, ReleaseInv, Completing, WholeManifests, Published
<1> QED
    BY <1>1, WorkflowInvariant, PTL

\* The outcome an execution reports is that of its release, then and ever after.
THEOREM OutcomesStand == WorkflowSpec => []OutcomeStands
<1>1. WorkflowInv => OutcomeStands
    BY DEF WorkflowInv, ReleaseInv, OutcomeStands
<1> QED
    BY <1>1, WorkflowInvariant, PTL

\* A release whose build was not at work together with another is published on a gate
\* that judged the files it publishes.
THEOREM LoneGateOfItsFiles == WorkflowSpec => []LoneGateJudgesItsFiles
<1>1. ASSUME WorkflowInv, PublishedGatePassed, NEW r \in Published \ crossed
      PROVE  results[r].judged = files[r]
  <2>1. r \in Release /\ status[r] # "absent" /\ results[r].verdict = "pass"
    BY <1>1 DEF PublishedGatePassed, Published
  <2>2. NoGate.verdict = "none"
    BY DEF NoGate
  <2>3. results[r] # NoGate
    BY <2>1, <2>2
  <2>4. Judged(r, results[r])
    BY <1>1, <2>1, <2>3 DEF WorkflowInv, ReleaseInv
  <2> QED
    BY <1>1, <2>1, <2>4 DEF Judged
<1>2. WorkflowInv /\ PublishedGatePassed => LoneGateJudgesItsFiles
    BY <1>1 DEF LoneGateJudgesItsFiles
<1> QED
    BY <1>2, WorkflowInvariant, WorkflowUsesRegistry, GatePassed, PTL
================================================================================
