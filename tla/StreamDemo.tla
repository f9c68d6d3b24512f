------------------------------ MODULE StreamDemo ------------------------------
(***************************************************************************)
(* The stream demo workflow: runs of stream_demo.yaml, each with its own   *)
(* Dataflow job over the one subscription, the producer it starts, and the *)
(* dbt models it builds over the tables every run shares.                  *)
(*                                                                         *)
(*   pc, tries, done   where each execution is, its failed polls, and the  *)
(*                     branches or models it has finished                  *)
(*   known, outcome    whether it holds its job id, how its cleanup ended  *)
(*   job               the Dataflow job of each run                        *)
(*   published         messages Pub/Sub accepted                           *)
(*   backlog           messages not acknowledged on the subscription       *)
(*   silver, quarantine, latest, audit   the tables                        *)
(*   late              what a call given up has left at work               *)
(*   outdated          runs whose events promoted_at has passed            *)
(*   release           the active release of the batch side                *)
(*   mode              what the environment may do in this behaviour       *)
(***************************************************************************)
EXTENDS StreamEvents

CONSTANTS
    Modes,        \* the behaviours checked together: how many runs, may one start
                  \* before the last ended, how many messages may be repeated, may
                  \* a call given up leave its job at work, may the batch side
                  \* promote, and the polls of one wait (60, 90, 36 and 6 in the
                  \* workflow, 12 scans in its cleanup)
    Releases      \* the releases of the batch side: is one of the year of the demo,
                  \* and the municipalities whose newest row in it is of that year

Municipality == {Fixture[i].municipality : i \in Index}

ASSUME ModesAssumption == \A m \in Modes : m.polls \in Nat \ {0}

ASSUME ReleasesAssumption == Releases \subseteq [demoYear : BOOLEAN, covered : SUBSET Municipality]

VARIABLES pc, tries, done, known, outcome, job
VARIABLES published, backlog, silver, quarantine, latest, audit
VARIABLES late, outdated, release, mode

flow == <<pc, tries, done, known, outcome>>
topic == <<published, backlog>>
tables == <<silver, quarantine>>
models == <<latest, audit>>
batch == <<outdated, release>>
outside == <<late, batch, mode>>
vars == <<flow, job, topic, tables, models, outside>>

Ended == {"new", "succeeded", "failed"}
Running(r) == pc[r] \notin Ended

Terminal == {"drained", "cancelled", "failed"}
Active == {"pending", "running", "draining", "cancelling"}
JobState == {"none", "starting"} \cup Active \cup Terminal

Wait == {"job", "silver", "quarantine", "duplicate", "gold", "backlog"}
Stages == {"silver", "quarantine"}
Evidence == {"duplicate", "gold", "backlog"}
Models == {"latest", "audit"}

TypeOK ==
    /\ pc \in [Run -> Ended \cup {"launch", "running", "publish", "stages", "drain", "drained",
                                  "build", "evidence", "discover", "inspect", "cancelled"}]
    /\ tries \in [Run -> [Wait -> 0 .. mode.polls - 1]]
    /\ done \in [Run -> SUBSET (Stages \cup Evidence \cup Models)]
    /\ known \in [Run -> BOOLEAN]
    /\ outcome \in [Run -> {"none", "notfound", "ended", "refused", "error"}]
    /\ job \in [Run -> JobState]
    /\ published \subseteq Message
    /\ backlog \subseteq published
    /\ silver \subseteq Row /\ quarantine \subseteq Row
    /\ latest \in [Event -> SUBSET Message] /\ audit \subseteq Message
    /\ late \in [Run -> SUBSET ({"publish"} \cup Models)]
    /\ outdated \subseteq Run
    /\ release \in Releases
    /\ mode \in Modes

Init ==
    /\ pc = [r \in Run |-> "new"]
    /\ tries = [r \in Run |-> [w \in Wait |-> 0]]
    /\ done = [r \in Run |-> {}]
    /\ known = [r \in Run |-> FALSE]
    /\ outcome = [r \in Run |-> "none"]
    /\ job = [r \in Run |-> "none"]
    /\ published = {} /\ backlog = {}
    /\ silver = {} /\ quarantine = {}
    /\ latest = [e \in Event |-> {}] /\ audit = {}
    /\ late = [r \in Run |-> {}]
    /\ outdated = {}
    /\ release \in Releases
    /\ mode \in Modes

----------------------------------------------------------------------------
(* Control of one execution.                                               *)

\* The cleanup starts from the job id when the execution holds one.
Handler(r) == IF known[r] THEN "inspect" ELSE "discover"

Goto(r, next) ==
    /\ pc' = [pc EXCEPT ![r] = next]
    /\ tries' = [tries EXCEPT ![r] = [w \in Wait |-> 0]]
    /\ done' = [done EXCEPT ![r] = {}]

\* Mutant: one attempt too many.
AgainOnceMore(r, wait, otherwise) ==
    IF tries[r][wait] = mode.polls
    THEN Goto(r, otherwise)
    ELSE tries' = [tries EXCEPT ![r][wait] = @ + 1] /\ UNCHANGED <<pc, done>>

\* Mutant: the attempts start over when they are spent.
AgainForever(r, wait, otherwise) ==
    tries' = [tries EXCEPT ![r][wait] = (@ + 1) % mode.polls] /\ UNCHANGED <<pc, done>>

\* One more attempt, or the end of the wait.
Again(r, wait, otherwise) ==
    IF tries[r][wait] + 1 = mode.polls
    THEN Goto(r, otherwise)
    ELSE tries' = [tries EXCEPT ![r][wait] = @ + 1] /\ UNCHANGED <<pc, done>>

\* One poll of a branch of a parallel step.
Poll(r, branch, found) ==
    /\ branch \notin done[r]
    /\ \/ found /\ done' = [done EXCEPT ![r] = @ \cup {branch}] /\ UNCHANGED <<pc, tries>>
       \/ ~found /\ Again(r, branch, Handler(r))

\* Mutant: any terminal state is taken for the target.
WaitStateOver(r, target, next, otherwise) ==
    \/ job[r] \in Terminal \cup {target} /\ Goto(r, next)
    \/ job[r] \notin Terminal \cup {target} /\ Again(r, "job", otherwise)

\* wait_dataflow_state: the target, another terminal state, or one more attempt.
WaitState(r, target, next, otherwise) ==
    \/ job[r] = target /\ Goto(r, next)
    \/ job[r] \in Terminal \ {target} /\ Goto(r, otherwise)
    \/ job[r] \notin Terminal \cup {target} /\ Again(r, "job", otherwise)

\* The input and the active release of 2024 are checked before anything is started.
Begin(r) ==
    /\ pc[r] = "new"
    /\ r <= mode.runs
    /\ \A q \in Run : q < r => pc[q] # "new" /\ (mode.overlap \/ ~Running(q))
    /\ (release.demoYear /\ Goto(r, "launch")) \/ Goto(r, "failed")
    /\ UNCHANGED <<known, outcome, job, topic, tables, models, outside>>

\* The launch is answered with the job id, or refused, or its answer is lost while the
\* job starts.
LaunchFlex(r) ==
    /\ pc[r] = "launch"
    /\ \/ /\ job' = [job EXCEPT ![r] = "pending"]
          /\ known' = [known EXCEPT ![r] = TRUE]
          /\ Goto(r, "running")
       \/ /\ job' = [job EXCEPT ![r] = "starting"]
          /\ Goto(r, "discover")
          /\ UNCHANGED known
       \/ /\ Goto(r, "discover")
          /\ UNCHANGED <<known, job>>
    /\ UNCHANGED <<outcome, topic, tables, models, outside>>

WaitRunning(r) ==
    /\ pc[r] = "running"
    /\ WaitState(r, "running", "publish", Handler(r))
    /\ UNCHANGED <<known, outcome, job, topic, tables, models, outside>>

----------------------------------------------------------------------------
(* The producer, one record after the other.                               *)

Retried == {m \in published : m.copy = 2}

Repeats == Cardinality(Retried) + Cardinality({p \in silver \cup quarantine : p.ingestion > 1})

\* The records of the fixture, in its order.
NextIndex(r) == Cardinality({m.index : m \in {n \in published : n.run = r}}) + 1

Accept(messages) ==
    /\ published' = published \cup messages
    /\ backlog' = backlog \cup messages

\* A publication is accepted; when its answer is lost the client sends it again, and
\* Pub/Sub takes the repetition for another message.
PublishNext(r) ==
    /\ NextIndex(r) \in Index
    /\ LET copy(c) == [run |-> r, index |-> NextIndex(r), copy |-> c]
       IN  \/ Accept({copy(1)})
           \/ Repeats < mode.repeats /\ Accept({copy(1), copy(2)})

Publish(r) ==
    /\ pc[r] = "publish"
    /\ PublishNext(r)
    /\ UNCHANGED <<flow, job, tables, models, outside>>

Published(r) ==
    /\ pc[r] = "publish"
    /\ NextIndex(r) \notin Index
    /\ Goto(r, "stages")
    /\ UNCHANGED <<known, outcome, job, topic, tables, models, outside>>

----------------------------------------------------------------------------
(* The checks between the fixture and the drain.                           *)

RowsOf(r, rows) == {p \in rows : CorrelationOf(p.message) = r}

ExpectedEvents == Cardinality({Fixture[i].event : i \in {j \in Index : Semantic(Fixture[j])}})

\* COUNT(DISTINCT event_id) of the run is that of the fixture (8).
SilverReady(r) ==
    Cardinality({EventOf(p.message) : p \in RowsOf(r, silver)}) = ExpectedEvents

\* COUNT(DISTINCT event_fingerprint) is 1: copies of a message have one payload.
QuarantineReady(r) ==
    Cardinality({p.message.index : p \in RowsOf(r, quarantine)}) = 1

\* The raw branch shares no state with the others: it passes, or fails as a call does.
CheckStages(r) ==
    /\ pc[r] = "stages"
    /\ \/ Poll(r, "silver", SilverReady(r))
       \/ Poll(r, "quarantine", QuarantineReady(r))
    /\ UNCHANGED <<known, outcome, job, topic, tables, models, outside>>

StagesChecked(r) ==
    /\ pc[r] = "stages"
    /\ done[r] = Stages
    /\ Goto(r, "drain")
    /\ UNCHANGED <<known, outcome, job, topic, tables, models, outside>>

\* The request is refused when the job has ended, and its answer may be lost.
RequestDrain(r) ==
    /\ pc[r] = "drain"
    /\ \/ /\ job[r] = "running"
          /\ job' = [job EXCEPT ![r] = "draining"]
          /\ Goto(r, "drained") \/ Goto(r, Handler(r))
       \/ /\ job[r] # "running"
          /\ Goto(r, Handler(r))
          /\ UNCHANGED job
    /\ UNCHANGED <<known, outcome, topic, tables, models, outside>>

WaitDrained(r) ==
    /\ pc[r] = "drained"
    /\ WaitState(r, "drained", "build", Handler(r))
    /\ UNCHANGED <<known, outcome, job, topic, tables, models, outside>>

----------------------------------------------------------------------------
(* The dbt build: two incremental models, in either order.                 *)

\* The staged messages of an event that the model selects.
Selected(e) == {m \in MessagesOf(LatestOf(silver)) : EventOf(m) = e}

\* Mutant: the merge inserts and never updates.
MergeLatestOnce ==
    latest' = [e \in Event |-> IF latest[e] = {} THEN Selected(e) ELSE latest[e]]

MergeLatest ==
    latest' = [e \in Event |-> IF Selected(e) = {} THEN latest[e] ELSE Selected(e)]

AppendAudit == audit' = audit \cup MessagesOf(AuditOf(silver))

BuildLatest(r) ==
    /\ pc[r] = "build"
    /\ "latest" \notin done[r]
    /\ MergeLatest
    /\ done' = [done EXCEPT ![r] = @ \cup {"latest"}]
    /\ UNCHANGED <<pc, tries, known, outcome, job, topic, tables, audit, outside>>

BuildAudit(r) ==
    /\ pc[r] = "build"
    /\ "audit" \notin done[r]
    /\ AppendAudit
    /\ done' = [done EXCEPT ![r] = @ \cup {"audit"}]
    /\ UNCHANGED <<pc, tries, known, outcome, job, topic, tables, latest, outside>>

Built(r) ==
    /\ pc[r] = "build"
    /\ done[r] = Models
    /\ Goto(r, "evidence")
    /\ UNCHANGED <<known, outcome, job, topic, tables, models, outside>>

\* The simulated rows of the view: of the events newer than promoted_at the newest of
\* each key, where the newest row of that key in the active release is of the same year.
Overlay ==
    LET shown == {m \in UNION {latest[e] : e \in Event} : m.run \notin outdated}
    IN  {m \in shown :
            /\ KeyOf(m) \in release.covered
            /\ \A n \in shown : KeyOf(n) = KeyOf(m) => ~Later(EventTime(n), EventTime(m))}

DuplicateReady(r) == Cardinality({m \in audit : CorrelationOf(m) = r}) = 1

GoldReady(r) == Cardinality({m \in Overlay : CorrelationOf(m) = r}) = ExpectedEvents

CheckEvidence(r) ==
    /\ pc[r] = "evidence"
    /\ \/ Poll(r, "duplicate", DuplicateReady(r))
       \/ Poll(r, "gold", GoldReady(r))
       \/ Poll(r, "backlog", backlog = {})
    /\ UNCHANGED <<known, outcome, job, topic, tables, models, outside>>

Succeed(r) ==
    /\ pc[r] = "evidence"
    /\ done[r] = Evidence
    /\ Goto(r, "succeeded")
    /\ UNCHANGED <<known, outcome, job, topic, tables, models, outside>>

----------------------------------------------------------------------------
(* Failures and cleanup_dataflow.                                          *)

\* What the Cloud Run job of the call at hand has still to do.
Unfinished(r) ==
    {work \in {"publish"} : pc[r] = "publish"}
        \cup {model \in Models \ done[r] : pc[r] = "build"}

\* A call ends in an error.  The producer or the dbt job ends with it, or the connector
\* gave up on a job that goes on.
CallFails(r) ==
    /\ pc[r] \in {"running", "publish", "stages", "drain", "drained", "build", "evidence"}
    /\ Goto(r, Handler(r))
    /\ \/ UNCHANGED late
       \/ mode.leaves /\ late' = [late EXCEPT ![r] = Unfinished(r)]
    /\ UNCHANGED <<known, outcome, job, topic, tables, models, batch, mode>>

\* The original error is preserved, whatever the cleanup's result.
Finish(r, result) ==
    /\ Goto(r, "failed")
    /\ outcome' = [outcome EXCEPT ![r] = result]

\* A scan of the active jobs finds the one with the run's name and label and uses it; or
\* it finds none, or has read its ten pages, and another scan follows while there are
\* scans left.  The search may be given up with any scan, whatever the scan has found:
\* at its deadline, on a listing it cannot read, on a page seen before, on two matches,
\* or because it was the last.
Discover(r) ==
    /\ pc[r] = "discover"
    /\ \/ /\ job[r] \in Active
          /\ known' = [known EXCEPT ![r] = TRUE]
          /\ Goto(r, "inspect")
          /\ UNCHANGED outcome
       \/ /\ tries[r]["job"] + 1 < mode.polls
          /\ Again(r, "job", "failed")
          /\ UNCHANGED <<known, outcome>>
       \/ /\ Finish(r, "notfound")
          /\ UNCHANGED known
    /\ UNCHANGED <<job, topic, tables, models, outside>>

\* Mutant: a job that drains is left to itself.
InspectDraining(r) ==
    /\ pc[r] = "inspect"
    /\ \/ /\ job[r] \in Terminal \cup {"draining"}
          /\ Finish(r, "ended")
          /\ UNCHANGED job
       \/ /\ job[r] \in Active \ {"draining"}
          /\ job' = [job EXCEPT ![r] = "cancelling"]
          /\ Goto(r, "cancelled")
          /\ UNCHANGED outcome
    /\ UNCHANGED <<known, topic, tables, models, outside>>

\* A job that has not ended is cancelled, a draining one too.
InspectKnown(r) ==
    /\ pc[r] = "inspect"
    /\ \/ /\ job[r] \in Terminal
          /\ Finish(r, "ended")
          /\ UNCHANGED job
       \/ /\ job[r] \in Active
          /\ job' = [job EXCEPT ![r] = "cancelling"]
          /\ Goto(r, "cancelled")
          /\ UNCHANGED outcome
    /\ UNCHANGED <<known, topic, tables, models, outside>>

\* The cleanup returns success or not; the workflow does not look.
WaitCancelled(r) ==
    /\ pc[r] = "cancelled"
    /\ \/ job[r] = "cancelled" /\ Finish(r, "ended")
       \/ job[r] \in Terminal \ {"cancelled"} /\ Finish(r, "refused")
       \/ /\ job[r] \notin Terminal
          /\ tries[r]["job"] + 1 < mode.polls
          /\ Again(r, "job", "failed")
          /\ UNCHANGED outcome
       \/ /\ job[r] \notin Terminal
          /\ tries[r]["job"] + 1 = mode.polls
          /\ Finish(r, "refused")
    /\ UNCHANGED <<known, job, topic, tables, models, outside>>

CleanupFails(r) ==
    /\ pc[r] \in {"discover", "inspect", "cancelled"}
    /\ Finish(r, "error")
    /\ UNCHANGED <<known, job, topic, tables, models, outside>>

----------------------------------------------------------------------------
(* Dataflow, Pub/Sub and the batch side.                                   *)

JobMoves(r) ==
    /\ \E step \in {<<"starting", "pending">>, <<"pending", "running">>,
                    <<"draining", "drained">>, <<"cancelling", "cancelled">>}
                   \cup (Active \X {"failed"}) :
        /\ job[r] = step[1]
        /\ job' = [job EXCEPT ![r] = step[2]]
    /\ UNCHANGED <<flow, topic, tables, models, outside>>

Ingestions(m) == {p.ingestion : p \in {q \in silver \cup quarantine : q.message = m}}

\* A job delivers a message to one of the tables; the acknowledgement may be lost, and
\* the message is then delivered again.  A draining job finishes what it had pulled.
Deliver(r) ==
    /\ job[r] \in {"running", "draining"}
    /\ \E m \in backlog :
        LET row == [message |-> m, ingestion |-> Cardinality(Ingestions(m)) + 1]
        IN  /\ silver' = silver \cup Process(row).valid
            /\ quarantine' = quarantine \cup Process(row).quarantine
            /\ \/ backlog' = backlog \ {m}
               \/ Repeats < mode.repeats /\ UNCHANGED backlog
    /\ UNCHANGED <<flow, job, published, models, outside>>

\* A producer that has sent nothing may have drawn its base time or not.
Preparing(r) ==
    /\ pc[r] = "publish" \/ "publish" \in late[r]
    /\ NextIndex(r) = 1

\* A promotion or a rollback on the batch side: another release, and promoted_at passes
\* the events already prepared.  (One within the seconds over which the event times of a
\* run spread is taken to pass them all.)
Promote ==
    /\ mode.promotes
    /\ release' \in Releases
    /\ \E prepared \in SUBSET {r \in Run : Preparing(r)} :
            outdated' = outdated \cup {m.run : m \in published} \cup prepared
    /\ UNCHANGED <<flow, job, topic, tables, models, late, mode>>

\* A job whose call was given up goes on with its work.
Leftover(r) ==
    \/ /\ "publish" \in late[r]
       /\ PublishNext(r)
       /\ UNCHANGED <<flow, job, tables, models, outside>>
    \/ /\ "latest" \in late[r]
       /\ MergeLatest
       /\ late' = [late EXCEPT ![r] = @ \ {"latest"}]
       /\ UNCHANGED <<flow, job, topic, tables, audit, batch, mode>>
    \/ /\ "audit" \in late[r]
       /\ AppendAudit
       /\ late' = [late EXCEPT ![r] = @ \ {"audit"}]
       /\ UNCHANGED <<flow, job, topic, tables, latest, batch, mode>>

Step(r) ==
    \/ Begin(r)
    \/ LaunchFlex(r)
    \/ WaitRunning(r)
    \/ Publish(r)
    \/ Published(r)
    \/ CheckStages(r)
    \/ StagesChecked(r)
    \/ RequestDrain(r)
    \/ WaitDrained(r)
    \/ BuildLatest(r)
    \/ BuildAudit(r)
    \/ Built(r)
    \/ CheckEvidence(r)
    \/ Succeed(r)
    \/ CallFails(r)
    \/ Discover(r)
    \/ InspectKnown(r)
    \/ WaitCancelled(r)
    \/ CleanupFails(r)

Environment == Promote \/ \E r \in Run : JobMoves(r) \/ Deliver(r) \/ Leftover(r)

Next == Environment \/ \E r \in Run : Step(r)

Spec == Init /\ [][Next]_vars

\* Workflows runs every execution to its end; Dataflow and Pub/Sub promise nothing.
FairSpec == Spec /\ \A r \in Run : WF_vars(Running(r) /\ Step(r))
----------------------------------------------------------------------------
(* Properties.                                                             *)

Staged(r) == {m \in MessagesOf(silver \cup quarantine) : m.run = r}

\* No other Dataflow job touches the shared tables while r is at work: the other
\* executions started none, or saw it end before they ended.  And none left its producer
\* at work, whose base time may then be the later one.
Alone(r) ==
    /\ ~mode.overlap
    /\ \A q \in Run \ {r} :
        /\ job[q] = "none" \/ pc[q] = "succeeded" \/ outcome[q] = "ended"
        /\ "publish" \notin late[q]

\* Whatever is retried, redelivered, drained or cancelled, an accepted message waits on
\* the subscription or is in one table, the one its content calls for (architecture:
\* "Beam preserva as nove linhas validas no staging e envia a invalida a quarentena").
\* This is so while the subscription keeps a message until it is acknowledged: the dead
\* letter policy, which takes it away after five deliveries, is not modelled.
RoutedOnce ==
    \A m \in published :
        /\ m \in backlog \cup MessagesOf(silver) \cup MessagesOf(quarantine)
        /\ Decodes(m) => m \notin MessagesOf(quarantine)
        /\ ~Decodes(m) => m \notin MessagesOf(silver)

\* After the build of a run that is alone, each staged message of an event is the one
\* shown or an audited copy, never both and never neither, although two models decide
\* it and messages were redelivered (README: "escolhem uma linha por event_id, registram
\* a copia descartada na auditoria").
AuditIsTheRest ==
    \A r \in Run : pc[r] = "evidence" /\ Alone(r) =>
        \A e \in Event :
            LET staged == {m \in MessagesOf(silver) : EventOf(m) = e}
            IN  /\ Cardinality(latest[e]) = (IF staged = {} THEN 0 ELSE 1)
                /\ latest[e] \subseteq staged
                /\ audit \cap staged = staged \ latest[e]

\* The active release has a row of the demo's year for each municipality of the accepted records.
Covered == \A i \in Index : Semantic(Fixture[i]) => Fixture[i].municipality \in release.covered

\* A run that is alone finds the evidence it asks for, one audited copy and its own rows
\* in the overlay, unless a publication of its own was retried, a message was left on
\* the subscription, a promotion passed it or the release active now lacks the rows it
\* overlays: a failed earlier run, whose events have the same ids, does not spoil it, nor
\* does a build that such a run has left at work.
EvidenceHolds ==
    \A r \in Run :
        (/\ pc[r] = "evidence" /\ Alone(r)
         /\ \A m \in Retried : m.run # r
         /\ backlog = {}
         /\ r \notin outdated /\ Covered) => DuplicateReady(r) /\ GoldReady(r)

\* A run that succeeded drained its job and has every record of the fixture in a table
\* (runbook: "Estado CANCELLED, FAILED ou timeout e falha da demo, nao sucesso parcial").
SuccessIsEvidence ==
    \A r \in Run : pc[r] = "succeeded" =>
        /\ job[r] = "drained"
        /\ {m.index : m \in Staged(r)} = Index

\* A failed run leaves its job at work only when a call of the cleanup failed, or when the
\* answer of the launch was lost and the search for the job was given up, though a scan
\* may have seen it; otherwise the job ended or was told to cancel, a draining one too.
OrphanExplained ==
    \A r \in Run : pc[r] = "failed" /\ job[r] \in {"starting", "pending", "running", "draining"} =>
        outcome[r] = "error" \/ (outcome[r] = "notfound" /\ ~known[r])

\* Every execution ends, whatever Dataflow and Pub/Sub do.
EveryDemoEnds == \A r \in Run : Running(r) ~> pc[r] \in {"succeeded", "failed"}
==============================================================================
