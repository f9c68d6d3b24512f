----------------------------- MODULE QualityBuild -----------------------------
(***************************************************************************)
(* The candidate's tables and its quality gate while executions of the     *)
(* batch workflow overlap: the scheduler retries a start whose answer was  *)
(* lost, an operator starts another year; and a call the workflow gave up  *)
(* leaves its dbt job at work.  Every dbt build writes the same relations, *)
(* each in a statement of its own, in any order that respects the          *)
(* references between the models.  Relations that hold one build's rows    *)
(* only, or do not say whose they are, are what the builds share:          *)
(*                                                                         *)
(*   staging      views whose text carries the release_id of the last build*)
(*   silver       rows per release, replaced by the release's own build    *)
(*   volume       release_volume_metric, one row without a release_id      *)
(*   percentage   release_percentage_metrics, read without its release_id  *)
(*   core, operational, metrics   the thirteen rules, labelled by the build*)
(*                that writes them                                         *)
(*                                                                         *)
(* A figure of the gate is modelled by the release whose rows it measured, *)
(* None if it measured no row.  The registry is reduced to the pointer and *)
(* the baselines; ReleaseRegistry has the rest.                            *)
(*                                                                         *)
(* History variable: crossed, the releases whose build wrote while another *)
(* one had begun to write and was still at work.                           *)
(***************************************************************************)
EXTENDS Naturals

CONSTANTS
    Release,        \* one execution of the workflow for each release id
    Earlier,        \* the release readers have before these
    None            \* SQL null

ASSUME ReleaseAssumption == None \notin Release /\ Earlier \notin Release \cup {None}

VARIABLES
    defect,         \* what is wrong with the data of each release
    step,           \* where each execution of the workflow is
    baseline,       \* release_registry.baseline_release_id
    active,         \* active_release.release_id
    working,        \* the releases whose dbt job is at work
    built,          \* the models each build has already written
    crossed,
    staging, silver, volume, percentage, core, operational, metrics,
    results         \* release_results, per release

flow == <<defect, step, baseline, active, working>>
rows == <<staging, silver>>
rules == <<core, operational, metrics>>
vars == <<flow, built, crossed, rows, volume, percentage, rules, results>>

\* Two of the six sources: the volume is that of municipio, the repetitions those
\* of alunos.
Table == {"municipio", "alunos"}
Stg == [municipio |-> "stg_municipio", alunos |-> "stg_alunos"]
Silver == [municipio |-> "silver_municipio", alunos |-> "silver_alunos"]
Model == {Stg[t] : t \in Table} \cup {Silver[t] : t \in Table}
         \cup {"volume", "percentage", "core", "operational", "metrics"}

\* collapsed: less than half the volume of the release's baseline; range: a percentage out of
\* its range; repeated: more than 0.50% of the students repeated.
Defect == {"none", "collapsed", "range", "repeated"}
With(d) == {r \in Release : defect[r] = d}

Owner == Release \cup {None}
Core == [label : Owner, covered : BOOLEAN, percentage : Owner]
Operational == [label : Owner, volume : Owner, repeated : Owner]
Gate == [core : Core, operational : Operational]

NoGate == [core |-> [label |-> None, covered |-> FALSE, percentage |-> None],
           operational |-> [label |-> None, volume |-> None, repeated |-> None]]

TypeOK ==
    /\ defect \in [Release -> Defect]
    /\ step \in [Release -> {"idle", "build", "evaluate", "promote", "done", "failed"}]
    /\ baseline \in [Release -> Release \cup {Earlier, None}]
    /\ active \in Release \cup {Earlier}
    /\ working \in SUBSET Release
    /\ built \in [Release -> SUBSET Model]
    /\ crossed \in SUBSET Release
    /\ staging \in [Table -> Owner]
    /\ silver \in [Table -> SUBSET Release]
    /\ volume \in Owner /\ percentage \in Owner
    /\ core \in Core /\ operational \in Operational /\ metrics \in Gate
    /\ results \in [Release -> Gate]

Init ==
    /\ defect \in [Release -> Defect]
    /\ step = [r \in Release |-> "idle"]
    /\ baseline = [r \in Release |-> None]
    /\ active = Earlier
    /\ working = {}
    /\ built = [r \in Release |-> {}]
    /\ crossed = {}
    /\ staging = [t \in Table |-> None]
    /\ silver = [t \in Table |-> {}]
    /\ volume = None /\ percentage = None
    /\ core = NoGate.core /\ operational = NoGate.operational /\ metrics = NoGate
    /\ results = [r \in Release |-> NoGate]

----------------------------------------------------------------------------
(* An execution up to the dbt build: begin, the six sources, complete.     *)

Start(r) ==
    /\ step[r] = "idle"
    /\ step' = [step EXCEPT ![r] = "build"]
    /\ baseline' = [baseline EXCEPT ![r] = active]
    /\ working' = working \cup {r}
    /\ UNCHANGED <<defect, active, built, crossed, rows, volume, percentage, rules, results>>

\* A call of the workflow raises or is given up: the handler fails the release, and no
\* one stops the job.
CallFails(r) ==
    /\ step[r] \in {"build", "evaluate", "promote"}
    /\ step' = [step EXCEPT ![r] = "failed"]
    /\ UNCHANGED <<defect, baseline, active, working, built, crossed, rows, volume, percentage,
                   rules, results>>

\* The dbt job dies, with some of its models written.
JobStops(r) ==
    /\ r \in working
    /\ working' = working \ {r}
    /\ UNCHANGED <<defect, step, baseline, active, built, crossed, rows, volume, percentage,
                   rules, results>>

----------------------------------------------------------------------------
(* dbt build, one model at a time.                                         *)

\* The builds that have begun to write, r's own with this step.
Writing(r) == {r} \cup {q \in working : built[q] # {}}

Build(r, model, references) ==
    /\ r \in working
    /\ model \notin built[r]
    /\ references \subseteq built[r]
    /\ built' = [built EXCEPT ![r] = @ \cup {model}]
    /\ crossed' = crossed \cup {q \in Writing(r) : Writing(r) # {q}}

\* Mutant: whether there was a row, not whose.
MeasuredFlag(r, present) == present

\* The release whose rows a model of r reads from a relation that holds those of
\* one release.
Measured(r, present) == IF present THEN r ELSE None

BuildStaging(r, table) ==
    /\ Build(r, Stg[table], {})
    /\ staging' = [staging EXCEPT ![table] = r]
    /\ UNCHANGED <<flow, silver, volume, percentage, rules, results>>

\* The rows of r are deleted and those the view gives for r are inserted: none when
\* the view carries another release by now.
BuildSilver(r, table) ==
    /\ Build(r, Silver[table], {Stg[table]})
    /\ silver' = [silver EXCEPT ![table] =
                    IF staging[table] = r THEN @ \cup {r} ELSE @ \ {r}]
    /\ UNCHANGED <<flow, staging, volume, percentage, rules, results>>

BuildVolume(r) ==
    /\ Build(r, "volume", {Silver["municipio"]})
    /\ volume' = Measured(r, r \in silver["municipio"])
    /\ UNCHANGED <<flow, rows, percentage, rules, results>>

BuildPercentage(r) ==
    /\ Build(r, "percentage", {Silver["municipio"]})
    /\ percentage' = Measured(r, r \in silver["municipio"])
    /\ UNCHANGED <<flow, rows, volume, rules, results>>

BuildCore(r) ==
    /\ Build(r, "core", {Silver["municipio"], Silver["alunos"], "percentage"})
    /\ core' = [label |-> r, covered |-> \A t \in Table : r \in silver[t],
                percentage |-> percentage]
    /\ UNCHANGED <<flow, rows, volume, percentage, operational, metrics, results>>

\* Mutant: the model reads the volume without a reference to its model.
BuildOperationalUnordered(r) ==
    /\ Build(r, "operational", {Stg["alunos"]})
    /\ operational' = [label |-> r, volume |-> volume,
                       repeated |-> Measured(r, staging["alunos"] = r)]
    /\ UNCHANGED <<flow, rows, volume, percentage, core, metrics, results>>

BuildOperational(r) ==
    /\ Build(r, "operational", {Stg["alunos"], "volume"})
    /\ operational' = [label |-> r, volume |-> volume,
                       repeated |-> Measured(r, staging["alunos"] = r)]
    /\ UNCHANGED <<flow, rows, volume, percentage, core, metrics, results>>

\* The last model of the gate; the dbt job ends, and the workflow goes on if it still
\* waits for it.
BuildMetrics(r) ==
    /\ Build(r, "metrics", {"core", "operational"})
    /\ metrics' = [core |-> core, operational |-> operational]
    /\ working' = working \ {r}
    /\ step' = [step EXCEPT ![r] = IF @ = "build" THEN "evaluate" ELSE @]
    /\ UNCHANGED <<defect, baseline, active, rows, volume, percentage, core, operational, results>>

----------------------------------------------------------------------------
(* evaluate_release and promote_release.                                   *)

\* Mutant: the rows of the release are not counted.
EvaluateUncounted(r) ==
    /\ step[r] = "evaluate"
    /\ results' = [results EXCEPT ![r] = metrics]
    /\ step' = [step EXCEPT ![r] = "promote"]
    /\ UNCHANGED <<defect, baseline, active, working, built, crossed, rows, volume, percentage,
                   rules>>

\* All thirteen rules of the release are there: eight of core, five of operational.
Evaluate(r) ==
    /\ step[r] = "evaluate"
    /\ metrics.core.label = r
    /\ metrics.operational.label = r
    /\ results' = [results EXCEPT ![r] = metrics]
    /\ step' = [step EXCEPT ![r] = "promote"]
    /\ UNCHANGED <<defect, baseline, active, working, built, crossed, rows, volume, percentage,
                   rules>>

\* Mutant: a rule without its verdict.
BlockedWithoutCoverage(gate) ==
    \/ gate.core.percentage \in With("range") \cup {None}
    \/ gate.operational.volume \in With("collapsed") \cup {None}
    \/ gate.operational.repeated \in With("repeated")

\* The rules that block: a table of the release without rows, rates out of range or
\* none at all, volume zero or collapsed.  Repetitions of no row are zero per cent,
\* which passes.
Blocked(gate) ==
    \/ ~ gate.core.covered
    \/ gate.core.percentage \in With("range") \cup {None}
    \/ gate.operational.volume \in With("collapsed") \cup {None}
    \/ gate.operational.repeated \in With("repeated")

Promote(r) ==
    /\ step[r] = "promote"
    /\ baseline[r] = active
    /\ ~ Blocked(results[r])
    /\ active' = r
    /\ step' = [step EXCEPT ![r] = "done"]
    /\ UNCHANGED <<defect, baseline, working, built, crossed, rows, volume, percentage, rules,
                   results>>

Next == \E r \in Release :
    \/ Start(r)
    \/ CallFails(r)
    \/ JobStops(r)
    \/ \E table \in Table : BuildStaging(r, table) \/ BuildSilver(r, table)
    \/ BuildVolume(r)
    \/ BuildPercentage(r)
    \/ BuildCore(r)
    \/ BuildOperational(r)
    \/ BuildMetrics(r)
    \/ Evaluate(r)
    \/ Promote(r)

Spec == Init /\ [][Next]_vars

----------------------------------------------------------------------------
(* Properties.                                                             *)

\* However the builds of overlapping executions interleave, a gate is never made
\* of two releases' halves: the count of the labelled rows refuses it.
GateCarriesOneLabel ==
    \A r \in Release : results[r] # NoGate =>
        results[r].core.label = r /\ results[r].operational.label = r

\* However they interleave, readers never get a release without rows: a build that
\* reads a staging view after another build replaced it inserts nothing, and the
\* coverage rule stops it.
PublishedHasRows == active \in Release => \A t \in Table : active \in silver[t]

\* However executions overlap, no release is published whose own volume fell by more
\* than half (README: "volume zero ou queda acima de 50% bloqueiam a promocao").
CollapsedNeverPublished == active \in Release => defect[active] # "collapsed"

\* A release whose build wrote while no other was at work has a gate whose every figure
\* measured it, and is not published with a defect the blocking rules look for.  Jobs
\* of calls given up count as at work: it is not enough that executions do not overlap.
GateMeasuresItsRelease ==
    /\ \A r \in Release \ crossed : results[r] # NoGate =>
        {r} = {results[r].core.percentage, results[r].operational.volume,
               results[r].operational.repeated}
    /\ active \in Release \ crossed => defect[active] = "none"
==============================================================================
