# Verification of the literacy medallion pipeline

The repository loads six INEP tables into a Bronze lake, builds Silver and Gold
with dbt, and publishes them as *releases*: a pointer row names the release in
effect, each release remembers the one it was built on, and readers see the chain
of the active release. This directory holds TLA+ models of the parts where the
order of steps decides correctness, the TLC configurations that check them, and
proofs for any number of releases, years, sources, objects and calls. Paths below are
relative to the repository.

## Inventory

| component | state | operations | talks to | hard part |
|---|---|---|---|---|
| release registry (`batch/release_bigquery.py`, `dbt/macros/release_promotion_bigquery.sql`, `release_evaluation.sql`) | `ops.active_release`, `ops.release_registry`, `ops.release_files`, `quality.release_results` | begin, record, complete, fail, evaluate, promote | called by the workflow's jobs, read by dbt and the public views | repeated, late and interleaved calls; candidates on the same baseline; reopening a failed id |
| rollback (`dbt/macros/rollback_release.sql`, `releases/templates/rollback_release.sql`) | the same tables | rollback by year | workflow with `action=rollback` | recursion over a possibly damaged registry, depth limit, repeated rollbacks |
| cleanup (`sql/quality/cleanup_releases.sql`) | the same tables | delete old failed and succeeded rows | run by the operator | deleting an ancestor of the chain |
| public views (`dbt/models/gold_public`) | none | nearest release of each year in the chain | read the registry | what a year shows after promotions and rollbacks |
| quality gate (`dbt/models/quality`, `staging`, `silver`) | views and tables shared by every build | dbt build, model by model | reads Bronze through `release_files` | builds at work together: of overlapping executions, or left by a call given up |
| batch workflow (`infra/stack/modules/runtime/templates/batch.yaml`) | local variables of an execution | begin, six sources, complete, build, evaluate, promote; fail on error | runs Cloud Run jobs; started by a scheduler that retries once | calls that fail after they committed, jobs that outlive a call given up, overlapping executions |
| batch runner (`batch/runner.py`, `planner.py`, `manifest_store.py`, `google_storage*.py`) | manifests and Bronze objects in GCS | inspect, export, plan, copy, checkpoint | BigQuery, GCS; its manifest feeds record | crashes between checkpoints, concurrent runs, lost answers |
| streaming (`streaming/*.py`, `containers/dataflow`) | Pub/Sub messages, staging and quarantine tables | publish, route, write | Pub/Sub, Dataflow, BigQuery | duplicates, reordering, retries |
| stream demo (`workflows/stream_demo.yaml`) | local variables, the Dataflow job | launch, poll, publish, drain, clean up | Dataflow, BigQuery, Monitoring | bounded polls, a lost launch answer, drain |
| streaming SQL and overlay (`sql/streaming`, `dbt/models/streaming`, `gold/indicador_atual_hibrido.sql`) | tables of events | deduplicate, merge, overlay | reads the staging rows | order independence |
| command line, costs, schema reference, Terraform, images | files, configuration | rendering, arithmetic | | no state of their own |

What makes each correct:

* **registry**: one active row, named by the pointer, with its baseline as the
  prior; a published release never changes and never comes back once rolled back;
  no promotion is lost; what is published is complete and passed its gate.
* **rollback**: never refused on a sound registry, always refused on a damaged
  one; readers get back exactly the view they had.
* **cleanup**: no ancestor of the chain goes.
* **quality gate**: the figures judged are those of the release judged, as long as its build is
  the only one at work.
* **workflow**: every execution ends, one whose cleanup succeeded publishes nothing, a
  published release is whole.
* **runner**: one completed manifest for one content, never over objects that are
  not there; nothing in Bronze is overwritten; a repeated call accepts its own object.
* **streaming**: exactly one current row per key, whatever is redelivered; a
  Dataflow job outlives its demo only when a call of the cleanup failed or the search for a
  job whose launch was not answered was given up.

`PROJECT.json` lists the hazards at their lines, with the properties that cover
them or the part of them no property covers.

## Modules

| module | models | how |
|---|---|---|
| `ReleaseRegistry` | begin, record, complete, fail, evaluate, promote, rollback, cleanup and the public views | one action per BigQuery transaction: its asserts are the guard, its DML the effect. A failed assert aborts the transaction, so a refused call is a step not taken |
| `ReleaseHistory`, `ReleaseRefinement` | what readers are promised, and that `ReleaseRegistry` implements it | an append-only history that a rollback by year cuts back; `INSTANCE ... WITH`: the history is the chain of the active release, oldest first |
| `RollbackChain` | the rollback as its SQL | the recursive query level by level, the asserts on the temporary table, the target by `min(chain_level)`, over arbitrary registries |
| `LocalReleases` | the in-memory release store of local QA and the tests | in lockstep with `ReleaseRegistry`: both get each call, and where one refuses so must the other |
| `ReleaseWorkflow` | executions of `batch.yaml` over `ReleaseRegistry` | one action per call of the workflow, by its result: commits, fails, is given up while its job goes on |
| `QualityBuild` | overlapping executions through the dbt build and the gate | one action per dbt model that touches a shared relation; a build goes on when its call is given up |
| `BatchRun` | `execute_batch` over one source and year | one action per step of the runner and per cloud call, whose answer may be lost |
| `ObjectStore` | the object store of `batch/fakes.py`, the abstract specification | copy and write as single steps; the caller may learn the answer later |
| `GcsObjects` | the same over GCS | the calls `stat`, `download`, `copy`, `upload` and the comparison after a refusal, each retried; implements `ObjectStore` |
| `StreamEvents` | what a message is, how Beam routes it, what the dbt models select | operators shared by the next two |
| `StreamDemo` | runs of `stream_demo.yaml` with the producer, Pub/Sub, Dataflow and the dbt models | one action per step of the workflow, one per delivery of a message |
| `LocalDemo` | `process_messages`, the local demo | one message at a time, in any order |
| `ReleaseRegistryProofs`, `RollbackChainProofs`, `ReleaseRefinementProofs` (also `LocalReleases`), `ReleaseWorkflowProofs`, `GcsObjectsProofs`, `QualityBuildProofs`, `BatchRunProofs`, `StreamDemoProofs` (also `LocalDemo`) | theorems about the modules they are named for | checked by TLAPS |
| `MC...` | instances for TLC | |

`ReleaseWorkflow` and `LocalReleases` extend `ReleaseRegistry`: an execution's call runs
the registry's own action, so nothing about the tables is stated twice.
`ReleaseWorkflow` uses of `BatchRun` what a batch run returns, the parts of a
completed manifest; `BatchRun` uses of `GcsObjects` that a copy answered for stands
and a repeated one accepts its own object.

### How state maps to code

**`ReleaseRegistry`.** `active`, `prior`: the row of `ops.active_release`. `status`,
`baseline`: `ops.release_registry`; `absent` is a row that is not there, `Bootstrap` the
row `__bootstrap__` that the first begin inserts. `files`: the rows of
`ops.release_files`, an object (`file_uri`) with its `verified_at` stamp; the other
columns are functions of the object, which is immutable in Bronze. `metrics`,
`results`: `quality.release_metrics` and `quality.release_results`, reduced to a
verdict and the files that were judged. Builds share relations, so a build may judge the files
of any releases (`BuildMetrics`), and an inner join of the halves of two releases leaves no
metrics (`MixRules`); a gate that passes judged rows of its own release in every source, the
coverage rule that `QualityBuild` shows to survive every interleaving. `shown` is a history variable, the view of
readers at promotion. The year of a release is part of its id
(`ReleaseExecution` rejects another), so the asserts on `reference_year` hold by
construction of the id. Timestamps other than `verified_at` are left out; what is
old enough for the cleanup is a free choice.

`Ancestry` is the set the recursive queries collect, as the least set closed under
baseline, with no recursion, so that the provers can work with it; `RollbackChain`
shows that the level-by-level walk of the SQL accepts exactly the registries whose
ancestry is sound; TLC checks it over every small registry and `RollbackChainProofs`
proves it for all. The view of a year, `NearestOf`, is the release of that year all
others of that year in the chain are ancestors of: the smallest `chain_level`.

**`LocalReleases`.** `local` is the store's dictionary of snapshots. It has no pointer, no
gate and no cleanup, so it is compared until a release is published or cleaned up. Each
call is made to both; `Recordable`, `Completable` and `Failable` are the asserts of the
registry's `record`, `complete` and `fail`, and a call they refuse leaves the registry as it is.

**`ReleaseWorkflow`.** `step` is the call an execution is at, `turn` the index of its loop
over the sources, `todo` the mappings its batch run has yet to record. `late` holds
the calls it gave up: the connector's timeout, or a poll that fails, does not stop the
Cloud Run job nor the BigQuery script. An id is drawn from a uuid, so an execution and its
release are one; a release whose execution never starts is one nobody asked for. The
rollback action of the workflow and the operator's cleanup run beside the executions. The
jobs have `max_retries` 0, so a job runs at most once. The history variable `crossed` holds the
releases whose build was at work together with another one, a build left by a call given up
included: such a build may judge the files of any of them (`Builds`), one alone those of its
release.

**`QualityBuild`.** A figure of the gate is represented by the release whose rows it
measured. `Start` covers begin, sources and complete of one execution (they touch
only rows of their own release). `CallFails` is a call that fails or is given up: the execution ends and its
dbt job stays in `working` until it has written its last model or dies (`JobStops`). An evaluation
or a promotion that commits after its call was given up is the same step taken before the
call fails, since nobody looks in between. The history variable `crossed` holds the releases
whose build wrote while another one that had begun to write was at work. Two of the six tables
stand for all: the two the rules that share state read.

**`BatchRun`.** A snapshot is a sequence of rows, a fingerprint the row count and the sum of
the rows' digests modulo `Modulus` (the code keeps two such sums of 256 bits). Both are
computed in the order the rows are read, part after part. `FingerprintAssumption` is what
SHA-256 stands for: the contents the source may have are told apart by their fingerprints
when each is exported as one part. That another order and another division into
parts give the same fingerprint is not assumed; it is proved. `landing`
is what the export job of each attempt wrote, in some order and some number of parts.
The attempt's uuid makes its landing prefix and its Bronze names its own. A checkpoint
is a manifest; its uri is `CheckpointUri`. The query and the contracted schema belong
to a deployment, so the run id depends on the content alone. A contracted column and an
added one show the drift rules.

**`GcsObjects`.** `object` is the destination, `landing` the source object's generation and
presence, `call` the state of each copy or write with the bytes it holds. A write whose
answer is lost is repeated by `retry_call`, meets its own object, and compares bytes. A refused
copy reads the generation of its source again, and it is there that it reuses or refuses what
the destination holds, as the store of the tests does in one step: that store looks at the
source first, and a copy of a changed one is stale whatever the destination holds. The
requests that follow, to inspect and compare, only find out which it was (`Tell`).

**`StreamDemo`.** A message is one acceptance by Pub/Sub of one record of the fixture for
one run; a retried publication is a second copy. A row is one delivery of a message.
`backlog` is what the subscription has not seen acknowledged. `latest` and `audit` are the two
incremental models, merged by their keys. `release` is the active release of the batch side, reduced to what
the demo reads of it: is it of the demo's year, and for which municipalities is its newest row of
that year, the rows the overlay joins. `outdated` holds the runs whose events a
promotion or rollback of the batch side passed. `late` is what the producer or the dbt job of a
call that was given up has still to do. `event_time` is `base_time` plus the position in
the fixture, so it is the pair of run and index.

## Runs

| run | instance | shows |
|---|---|---|
| `lineage` | 2 releases of a year and 1 of the next, 1 source, 1 object | the types, the pointer, the ancestry, the view after a rollback, frozen releases, no resurrection, no lost promotion, rollback never refused; the refinement of `ReleaseHistory` |
| `files` | 1 release, 2 sources, 3 objects of 2 runs of the first source, 2 stamps | what is published is complete, of one run per source, and passed its gate; the in-memory store agrees with the registry |
| `stale_gate` | 1 release, 1 source, 2 objects | *violation*, finding below |
| `rollback_sql` | every registry over 4 releases of 2 years, walk of 3 levels | the asserts accept exactly the sound chains, and the SQL moves the pointer as `Rollback` |
| `quality` | 2 executions with any defect, overlapping or one after the other, the job of a call given up at work beside the next | gates of one label, rows for what is published; a build that was alone at work has every figure of its release and publishes no defect |
| `quality_race` | the same | *violation*, finding below |
| `batch_run` | 2 attempts, overlapping or not, 2 contents with one digest sum, 3 schemas, 2 tries | checkpoints backed by Bronze, history immutable, one checkpoint per content, conflicts only with a rival, skips of the same content, every attempt ends |
| `batch_reverted` | 3 attempts, the source returns to its old content | *violation*, finding below |
| `batch_added` | a column of type DATE added | *violation*, finding below |
| `objects` | 2 copies and 1 write of one destination, 3 landing generations, the third with the bytes of the first, 3 tries | the refinement of `ObjectStore` |
| `workflow` | 2 executions of two years, 2 sources, a run of two parts | whole manifests, outcomes that stand, a gate of the published files for a build that was alone, every execution ends |
| `stream` | 2 runs overlapping; 2 runs one after the other, with jobs left at work; 1 run with those, a repeated publication or delivery, and promotions between 2 releases, one without the year of the demo; 3 records: two of one event, one refused; the local demo over the same records | routing, audit, evidence, orphan jobs, every run ends; the local demo agrees with the models |

Why the bounds suffice. *Registry*: a promotion lost, a resurrection or an ancestor
deleted needs a release in effect, one on top and one beside it, which three give;
two of the same year are needed for a correction, one of a later year for the order.
Releases of a year are interchangeable (symmetry; no run with symmetry checks
liveness). The files of different releases do not interact, so the run with several
objects has one release, and the one with several releases one object. The rollback
walk is cut at three levels so that chains of three and of four releases fall on
both sides of the limit, which is 400 in the code. *Batch runs*: two attempts give every
overlap of a pair, and the third of `batch_reverted` the return to an old content; the
two contents have one digest sum and differ in their row count, so that a fingerprint
that dropped either half would confuse them. *Objects*: a copy of a stale
generation, a copy of the current one and a writer with the same bytes meet on one
destination. *Workflow*: two executions are the overlap, and the source of two parts is last
in the loop, so a record call that stops half-way has no later source to hide behind.
*Stream*: the fixture has ten records, nine valid with one event twice; three keep one of
each kind. Promotions are checked with one run; that `EvidenceHolds` withstands promotions
between several runs is proved, for any number of them.

Bounds in guards: `MaxAttempt` (attempts of `BatchRun`), `MaxGeneration` (replacements of the landing object),
`MaxRedelivery` (local demo), and the record `mode` of `StreamDemo`, which also holds the
polls of one wait (60, 90, 36, 6 and 12 in the workflow), the messages that may be repeated,
whether runs may overlap, whether calls given up leave their jobs at work and whether the batch
side promotes. `MaximumAttempts` is the code's own limit of tries. Overlapping
runs of `StreamDemo` draw their clocks in the order they began.

Deadlock is not checked where the system really stops: executions, attempts, calls and runs
end, and a rollback of a damaged registry is refused. It is in `lineage` and `files`.

Every property has a mutant of the code's model that TLC shows to violate it;
`PROJECT.json` lists them, and they are defined beside the action they change.

### Fairness

* `ReleaseWorkflow`: weak fairness of `CallEnds`, one execution's call returning,
  raising or being given up. The connector waits 3900 seconds and then raises, a job is
  stopped after 3600 (`modules/runtime/main.tf`), so a call always ends. Jobs given up are
  not assumed to end.
* `BatchRun`: weak fairness of each running attempt's next step, a lost answer or a crash
  counting as a step. Every call has a timeout and `retry_call` a bounded number of tries.
* `StreamDemo`: weak fairness of each execution's next step. Dataflow, Pub/Sub, the
  publications' acceptance and the promotions promise nothing.

## Findings

* **Builds at work together share the gate's tables** (`quality_race`).
  `release_volume_metric` has no `release_id`, so the gate of a release can take the volume
  that another build at work measured in between: the run publishes a release whose volume
  collapsed, on the other's volume, which README.md:148-149 excludes. The percentages and the
  repetitions, read through a table and a view the builds share, are exposed alike. It takes
  two builds at work together, of overlapping executions or of one that ended with its call
  given up and its job running; a build that was alone (`GateMeasuresItsRelease`) has the right
  gate. The label check of the evaluation (`GateCarriesOneLabel`) and the coverage
  rule (`PublishedHasRows`) hold in spite of the overlap.
* **A reopened release keeps its old gate** (`stale_gate`). begin of a failed id
  deletes its files but not its metrics and results, so evaluate and promote can
  accept the files of the second attempt on the figures of the first. It takes the release
  commands run by hand: the workflow draws a new id for each execution, and under it the
  same is checked (`workflow`) and proved (`LoneGateOfItsFiles`) of every release whose build was
  alone.
* **A source that returns to old content is stuck** (`batch_reverted`). The run id is that of
  the content, its completed checkpoint exists, and the latest manifest is another: the run is
  planned, copied and ends in `ManifestConflictError`, at every attempt. README.md:83-85
  promises a snapshot for every change that is not skipped.
* **An added column can stop the capture** (`batch_added`). The metadata are converted before
  the drift check, and a type outside the contract's five raises, also for a column the
  contract does not have. docs/data-catalog.md:69-70 calls added columns not blocking.

Two things met on the way are design choices rather than disagreements. A publication that is
retried makes the duplicate audit count two and the demo fail, although its data are right
(`EvidenceHolds` excludes it by name, as it does a promotion or rollback that ages the events out
of the overlay or leaves it without rows of their year; docs/runbooks.md asks for retries to be tolerated in the
tables, and there they are). A begin that was given up and commits after the cleanup leaves a
row `running` that no cleanup deletes; it is never published (`OutcomeStands`).

## Proofs

### `ReleaseRegistryProofs`

For all finite and infinite sets of releases, years,
sources and objects, from the four named assumptions of `ReleaseRegistry` (bootstrap
and null are not release ids, years are numbers, every object has a source, the depth
is a number):

1. `TypeCorrect`: `TypeOK` is inductive.
2. `PointerCorrect`: `PointerMatchesRegistry` is inductive with the types.
3. `PublishedStaysFrozen`: from the guards, each action in turn; the cleanup needs
   the types only, because it takes failed and succeeded rows.
4. `LineageCorrect`: `LineageIntact` is inductive. Promotion adds one published
   release (`PromoteAddsOne`) whose baseline is the active one, and a set of published
   releases closed under baseline cannot contain it; every other action leaves the
   published ones as they are.
5. `ViewRestored`: the induction is on the stronger fact that *every* published
   release has `shown` equal to its public view. Ancestry depends on the baselines of
   a set closed under them (`AncestryStable`), the published releases are such a set,
   and their baselines do not change.
6. `RolledBackStaysOut`, `NothingLost`: the chain of a promoted release is itself and
   the chain of its baseline (`AncestryStep`); that of a rollback's target lies within
   the former chain (`AncestryNested`).
7. `RollbackAccepted`: each assert of the rollback follows from the pointer and
   lineage invariants, up to the depth of the walk.
8. `PublishedIsComplete`, `GatePassed`: the strengthening speaks of succeeded releases
   too: what complete checked still holds, because record refuses a new object and
   only begin of a failed release clears them.

### `ReleaseRefinementProofs`

`RegistryImplementsHistory`: under the same assumptions, for any number of releases and
years, every step of `ReleaseRegistry` is a step of `ReleaseHistory` or a stutter. Its
history ranks the chain of the active release by cardinality; the proof works with any
sequence that lists the chain (`Line`) and shows that ranking gives that sequence
(`LineIsOrder`). The induction adds to the pointer and lineage invariants that the chain can
be listed at all (`Listed`): it is empty at first, a promotion appends to its list
(`LineAppend`), a rollback cuts it (`LineCut`), and nothing else touches it (`LineStable`).
That years grow along a chain (`YearsGrow`) gives the guard of `Publish`, and with the
choice of the nearest release of the year that of `RollBack`.

### `ReleaseWorkflowProofs`

From the same assumptions and `CatalogListed` (the loop lists every source):

1. `WorkflowTypeCorrect`, and `WorkflowUsesRegistry`: every behaviour of the workflow is one of
   `ReleaseRegistry`, so the theorems above hold of it.
2. `WorkflowInvariant`: the inductive invariant `WorkflowInv`. `WholeManifests` alone is
   not inductive: a state where a release completes while a job given up still records its
   parts satisfies it and a step breaks it. The strengthening is that an execution, with the jobs it gave up,
   *collects* files (its begin or a batch run is pending) or *completes* (a later call is
   pending, or the release has left `running` for good), and never both, because an
   error goes to the cleanup and from there to no other call. So while it collects nothing is
   published, and once it completes its files do not change and are whole.
3. `ManifestsWhole`, `OutcomesStand` and, with `GatePassed`, `LoneGateOfItsFiles` follow. The
   invariant keeps for the last one that only a release past its collecting is ever in
   `crossed`, and that a gate of a release outside it judged files which no longer change.

### `GcsObjectsProofs`

From `ClientAssumption` (copies and writes are different calls, there is a try and a
generation), for any number of calls, generations and tries:

1. `TypeCorrect`.
2. `ReasonsHold`: the inductive invariant `Reasons` records why each program point is
   reached: the object a call downloaded is still there, since nobody overwrites it; the
   precondition that refused a copy was the source's or the destination's.
3. `StoreImplemented`: under the mapping of program points to `new`, `chosen`, `reused`, `refused`
   and the outcomes, every step is a step of `ObjectStore` or a stutter. A refused copy takes
   effect in the abstract store when it reads its source's generation again (`Recheck`): it is
   current there, as the abstract store demands, and the destination, which by `Reasons` is taken, is
   never written again, so what the comparison finds later was already decided. A writer's
   refusal takes effect at its upload.
4. `AnswersTold`: what the abstract store's answers mean holds of the detailed one.

### `QualityBuildProofs`

From `ReleaseAssumption`, for any set of releases, executions that overlap and jobs left at work:

1. `TypeCorrect`.
2. `OneLabel`: only an evaluation files a gate, and the inner join it reads has one label.
3. `RowsOfPublished`: inductive invariant `RowsInv`. Rules that found a release covered,
   whether in the audit, in the metrics or in a gate filed, measured a release with rows in
   both silver tables whose silver models are built; a build writes each model once
   and another release's build only replaces its own rows, so the rows stay (`RowsStay`).
4. `LoneGate`: as long as no other build wrote beside it (`crossed`), a build reads back
   what it wrote: the staging views, the volume, the percentages and the rules carry it from the
   moment it wrote them until it ends (`ReadsBack`). So each figure of its gate measured its
   release, and a release with a defect is blocked; overlap breaks this (the violation
   run), and so does a job left at work, which is why the condition speaks of builds, not of
   executions.

### `BatchRunProofs`

For any number of attempts and tries, any contents and schemas; a fingerprint is any
function of the parts. `BatchInvariant` proves the inductive invariant `BatchInv`:

* every object in Bronze and every checkpoint is the one its attempt writes, from the
  landing parts and the run id that attempt still has (`BronzeNamed`, `CheckpointNamed`), so
  two things of one name are one thing;
* what an attempt counts as copied is there, and it completes only past its last part
  (`ProgressTrue`);
* attempts start in order and, without overlap, one after the other (`InOrder`), so
  nothing completes between the plan that skips and the manifest it returns (`Returns`);
* the completed manifests have a latest one (`HasLatest`), each completion adding one.

`CheckpointsBacked`, `HistoryStands` and `ReturnsItsContent` follow. The rest speaks of contents,
and needs what the fingerprint computes:

* The identity of a part and the fingerprint are recursive functions over positions.
  `RecursionExists` shows by `LeastNumber` (least counterexample) that such a function exists and
  obeys its equation, and `IdentityCounts` and `FingerprintCounts` find what it comes to: the sum is
  the number, modulo `Modulus`, of the *units* of the places of the snapshot, a place having
  as many units as its row's digest. A count does not see an order, so a bijection of places
  that keeps the row keeps the fingerprint (`PairedPrint`).
* Hence equal counts of rows give equal fingerprints (`ContentPrint`), and every export of a
  content has the fingerprint of the content as one part (`ExportPrint`): the orders and the
  cuts into parts of `Exports` are such bijections.
* `BatchTypes` (`TypeOK`). The bound of `clock` is the only part that is not plain: `Clocked` counts
  the attempts that drew a completion time, each at most once, and they are at most `MaxAttempt`.
  `Landed` says that what an attempt exported is a content the source had.
* `OneCheckpoint` (`OneCheckpointPerContent`): equal counts give equal runs, two
  completed manifests of one run have one uri, and names tell checkpoints apart.
* `ConflictsHaveRivals` (`ConflictNeedsRival`): that a conflict has a rival is part of
  `BatchInv`. That attempts which do not overlap, over contents that do not return,
  never conflict is inductive only with two more facts. `InTurn`: the exports of one content
  follow one another with no other in between. `Fresh`: an attempt past its plan has a
  content no other attempt completed. The step to show is the plan (`PlanIsFresh`): if another
  attempt completed this content, then by `InTurn` and `Clocked` the *latest* completed manifest has it
  too, so the attempt would have been skipped. `batch_reverted` is what happens
  without the hypothesis.

### `StreamDemoProofs`

From `FixtureAssumption` (the fixture is a sequence), `ModesAssumption` (a wait has a poll) and
`ReleasesAssumption` (what a release is), for any runs that overlap or not, and any releases:

1. `TypeCorrect`, with the ingestions of each message finite, so the next one has a number.
2. `MessagesRouted`: every row, not only every message, is in the table its content calls for.
3. `CleanupInvariant`: for each place of the control what the execution knows of its job (an
   id is held only of a job that started, a cancelled job never goes back), whence
   `OrphansExplained`.
4. `SuccessShown`: what a run has sent is a prefix of the fixture, all of it once it
   checks the stages; the poll that found the backlog empty puts it in the tables,
   where it stays while other runs, redeliveries and jobs left at work go on. A run still at
   work has left nothing itself (`OwnLate`).

With `RunAssumption` (base times are instants, so runs are numbers) and `DemoAssumption` (in the
fixture each municipality belongs to one event among the accepted records, and exactly one
accepted record is superseded by a later one of its event):

5. `AuditRest` (`AuditIsTheRest`). The inductive invariants are `StagedInv`: the deliveries of a
   message are numbered without gap, every event with staged messages has one that is in front of
   the others (`AheadOrder`: event and publish time order the messages totally), and each
   model holds nothing but staged messages, the audit only ones that another is ahead of; `TurnInv`:
   executions that do not overlap take turns in the order of their runs, and one
   that ended with its job left no job at work that stages rows; `BuiltInv`: a model built by a run that is alone is
   that of the staged rows, until the run leaves the evidence. `BuiltInv` is not inductive
   without `TurnInv`, because another job's delivery would stage a row after the build. A dbt job that a failed run left
   at work merges the same staged rows, so it may come between any two steps of the run alone
   and changes nothing (`AuditIsTheRest` and `EvidenceHolds` hold with it).
6. `EvidenceShown` (`EvidenceHolds`): with an empty backlog, nothing of its own repeated, no promotion
   past its events and an active release with the rows to overlay (`Covered`), every
   accepted record of the run is staged once and nothing of a later run is (`Settled`). The run's
   messages are then in front in every event, which gives the rows of the overlay, and the one record
   `DemoAssumption` counts is the one audited copy. `demo.json` satisfies the
   assumption, and the workflow, which expects exactly one audited copy, relies on it.
7. `LocalAgrees` (`LocalAgreesWithModels`): the local demo keeps, for each event, the message in
   front of those it has seen and audits the rest (`LocalInv`), which is what the two rankings
   select. One valid row per event is a bijection between events seen and messages shown.

### `RollbackChainProofs`

From the assumptions of `ReleaseRegistry`, for any registry, sound or damaged, over any sets of
releases and years:

1. The recursive walk is a function of the level (`WalkIsRecursive`, by `EveryNat`), and
   whatever the registry holds its levels are a path up the baselines, which ends at the bound, at a
   cycle, at the bootstrap or at a missing row (`WalkLevels`).
2. `PathInChain`, `PathIsChain`: the walk stays in `Ancestry`, and lists it if it ends. A
   release met twice shows in the `has_cycle` of the last level (`RepeatIsCycle`); on a path
   without repetition the levels are as many as the releases (`PathCount`), which
   `AssertsOnPath` turns the SQL's asserts into.
3. `AssertsAreSound` and `AssertsAdmitSound`, one direction each, give `AssertsCompleteAlways`
   (`AssertsAreComplete`): a registry passes the asserts exactly when its chain is sound and
   no longer than the recursion's depth.
4. `QueryIsRollback` (`SqlRollbackIsRollback`): on a registry that passes them, the release of
   least `chain_level` of the year is the nearest (`TargetIsNearest`), so every step of
   the SQL is a `Rollback` of the registry's model.

### `LocalReleases`, in `ReleaseRefinementProofs`

`LocalStoreCorrect` (`LocalStoreAgrees`): one case per call, the registry's effect and the
store's answer side by side (`CallAgrees`).
`LocalInv` adds to the agreement that a release neither store has was given no mapping. No step
unpublishes a release (`StepKeepsPublished`), so one that left the comparison never comes
back to it.

### Assumptions

Every theorem rests on the named assumptions of its constants and on nothing else, and TLC
evaluates each of them in a run: the four of `ReleaseRegistry`; `CatalogListed` (`ReleaseWorkflow`);
`ClientAssumption` (`GcsObjects`); `ReleaseAssumption` (`QualityBuild`); those of `BatchRun` on its
bounds, digests and contents, with `FingerprintAssumption` and
`NoneAssumption` (null is not a manifest); `FixtureAssumption`, `RunAssumption`,
`ModesAssumption`, `ReleasesAssumption` and `DemoAssumption` of the stream.

### What stays with TLC

Every invariant and every safety property of the passing runs is a theorem. What stays are the
three liveness properties (`EveryExecutionEnds`, `EveryAttemptEnds`, `EveryDemoEnds`): they
need fairness and `ENABLED`, which the prover does not handle. Induction over data is done in set
form, by least counterexample from well-foundedness of the numbers (`LeastNat`, `LeastNumber`):
the library's induction theorems take an operator as a parameter, which the installed
provers cannot instantiate. The findings are counterexamples, found by TLC.

## Not modelled

* The columns and arithmetic of dbt models, normalisation, rendering of SQL and command lines,
  wiring, costs, schema files and Terraform: no order of steps is at stake. The rules of
  the gate that read only rows of their own release are like the four modelled.
* BigQuery transactions are atomic here; interleavings of statements under snapshot isolation
  are not.
* The DuckDB macros and `evaluate_release.sql` are a local harness and an operator's copy with
  the same asserts. `sql/streaming/*.sql` and `streaming/workflow_state.py` are read by
  tests only; the latter goes on polling where the workflow gives up on a job that drained
  while it waited for RUNNING.
* Lifecycles: the landing bucket keeps exports 7 days and manifests live 730 days, longer than
  an attempt; the streaming tables' expiry.
* In `StreamDemo`: the raw archive; the dead letter topic, where the subscription's policy puts
  a message after five deliveries (`modules/streaming/main.tf:92-95`), so `RoutedOnce` is of a
  subscription that keeps what is not acknowledged; the delay of the backlog metric, a message without an id, ties of `event_time`, which the
  fixture's positions exclude, and a discovery that meets two jobs of one name and label (one of the
  reasons the search may be given up). A promotion within the seconds over which the event
  times of a run spread is taken to pass them all. Base times are in the order of the runs,
  unless a run left its producer at work, and then the next one is not `Alone`.

## Plan

1. Snapshot isolation: begin and promote as statements that read at one time and commit at
   another, refining the transactions of `ReleaseRegistry`.
2. The verdicts of the thirteen rules at their thresholds.
3. Proofs: that `ReleaseWorkflow` and `BatchRun` compose, a manifest the runner completed
   being the one record() is given.
