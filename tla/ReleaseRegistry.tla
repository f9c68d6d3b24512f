---------------------------- MODULE ReleaseRegistry ----------------------------
(***************************************************************************)
(* The release control tables of the batch pipeline and the BigQuery       *)
(* transactions that write them.  Each operation of the code is one        *)
(* multi-statement transaction whose failed ASSERT aborts it, so each is   *)
(* one action here: the asserts are its guard, the DML its effect.         *)
(*                                                                         *)
(*   active, prior     ops.active_release, the singleton pointer row       *)
(*   status, baseline  ops.release_registry, one row per release           *)
(*   files             ops.release_files, the Bronze objects of a release  *)
(*   metrics           quality.release_metrics, rewritten by each dbt build*)
(*   results           quality.release_results, the persisted gate         *)
(*                                                                         *)
(* Time is left out: a row is old enough for the cleanup or not, as the    *)
(* cleanup's nondeterministic choice.                                      *)
(***************************************************************************)
EXTENDS Naturals, FiniteSets

CONSTANTS
    Release,        \* release ids; an id carries its year, see ReleaseYear
    Year,           \* reference years
    ReleaseYear,    \* the year inside each release id
    Source,         \* the source catalog (six tables in the code)
    Object,         \* Bronze objects, immutable once written
    SourceOf,       \* the source table of each Bronze object
    RunOf,          \* the batch run that wrote each Bronze object
    Stamp,          \* verified_at values a manifest may carry
    MaxChainLevel,  \* deepest chain level a rollback accepts (400)
    Bootstrap,      \* the '__bootstrap__' registry row
    None            \* SQL null

ASSUME IdentityAssumption ==
    /\ Bootstrap \notin Release
    /\ None \notin Release \cup {Bootstrap}

ASSUME YearAssumption ==
    /\ Year \subseteq Nat
    /\ ReleaseYear \in [Release -> Year]

ASSUME CatalogAssumption == SourceOf \in [Object -> Source]

ASSUME LevelAssumption == MaxChainLevel \in Nat

VARIABLES active, prior, status, baseline, files, metrics, results

\* History variable: the public view readers had when a release was promoted.
VARIABLE shown

vars == <<active, prior, status, baseline, files, metrics, results, shown>>
registryVars == <<status, baseline>>
pointerVars == <<active, prior>>
qualityVars == <<metrics, results>>

----------------------------------------------------------------------------
(* Types.                                                                  *)

Node == Release \cup {Bootstrap}
Status == {"absent", "running", "succeeded", "active", "inactive", "failed"}
Mapping == Object \X Stamp
Gate == [verdict : {"pass", "block"}, judged : SUBSET Mapping]
NoGate == [verdict |-> "none", judged |-> {}]
NoMetrics == [release |-> None, verdict |-> "none", judged |-> {}]
View == [Year -> SUBSET Release]

TypeOK ==
    /\ active \in Node \cup {None}
    /\ prior \in Node \cup {None}
    /\ status \in [Node -> Status]
    /\ baseline \in [Release -> Node \cup {None}]
    /\ files \in [Release -> SUBSET Mapping]
    /\ metrics \in [release : Release, verdict : {"pass", "block"}, judged : SUBSET Mapping]
                   \cup {NoMetrics}
    /\ results \in [Release -> Gate \cup {NoGate}]
    /\ shown \in [Release -> View]

----------------------------------------------------------------------------
(* What the recursive queries compute over the column b of baselines.  The *)
(* recursion collects the least set that holds the starting release and,   *)
(* with each release, the baseline of that release.                        *)

ClosedUnder(b, S) == \A r \in S : b[r] \in Release => b[r] \in S

Ancestry(b, head) ==
    {r \in Release : \A S \in SUBSET Release :
        ({head} \cap Release) \subseteq S /\ ClosedUnder(b, S) => r \in S}

OfYear(b, head, y) == {r \in Ancestry(b, head) : ReleaseYear[r] = y}

\* Mutant: the deepest release of the year instead of the nearest.
OldestOf(b, head, y) ==
    {t \in OfYear(b, head, y) : OfYear(b, head, y) \cap Ancestry(b, t) = {t}}

\* The release of a year with the smallest chain_level: every other release of
\* that year in the chain is one of its own ancestors.
NearestOf(b, head, y) ==
    {t \in OfYear(b, head, y) : OfYear(b, head, y) \subseteq Ancestry(b, t)}

Chain(head) == Ancestry(baseline, head)

\* What the gold_public views select: per year, the nearest release of the chain,
\* a set with one member or none.
PublicView(head) == [y \in Year |-> NearestOf(baseline, head, y)]

Published == {r \in Release : status[r] \in {"active", "inactive"}}

PriorOf(r) == IF baseline[r] = Bootstrap THEN None ELSE baseline[r]

SourcesOf(S) == {SourceOf[m[1]] : m \in S}

OneRunPerSource(S) ==
    \A m, n \in S : SourceOf[m[1]] = SourceOf[n[1]] => RunOf[m[1]] = RunOf[n[1]]

----------------------------------------------------------------------------
(* Operations of the batch job on the registry (BigQueryReleaseStore).     *)

Init ==
    /\ active = None
    /\ prior = None
    /\ status = [n \in Node |-> "absent"]
    /\ baseline = [r \in Release |-> None]
    /\ files = [r \in Release |-> {}]
    /\ metrics = NoMetrics
    /\ results = [r \in Release |-> NoGate]
    /\ shown = [r \in Release |-> [y \in Year |-> {}]]

\* The pointer begin() works with: it inserts the bootstrap row if there is none.
HeadAtBegin == IF active = None THEN Bootstrap ELSE active

\* Statuses in which begin() leaves an existing row alone, and in which record()
\* and complete() accept a call.
Open(r) == status[r] \in {"running", "succeeded", "active", "inactive"}

Begin(r) ==
    /\ active' = HeadAtBegin
    /\ status' = [status EXCEPT ![Bootstrap] = IF active = None THEN "active" ELSE @,
                                ![r] = IF Open(r) THEN @ ELSE "running"]
    /\ baseline' = [baseline EXCEPT ![r] = IF Open(r) THEN @ ELSE HeadAtBegin]
    /\ files' = [files EXCEPT ![r] = IF status[r] = "failed" THEN {} ELSE @]
    /\ UNCHANGED <<prior, qualityVars, shown>>

\* Mutant: a terminal release still takes new mappings.
RecordAfterComplete(r, object, stamp) ==
    /\ Open(r)
    /\ files' = [files EXCEPT ![r] = @ \cup {<<object, stamp>>}]
    /\ UNCHANGED <<pointerVars, registryVars, qualityVars, shown>>

\* The asserts of record(), of complete() and of fail().
Recordable(r, object, stamp) ==
    /\ Open(r)
    /\ \A v \in Stamp : <<object, v>> \in files[r] => v = stamp
    /\ status[r] = "running" \/ <<object, stamp>> \in files[r]

Completable(r) ==
    /\ Open(r)
    /\ SourcesOf(files[r]) = Source
    /\ OneRunPerSource(files[r])

Failable(r) == status[r] \in {"running", "succeeded", "failed"}

\* One Bronze object of a completed manifest, in a transaction of its own.
Record(r, object, stamp) ==
    /\ Recordable(r, object, stamp)
    /\ files' = [files EXCEPT ![r] = @ \cup {<<object, stamp>>}]
    /\ UNCHANGED <<pointerVars, registryVars, qualityVars, shown>>

\* Mutant: the release takes the batch status name.
CompleteWithBatchStatus(r) ==
    /\ Open(r)
    /\ SourcesOf(files[r]) = Source
    /\ status' = [status EXCEPT ![r] = IF @ = "running" THEN "completed" ELSE @]
    /\ UNCHANGED <<pointerVars, baseline, files, qualityVars, shown>>

Complete(r) ==
    /\ Completable(r)
    /\ status' = [status EXCEPT ![r] = IF @ = "running" THEN "succeeded" ELSE @]
    /\ UNCHANGED <<pointerVars, baseline, files, qualityVars, shown>>

\* Mutant: cleanup after an error fails a release that was promoted meanwhile.
FailPublished(r) ==
    /\ status[r] # "absent"
    /\ status' = [status EXCEPT ![r] = "failed"]
    /\ UNCHANGED <<pointerVars, baseline, files, qualityVars, shown>>

\* Mutant: no assert tells the caller that no row became failed.
FailUnasserted(r) ==
    /\ status' = [status EXCEPT ![r] = IF @ \in {"running", "succeeded"} THEN "failed" ELSE @]
    /\ UNCHANGED <<pointerVars, baseline, files, qualityVars, shown>>

Fail(r) ==
    /\ Failable(r)
    /\ status' = [status EXCEPT ![r] = "failed"]
    /\ UNCHANGED <<pointerVars, baseline, files, qualityVars, shown>>

----------------------------------------------------------------------------
(* Operations of the dbt job.                                              *)

\* dbt build replaces the whole release_metrics table with thirteen rules labelled r,
\* which counted the rows of the mappings judged.  A rule may block for reasons outside
\* the tables (freshness, the directory), so the verdict is open, but required_keys
\* counts the files of r, and blocks when a source is absent.
Judge(r, judged) ==
    /\ \E verdict \in {"pass", "block"} :
        /\ verdict = "pass" => files[r] \subseteq judged /\ SourcesOf(files[r]) = Source
        /\ metrics' = [release |-> r, verdict |-> verdict, judged |-> judged]
    /\ UNCHANGED <<pointerVars, registryVars, files, results, shown>>

\* The two halves of the table come from two builds: no release has thirteen rules.
MixRules ==
    /\ metrics' = NoMetrics
    /\ UNCHANGED <<pointerVars, registryVars, files, results, shown>>

\* The mappings of some of the releases in S.
MappingsOf(S) == {UNION {files[r] : r \in T} : T \in SUBSET S}

\* Builds share the relations their rules read.  Which rows those that overlap hand
\* each other is the matter of QualityBuild; here any of them.
BuildMetrics(r) == MixRules \/ \E judged \in MappingsOf(Release) : Judge(r, judged)

\* Mutant: the evaluation does not look at the state of the release.
EvaluateAnyState(r) ==
    /\ metrics.release = r
    /\ results' = [results EXCEPT
                    ![r] = [verdict |-> metrics.verdict, judged |-> metrics.judged]]
    /\ UNCHANGED <<pointerVars, registryVars, files, metrics, shown>>

\* Mutant: the rules are counted whatever release they are labelled with.
EvaluateAnyLabel(r) ==
    /\ status[r] = "succeeded"
    /\ baseline[r] # None
    /\ results' = [results EXCEPT
                    ![r] = [verdict |-> metrics.verdict, judged |-> metrics.judged]]
    /\ UNCHANGED <<pointerVars, registryVars, files, metrics, shown>>

Evaluate(r) ==
    /\ status[r] = "succeeded"
    /\ baseline[r] # None
    /\ metrics.release = r
    /\ results' = [results EXCEPT
                    ![r] = [verdict |-> metrics.verdict, judged |-> metrics.judged]]
    /\ UNCHANGED <<pointerVars, registryVars, files, metrics, shown>>

\* The asserts of promote_release about the tables as they are, before it looks at
\* the candidate.
PointerResolves ==
    /\ active # None
    /\ prior # active
    /\ status[active] = "active"
    /\ prior # None => status[prior] = "inactive"

\* Mutants: promotion without the comparison with the baseline, without the year
\* order, or of an inactive release.
PromotableOnAnyBaseline(r) ==
    /\ status[r] = "succeeded"
    /\ active # Bootstrap => ReleaseYear[active] <= ReleaseYear[r]
    /\ results[r].verdict = "pass"

PromotableInAnyOrder(r) ==
    /\ status[r] = "succeeded"
    /\ baseline[r] = active
    /\ results[r].verdict = "pass"

PromotableAgain(r) ==
    /\ status[r] \in {"succeeded", "inactive"}
    /\ baseline[r] = active
    /\ results[r].verdict = "pass"

Promotable(r) ==
    /\ status[r] = "succeeded"
    /\ baseline[r] = active
    /\ active # Bootstrap => ReleaseYear[active] <= ReleaseYear[r]
    /\ results[r].verdict = "pass"

Promote(r) ==
    /\ PointerResolves
    /\ Promotable(r)
    /\ active' = r
    /\ prior' = IF active = Bootstrap THEN None ELSE active
    /\ status' = [status EXCEPT ![r] = "active", ![active] = "inactive"]
    /\ shown' = [shown EXCEPT ![r] = PublicView(r)]
    /\ UNCHANGED <<baseline, files, qualityVars>>

\* Promoting the active release again changes nothing.
PromoteReplay(r) ==
    /\ PointerResolves
    /\ r = active
    /\ UNCHANGED vars

----------------------------------------------------------------------------
(* Rollback by year, and the cleanup script of the operator.               *)

\* The asserts of rollback_release on the chain of the active release.
RollbackChecks ==
    /\ {n \in Node : status[n] = "active"} = {active}
    /\ prior = PriorOf(active)
    /\ Cardinality(Chain(active)) <= MaxChainLevel + 1
    /\ \E r \in Chain(active) : baseline[r] = Bootstrap
    /\ \A r \in Chain(active) \ {active} : status[r] = "inactive"
    /\ \A r \in Chain(active) :
        baseline[r] \in Chain(active) => ReleaseYear[baseline[r]] <= ReleaseYear[r]

\* Mutants: the pointers are swapped, or the rows keep their status.
RollbackSwapsPointers(y) ==
    /\ active \in Release
    /\ y <= ReleaseYear[active]
    /\ \E target \in NearestOf(baseline, active, y) :
        /\ active' = target
        /\ prior' = active
        /\ status' = [status EXCEPT ![active] = "inactive", ![target] = "active"]
    /\ UNCHANGED <<baseline, files, qualityVars, shown>>

RollbackKeepsStatus(y) ==
    /\ active \in Release
    /\ RollbackChecks
    /\ \E target \in NearestOf(baseline, active, y) :
        /\ active' = target
        /\ prior' = PriorOf(target)
    /\ UNCHANGED <<registryVars, files, qualityVars, shown>>

Rollback(y) ==
    /\ active \in Release
    /\ y <= ReleaseYear[active]
    /\ RollbackChecks
    /\ \E target \in NearestOf(baseline, active, y) :
        /\ active' = target
        /\ prior' = PriorOf(target)
        /\ status' = [status EXCEPT ![active] = "inactive", ![target] = "active"]
    /\ UNCHANGED <<baseline, files, qualityVars, shown>>

\* Mutant: cleanup spares the pointers only, and takes inactive rows too.
DeletableInactive ==
    {r \in Release : status[r] \in {"failed", "succeeded", "inactive"}
                     /\ r \notin {active, prior}}

\* Rows the cleanup may delete once they are old enough.
Deletable ==
    {r \in Release : /\ status[r] \in {"failed", "succeeded"}
                     /\ r \notin Chain(active) \cup Chain(prior)}

\* One transaction deletes the files and the rows of the releases in old.
Cleanup(old) ==
    /\ active # None
    /\ old \subseteq Deletable
    /\ files' = [r \in Release |-> IF r \in old THEN {} ELSE files[r]]
    /\ status' = [n \in Node |-> IF n \in old THEN "absent" ELSE status[n]]
    /\ baseline' = [r \in Release |-> IF r \in old THEN None ELSE baseline[r]]
    /\ UNCHANGED <<pointerVars, qualityVars, shown>>

----------------------------------------------------------------------------

Next ==
    \/ \E r \in Release :
        \/ Begin(r)
        \/ \E object \in Object, stamp \in Stamp : Record(r, object, stamp)
        \/ Complete(r)
        \/ Fail(r)
        \/ BuildMetrics(r)
        \/ Evaluate(r)
        \/ Promote(r)
        \/ PromoteReplay(r)
    \/ \E y \in Year : Rollback(y)
    \/ \E old \in SUBSET Release : Cleanup(old)

Spec == Init /\ [][Next]_vars

----------------------------------------------------------------------------
(* Properties.                                                             *)

\* The pointer row and the registry agree in every state: exactly one row is
\* active, the pointer names it, and prior_release_id is the baseline of that row
\* (null above the bootstrap).  promote and rollback assert parts of this and
\* would refuse every later call if it ever broke.
PointerMatchesRegistry ==
    /\ active = None => \A n \in Node : status[n] \notin {"active", "inactive"}
    /\ active # None => {n \in Node : status[n] = "active"} = {active}
    /\ prior = IF active \in Release THEN PriorOf(active) ELSE None
    /\ status[Bootstrap] \in {"absent", "active", "inactive"}

\* The ancestry of what was published is sound: baselines of published releases
\* are published (or the bootstrap), years never decrease along it, and no set of
\* published releases is closed under baseline, so the recursion ends.
LineageIntact ==
    /\ \A r \in Published : baseline[r] \in Published \cup {Bootstrap}
    /\ \A r \in Published : baseline[r] \in Release =>
        ReleaseYear[baseline[r]] <= ReleaseYear[r]
    /\ \A S \in SUBSET Published : S # {} => \E r \in S : baseline[r] \notin S

\* Going back to a release gives readers exactly the view they had when that
\* release was promoted, whatever was promoted, failed, reopened or cleaned up
\* in between (README: rollback points at the effective version of the year).
RollbackRestoresView ==
    active \in Release => PublicView(active) = shown[active]

\* A published release keeps one run for each source of the catalog.
PublishedComplete ==
    \A r \in Published : SourcesOf(files[r]) = Source /\ OneRunPerSource(files[r])

\* Once published, a release stays published and the Bronze objects it selects
\* never change: no reopen, late record, failure or cleanup touches it.
PublishedFrozen ==
    [][\A r \in Published : r \in Published' /\ files'[r] = files[r]]_vars

\* A release rolled back out of the active chain never comes back into it
\* (runbooks: a shortcut "pode ressuscitar release ja revertido").
NoResurrection ==
    [][\A r \in Published \ Chain(active) : r \notin Chain(active)']_vars

\* Unless the pointer moves to an ancestor (a rollback), a move of the pointer
\* keeps every year readers see, but for the year of the new release: no
\* concurrent promotion is lost from the public view.
PromotionLosesNothing ==
    [][active' \notin Chain(active) \cup {active, Bootstrap} =>
        \A y \in Year \ {ReleaseYear[active']} :
            PublicView(active)'[y] = PublicView(active)[y]]_vars

\* A business release is always there to roll back from: none of the structural
\* asserts of rollback_release can refuse, whatever happened before, as long as
\* the chain is no deeper than the recursion goes.
RollbackNeverRefused ==
    active \in Release /\ Cardinality(Chain(active)) <= MaxChainLevel + 1
        => RollbackChecks

\* Every published release keeps a passing gate that judged all the sources: the
\* gate cannot be rewritten once the release is out of 'succeeded'.
PublishedGatePassed ==
    \A r \in Published :
        results[r].verdict = "pass" /\ SourcesOf(results[r].judged) = Source

\* The gate of a published release was computed from the files it publishes
\* (runbooks: confirm "release candidato completo, regras bloqueantes verdes").
GateJudgesPublishedFiles ==
    \A r \in Published : results[r].judged = files[r]
==============================================================================
