--------------------------- MODULE QualityBuildProofs ---------------------------
(***************************************************************************)
(* Theorems about QualityBuild for any set of releases and any number of   *)
(* executions that overlap or leave a job at work.                         *)
(***************************************************************************)
EXTENDS QualityBuild, TLAPS

USE ReleaseAssumption

----------------------------------------------------------------------------
(* Types.                                                                  *)

\* A figure is of the release that measured, or of none.
LEMMA MeasuredType ==
    ASSUME NEW r \in Release, NEW present
    PROVE  Measured(r, present) \in Owner
    BY DEF Measured, Owner

\* The models of a table are models.
LEMMA ModelTypes == \A t \in Table : Stg[t] \in Model /\ Silver[t] \in Model
    BY DEF Model

\* No two models have one name.
LEMMA ModelNames ==
    /\ \A t, u \in Table : Stg[t] # Silver[u]
    /\ \A t, u \in Table : t # u => Stg[t] # Stg[u] /\ Silver[t] # Silver[u]
    /\ \A t \in Table : {Stg[t], Silver[t]} \cap
            {"volume", "percentage", "core", "operational", "metrics"} = {}
    BY DEF Table, Stg, Silver

LEMMA TypeInit == Init => TypeOK
    BY DEF Init, TypeOK, Owner, Core, Operational, Gate, NoGate

\* A build writes one model more, and crosses releases only.
LEMMA BuildTypes ==
    ASSUME TypeOK, NEW r \in Release, NEW model \in Model, NEW references,
           Build(r, model, references)
    PROVE  built' \in [Release -> SUBSET Model] /\ crossed' \in SUBSET Release
<1>1. Writing(r) \subseteq Release
    BY DEF Writing, TypeOK
<1> QED
    BY <1>1 DEF Build, TypeOK

LEMMA TypeNext == TypeOK /\ [Next]_vars => TypeOK'
<1> SUFFICES ASSUME TypeOK, [Next]_vars PROVE TypeOK'
    OBVIOUS
<1> USE DEF TypeOK, Owner
<1>1. ASSUME NEW r \in Release, Start(r) PROVE TypeOK'
    BY <1>1 DEF Start, rows, rules
<1>2. ASSUME NEW r \in Release, CallFails(r) \/ JobStops(r) PROVE TypeOK'
    BY <1>2 DEF CallFails, JobStops, rows, rules
<1> HIDE DEF TypeOK
<1>3. ASSUME NEW r \in Release, NEW t \in Table, BuildStaging(r, t) PROVE TypeOK'
    BY <1>3, ModelTypes, BuildTypes DEF BuildStaging, TypeOK, flow, rules
<1>4. ASSUME NEW r \in Release, NEW t \in Table, BuildSilver(r, t) PROVE TypeOK'
    BY <1>4, ModelTypes, BuildTypes DEF BuildSilver, TypeOK, flow, rules
<1> {"volume", "percentage", "core", "operational", "metrics"} \subseteq Model
    BY DEF Model
<1>5. ASSUME NEW r \in Release, BuildVolume(r) PROVE TypeOK'
    BY <1>5, MeasuredType, BuildTypes DEF BuildVolume, TypeOK, flow, rows, rules
<1>6. ASSUME NEW r \in Release, BuildPercentage(r) PROVE TypeOK'
    BY <1>6, MeasuredType, BuildTypes DEF BuildPercentage, TypeOK, flow, rows, rules
<1>7. ASSUME NEW r \in Release, BuildCore(r) PROVE TypeOK'
  <2>1. core' \in Core
    BY <1>7 DEF BuildCore, Core, TypeOK
  <2> QED
    BY <1>7, <2>1, BuildTypes DEF BuildCore, TypeOK, flow, rows
<1>8. ASSUME NEW r \in Release, BuildOperational(r) PROVE TypeOK'
  <2>1. operational' \in Operational
    BY <1>8, MeasuredType DEF BuildOperational, Operational, TypeOK
  <2> QED
    BY <1>8, <2>1, BuildTypes DEF BuildOperational, TypeOK, flow, rows
<1>9. ASSUME NEW r \in Release, BuildMetrics(r) PROVE TypeOK'
  <2>1. metrics' \in Gate
    BY <1>9 DEF BuildMetrics, Gate, TypeOK
  <2> QED
    BY <1>9, <2>1, BuildTypes DEF BuildMetrics, TypeOK, rows
<1> USE DEF TypeOK
<1>10. ASSUME NEW r \in Release, Evaluate(r) PROVE TypeOK'
    BY <1>10 DEF Evaluate, rows, rules
<1>11. ASSUME NEW r \in Release, Promote(r) PROVE TypeOK'
    BY <1>11 DEF Promote, rows, rules
<1>12. CASE UNCHANGED vars
    BY <1>12 DEF vars, flow, rows, rules
<1> QED
    BY <1>1, <1>2, <1>3, <1>4, <1>5, <1>6, <1>7, <1>8, <1>9, <1>10, <1>11, <1>12 DEF Next

\* The types hold in every reachable state.
THEOREM TypeCorrect == Spec => []TypeOK
    BY TypeInit, TypeNext, PTL DEF Spec

----------------------------------------------------------------------------
(* Gates under overlap.                                                    *)

\* The evaluation of a release files a gate of its own label; nothing else writes one.
LEMMA LabelNext == TypeOK /\ GateCarriesOneLabel /\ [Next]_vars => GateCarriesOneLabel'
<1> SUFFICES ASSUME TypeOK, GateCarriesOneLabel, [Next]_vars PROVE GateCarriesOneLabel'
    OBVIOUS
<1>1. ASSUME NEW r \in Release, Evaluate(r) PROVE GateCarriesOneLabel'
    BY <1>1 DEF Evaluate, GateCarriesOneLabel, TypeOK
<1>2. CASE UNCHANGED results
    BY <1>2 DEF GateCarriesOneLabel
<1>3. UNCHANGED results \/ \E r \in Release : Evaluate(r)
    BY DEF Next, vars, Start, CallFails, JobStops, BuildStaging, BuildSilver, BuildVolume, BuildPercentage,
           BuildCore, BuildOperational, BuildMetrics, Promote
<1> QED
    BY <1>1, <1>2, <1>3

\* No gate is ever made of two releases' halves.
THEOREM OneLabel == Spec => []GateCarriesOneLabel
<1>1. Init => GateCarriesOneLabel
    BY DEF Init, GateCarriesOneLabel
<1> QED
    BY <1>1, LabelNext, TypeCorrect, PTL DEF Spec

\* The release has rows in both tables, and its build does not write them again.
HasRows(r) == \A t \in Table : r \in silver[t] /\ Silver[t] \in built[r]

\* Rules that found the release covered measured a release that has rows.
CoverageTrue(rulesOfCore) == rulesOfCore.covered =>
    rulesOfCore.label \in Release /\ HasRows(rulesOfCore.label)

RowsInv ==
    /\ CoverageTrue(core)
    /\ CoverageTrue(metrics.core)
    /\ \A r \in Release : CoverageTrue(results[r].core)
    /\ active \in Release => HasRows(active)

\* Rows once measured stay: a build writes each silver table once.
LEMMA RowsStay ==
    ASSUME TypeOK, [Next]_vars, NEW r \in Release, HasRows(r)
    PROVE  HasRows(r)'
<1> USE DEF HasRows, TypeOK
<1>1. \A q \in Release, model \in Model, references \in SUBSET Model :
        Build(q, model, references) => built[r] \subseteq built'[r]
    BY DEF Build
<1>2. ASSUME NEW q \in Release, NEW t \in Table, BuildSilver(q, t) PROVE HasRows(r)'
  <2>1. built[r] \subseteq built'[r]
    BY <1>1, <1>2, ModelTypes DEF BuildSilver
  <2>2. \A u \in Table : r \in silver'[u]
    BY <1>2 DEF BuildSilver, Build
  <2> QED
    BY <2>1, <2>2
<1>3. ASSUME UNCHANGED silver, built[r] \subseteq built'[r] PROVE HasRows(r)'
    BY <1>3
<1>4. CASE UNCHANGED <<silver, built>>
    BY <1>4
<1>5. ASSUME NEW q \in Release, NEW t \in Table, BuildStaging(q, t) PROVE HasRows(r)'
    BY <1>1, <1>3, <1>5, ModelTypes DEF BuildStaging
<1>6. ASSUME NEW q \in Release,
             \/ BuildVolume(q) \/ BuildPercentage(q) \/ BuildCore(q)
             \/ BuildOperational(q) \/ BuildMetrics(q)
      PROVE  HasRows(r)'
  <2>1. built[r] \subseteq built'[r]
    BY <1>6
    DEF Build, BuildVolume, BuildPercentage, BuildCore, BuildOperational, BuildMetrics
  <2>2. UNCHANGED silver
    BY <1>6
    DEF BuildVolume, BuildPercentage, BuildCore, BuildOperational, BuildMetrics, rows
  <2> QED
    BY <1>3, <2>1, <2>2
<1>7. ASSUME NEW q \in Release, Start(q) \/ CallFails(q) \/ JobStops(q) \/ Evaluate(q) \/ Promote(q)
      PROVE  HasRows(r)'
    BY <1>4, <1>7 DEF Start, CallFails, JobStops, Evaluate, Promote, rows
<1> QED
    BY <1>2, <1>4, <1>5, <1>6, <1>7 DEF Next, vars, rows

LEMMA RowsInit == Init => RowsInv
    BY DEF Init, RowsInv, CoverageTrue, NoGate

LEMMA RowsNext ==
    TypeOK /\ GateCarriesOneLabel /\ RowsInv /\ [Next]_vars => RowsInv'
<1> SUFFICES ASSUME TypeOK, GateCarriesOneLabel, RowsInv, [Next]_vars PROVE RowsInv'
    OBVIOUS
<1>1. \A r \in Release : HasRows(r) => HasRows(r)'
    BY RowsStay
<1>2. CoverageTrue(core)'
  <2>1. ASSUME NEW r \in Release, BuildCore(r) PROVE CoverageTrue(core)'
    <3>1. \A t \in Table : Silver[t] \in built[r]
      BY <2>1 DEF BuildCore, Build, Table
    <3>2. core'.covered => HasRows(r)
      BY <2>1, <3>1 DEF BuildCore, HasRows
    <3> QED
      BY <1>1, <2>1, <3>2 DEF BuildCore, CoverageTrue
  <2>2. CASE UNCHANGED core
    BY <1>1, <2>2 DEF RowsInv, CoverageTrue
  <2> QED
    BY <2>1, <2>2
    DEF Next, vars, rules, Start, CallFails, JobStops, BuildStaging, BuildSilver, BuildVolume,
        BuildPercentage, BuildOperational, BuildMetrics, Evaluate, Promote
<1>3. CoverageTrue(metrics.core)'
  <2>1. UNCHANGED metrics \/ \E r \in Release : BuildMetrics(r)
    BY DEF Next, vars, rules, Start, CallFails, JobStops, BuildStaging, BuildSilver, BuildVolume,
           BuildPercentage, BuildCore, BuildOperational, Evaluate, Promote
  <2>2. metrics'.core \in {core, metrics.core}
    BY <2>1 DEF BuildMetrics
  <2> QED
    BY <1>1, <2>2 DEF RowsInv, CoverageTrue
<1>4. ASSUME NEW r \in Release PROVE CoverageTrue(results[r].core)'
  <2>1. UNCHANGED results \/ \E q \in Release : Evaluate(q)
    BY DEF Next, vars, Start, CallFails, JobStops, BuildStaging, BuildSilver, BuildVolume,
           BuildPercentage, BuildCore, BuildOperational, BuildMetrics, Promote
  <2>2. results'[r].core \in {metrics.core, results[r].core}
    BY <2>1 DEF Evaluate, TypeOK
  <2> QED
    BY <1>1, <2>2 DEF RowsInv, CoverageTrue
<1>5. active' \in Release => HasRows(active)'
  <2>1. ASSUME NEW r \in Release, Promote(r) PROVE HasRows(active)'
    <3>1. results[r].core.covered
      BY <2>1 DEF Promote, Blocked
    <3>2. results[r] # NoGate
      BY <3>1 DEF NoGate
    <3>3. HasRows(r)
      BY <3>1, <3>2 DEF GateCarriesOneLabel, RowsInv, CoverageTrue
    <3> QED
      BY <1>1, <2>1, <3>3 DEF Promote, HasRows
  <2>2. ASSUME UNCHANGED active, active \in Release PROVE HasRows(active)'
    BY <1>1, <2>2 DEF RowsInv, TypeOK, Owner, HasRows
  <2> QED
    BY <2>1, <2>2
    DEF Next, vars, flow, Start, CallFails, JobStops, BuildStaging, BuildSilver, BuildVolume,
        BuildPercentage, BuildCore, BuildOperational, BuildMetrics, Evaluate
<1> QED
    BY <1>2, <1>3, <1>4, <1>5 DEF RowsInv

\* However the builds interleave, the release readers get has rows in every table.
THEOREM RowsOfPublished == Spec => []PublishedHasRows
<1>1. RowsInv => PublishedHasRows
    BY DEF RowsInv, HasRows, PublishedHasRows
<1> QED
    BY <1>1, RowsInit, RowsNext, TypeCorrect, OneLabel, PTL DEF Spec

----------------------------------------------------------------------------
(* A build that writes alone.                                              *)

\* What the build of r has written so far, it reads back.
ReadsBack(r) ==
    /\ \A t \in Table :
        /\ Stg[t] \in built[r] => staging[t] = r
        /\ Silver[t] \in built[r] => r \in silver[t]
    /\ "volume" \in built[r] => volume = r
    /\ "percentage" \in built[r] => percentage = r

\* Rules labelled with a release that was not crossed measured that release.
CoreOwn(half) == half.label \in Release \ crossed => half.percentage = half.label

OperationalOwn(half) ==
    half.label \in Release \ crossed =>
        half.volume = half.label /\ half.repeated = half.label

LoneInv ==
    /\ \A r \in Release : step[r] = "idle" => built[r] = {} /\ r \notin working
    /\ \A r \in working \ crossed : ReadsBack(r)
    /\ CoreOwn(core) /\ OperationalOwn(operational)
    /\ CoreOwn(metrics.core) /\ OperationalOwn(metrics.operational)
    /\ \A r \in Release : CoreOwn(results[r].core) /\ OperationalOwn(results[r].operational)
    /\ active \in Release \ crossed => defect[active] = "none"

LEMMA LoneInit == Init => LoneInv
    BY DEF Init, LoneInv, NoGate, CoreOwn, OperationalOwn

\* The history only grows.
LEMMA CrossedGrows == [Next]_vars => crossed \subseteq crossed'
    BY DEF Next, vars, Start, CallFails, JobStops, Build, BuildStaging, BuildSilver, BuildVolume,
           BuildPercentage, BuildCore, BuildOperational, BuildMetrics, Evaluate, Promote

\* A build step crosses every other build that has begun to write: what the ones it
\* does not cross have written is nothing.
LEMMA OthersUntouched ==
    ASSUME TypeOK, NEW r \in Release, NEW model, NEW references, Build(r, model, references),
           NEW q \in working \ crossed', q # r
    PROVE  built'[q] = {}
<1>1. built'[q] = built[q]
    BY DEF Build, TypeOK
<1>2. CASE built[q] # {}
  <2>1. {r, q} \subseteq Writing(r)
    BY <1>2 DEF Writing
  <2>2. Writing(r) # {q}
    BY <2>1
  <2> QED
    BY <2>1, <2>2 DEF Build
<1> QED
    BY <1>1, <1>2

\* A build step keeps what every lone build reads back, if it keeps its own.
LEMMA BuildKeeps ==
    ASSUME TypeOK, LoneInv, NEW r \in Release, NEW model, NEW references,
           Build(r, model, references), working' \subseteq working,
           r \notin crossed' => ReadsBack(r)'
    PROVE  \A q \in working' \ crossed' : ReadsBack(q)'
<1>1. ASSUME NEW q \in working \ crossed', q # r PROVE ReadsBack(q)'
    BY <1>1, OthersUntouched DEF ReadsBack
<1> QED
    BY <1>1

\* The build that is not crossed reads back what it wrote.
LEMMA OwnReads ==
    ASSUME LoneInv, NEW r \in Release, NEW model, NEW references, Build(r, model, references),
           r \notin crossed'
    PROVE  ReadsBack(r)
    BY DEF LoneInv, Build

LEMMA ReadsNext ==
    ASSUME TypeOK, LoneInv, [Next]_vars
    PROVE  \A q \in working' \ crossed' : ReadsBack(q)'
<1> USE DEF TypeOK
<1>1. ASSUME NEW r \in Release, NEW t \in Table, BuildStaging(r, t)
      PROVE  \A q \in working' \ crossed' : ReadsBack(q)'
  <2>1. Build(r, Stg[t], {}) /\ UNCHANGED <<working, silver, volume, percentage>>
    BY <1>1 DEF BuildStaging, flow
  <2>2. ASSUME r \notin crossed' PROVE ReadsBack(r)'
    <3>1. ReadsBack(r)
      BY <2>1, <2>2, OwnReads
    <3>2. built'[r] = built[r] \cup {Stg[t]}
      BY <2>1 DEF Build
    <3>3. staging'[t] = r /\ \A u \in Table : u # t => staging'[u] = staging[u]
      BY <1>1 DEF BuildStaging
    <3> QED
      BY <2>1, <3>1, <3>2, <3>3, ModelNames DEF ReadsBack
  <2> QED
    BY <2>1, <2>2, BuildKeeps
<1>2. ASSUME NEW r \in Release, NEW t \in Table, BuildSilver(r, t)
      PROVE  \A q \in working' \ crossed' : ReadsBack(q)'
  <2>1. Build(r, Silver[t], {Stg[t]}) /\ UNCHANGED <<working, staging, volume, percentage>>
    BY <1>2 DEF BuildSilver, flow
  <2>2. ASSUME r \notin crossed' PROVE ReadsBack(r)'
    <3>1. ReadsBack(r)
      BY <2>1, <2>2, OwnReads
    <3>2. staging[t] = r
      BY <2>1, <3>1 DEF Build, ReadsBack
    <3>3. r \in silver'[t] /\ \A u \in Table : u # t => silver'[u] = silver[u]
      BY <1>2, <3>2 DEF BuildSilver
    <3>4. built'[r] = built[r] \cup {Silver[t]}
      BY <2>1 DEF Build
    <3> QED
      BY <2>1, <3>1, <3>3, <3>4, ModelNames DEF ReadsBack
  <2> QED
    BY <2>1, <2>2, BuildKeeps
<1>3. ASSUME NEW r \in Release, BuildVolume(r)
      PROVE  \A q \in working' \ crossed' : ReadsBack(q)'
  <2>1. Build(r, "volume", {Silver["municipio"]}) /\ UNCHANGED <<working, rows, percentage>>
    BY <1>3 DEF BuildVolume, flow
  <2>2. ASSUME r \notin crossed' PROVE ReadsBack(r)'
    <3>1. ReadsBack(r)
      BY <2>1, <2>2, OwnReads
    <3>2. volume' = r
      BY <1>3, <3>1 DEF BuildVolume, Build, ReadsBack, Measured, Table
    <3> QED
      BY <2>1, <3>1, <3>2, ModelNames DEF Build, ReadsBack, rows
  <2> QED
    BY <2>1, <2>2, BuildKeeps
<1>4. ASSUME NEW r \in Release, BuildPercentage(r)
      PROVE  \A q \in working' \ crossed' : ReadsBack(q)'
  <2>1. Build(r, "percentage", {Silver["municipio"]}) /\ UNCHANGED <<working, rows, volume>>
    BY <1>4 DEF BuildPercentage, flow
  <2>2. ASSUME r \notin crossed' PROVE ReadsBack(r)'
    <3>1. ReadsBack(r)
      BY <2>1, <2>2, OwnReads
    <3>2. percentage' = r
      BY <1>4, <3>1 DEF BuildPercentage, Build, ReadsBack, Measured, Table
    <3> QED
      BY <2>1, <3>1, <3>2, ModelNames DEF Build, ReadsBack, rows
  <2> QED
    BY <2>1, <2>2, BuildKeeps
<1>5. ASSUME NEW r \in Release, NEW model \in {"core", "operational", "metrics"},
             NEW references, Build(r, model, references),
             working' \subseteq working, UNCHANGED <<rows, volume, percentage>>
      PROVE  \A q \in working' \ crossed' : ReadsBack(q)'
  <2>1. ASSUME r \notin crossed' PROVE ReadsBack(r)'
    <3>1. ReadsBack(r)
      BY <1>5, <2>1, OwnReads
    <3>2. built'[r] = built[r] \cup {model}
      BY <1>5 DEF Build
    <3> QED
      BY <1>5, <3>1, <3>2, ModelNames DEF ReadsBack, rows
  <2> QED
    BY <1>5, <2>1, BuildKeeps
<1>6. ASSUME NEW r \in Release, BuildCore(r) \/ BuildOperational(r) \/ BuildMetrics(r)
      PROVE  \A q \in working' \ crossed' : ReadsBack(q)'
    BY <1>5, <1>6 DEF BuildCore, BuildOperational, BuildMetrics, flow
<1>7. ASSUME NEW r \in Release, Start(r)
      PROVE  \A q \in working' \ crossed' : ReadsBack(q)'
  <2>1. built'[r] = {} /\ working' = working \cup {r}
    BY <1>7 DEF Start, LoneInv
  <2>2. UNCHANGED <<built, crossed, rows, volume, percentage>>
    BY <1>7 DEF Start
  <2> QED
    BY <2>1, <2>2 DEF LoneInv, ReadsBack, rows
<1>8. ASSUME UNCHANGED <<built, crossed, rows, volume, percentage>>, working' \subseteq working
      PROVE  \A q \in working' \ crossed' : ReadsBack(q)'
    BY <1>8 DEF LoneInv, ReadsBack, rows
<1>9. ASSUME NEW r \in Release, CallFails(r) \/ JobStops(r) \/ Evaluate(r) \/ Promote(r)
      PROVE  \A q \in working' \ crossed' : ReadsBack(q)'
    BY <1>8, <1>9 DEF CallFails, JobStops, Evaluate, Promote
<1>10. CASE UNCHANGED vars
    BY <1>8, <1>10 DEF vars, flow
<1> QED
    BY <1>1, <1>2, <1>3, <1>4, <1>6, <1>7, <1>9, <1>10 DEF Next

\* The halves of the gate, and the table that joins them.
LEMMA HalvesNext ==
    ASSUME TypeOK, LoneInv, [Next]_vars
    PROVE  /\ CoreOwn(core)' /\ OperationalOwn(operational)'
           /\ CoreOwn(metrics.core)' /\ OperationalOwn(metrics.operational)'
<1> USE CrossedGrows
<1>1. CoreOwn(core)'
  <2>1. ASSUME NEW r \in Release, BuildCore(r) PROVE CoreOwn(core)'
    <3>1. r \notin crossed' => percentage = r
      BY <2>1, OwnReads DEF BuildCore, Build, ReadsBack
    <3> QED
      BY <2>1, <3>1 DEF BuildCore, CoreOwn
  <2>2. CASE UNCHANGED core
    BY <2>2 DEF LoneInv, CoreOwn
  <2> QED
    BY <2>1, <2>2
    DEF Next, vars, rules, Start, CallFails, JobStops, BuildStaging, BuildSilver, BuildVolume,
        BuildPercentage, BuildOperational, BuildMetrics, Evaluate, Promote
<1>2. OperationalOwn(operational)'
  <2>1. ASSUME NEW r \in Release, BuildOperational(r) PROVE OperationalOwn(operational)'
    <3>1. r \notin crossed' => volume = r /\ staging["alunos"] = r
      BY <2>1, OwnReads DEF BuildOperational, Build, ReadsBack, Table
    <3> QED
      BY <2>1, <3>1 DEF BuildOperational, OperationalOwn, Measured
  <2>2. CASE UNCHANGED operational
    BY <2>2 DEF LoneInv, OperationalOwn
  <2> QED
    BY <2>1, <2>2
    DEF Next, vars, rules, Start, CallFails, JobStops, BuildStaging, BuildSilver, BuildVolume,
        BuildPercentage, BuildCore, BuildMetrics, Evaluate, Promote
<1>3. /\ metrics'.core \in {core, metrics.core}
      /\ metrics'.operational \in {operational, metrics.operational}
  <2>1. UNCHANGED metrics \/ \E r \in Release : BuildMetrics(r)
    BY DEF Next, vars, rules, Start, CallFails, JobStops, BuildStaging, BuildSilver, BuildVolume,
           BuildPercentage, BuildCore, BuildOperational, Evaluate, Promote
  <2> QED
    BY <2>1 DEF BuildMetrics
<1> QED
    BY <1>1, <1>2, <1>3 DEF LoneInv, CoreOwn, OperationalOwn

LEMMA LoneNext ==
    TypeOK /\ GateCarriesOneLabel /\ LoneInv /\ [Next]_vars => LoneInv'
<1> SUFFICES ASSUME TypeOK, GateCarriesOneLabel, LoneInv, [Next]_vars PROVE LoneInv'
    OBVIOUS
<1>1. \A r \in Release : step'[r] = "idle" => built'[r] = {} /\ r \notin working'
  <2> SUFFICES ASSUME NEW r \in Release, step'[r] = "idle"
               PROVE  built'[r] = {} /\ r \notin working'
    OBVIOUS
  <2> USE DEF TypeOK
  <2>1. ASSUME NEW q \in Release, NEW model, NEW references, Build(q, model, references),
               step'[r] = step[r], working' \subseteq working
        PROVE  built'[r] = {} /\ r \notin working'
    BY <2>1 DEF LoneInv, Build
  <2>2. ASSUME NEW q \in Release, NEW t \in Table, BuildStaging(q, t) \/ BuildSilver(q, t)
        PROVE  built'[r] = {} /\ r \notin working'
    BY <2>1, <2>2 DEF BuildStaging, BuildSilver, flow
  <2>3. ASSUME NEW q \in Release,
               BuildVolume(q) \/ BuildPercentage(q) \/ BuildCore(q) \/ BuildOperational(q)
        PROVE  built'[r] = {} /\ r \notin working'
    BY <2>1, <2>3 DEF BuildVolume, BuildPercentage, BuildCore, BuildOperational, flow
  <2>4. ASSUME NEW q \in Release, BuildMetrics(q)
        PROVE  built'[r] = {} /\ r \notin working'
    <3>1. step'[r] = step[r] /\ working' \subseteq working
      BY <2>4 DEF BuildMetrics
    <3> QED
      BY <2>1, <2>4, <3>1 DEF BuildMetrics
  <2>5. ASSUME NEW q \in Release,
               Start(q) \/ CallFails(q) \/ JobStops(q) \/ Evaluate(q) \/ Promote(q)
        PROVE  built'[r] = {} /\ r \notin working'
    BY <2>5 DEF Start, CallFails, JobStops, Evaluate, Promote, LoneInv
  <2>6. CASE UNCHANGED vars
    BY <2>6 DEF vars, flow, LoneInv
  <2> QED
    BY <2>2, <2>3, <2>4, <2>5, <2>6 DEF Next
<1>2. ASSUME NEW r \in Release
      PROVE  CoreOwn(results[r].core)' /\ OperationalOwn(results[r].operational)'
  <2>1. UNCHANGED results \/ \E q \in Release : Evaluate(q)
    BY DEF Next, vars, Start, CallFails, JobStops, BuildStaging, BuildSilver, BuildVolume,
           BuildPercentage, BuildCore, BuildOperational, BuildMetrics, Promote
  <2>2. results'[r] \in {metrics, results[r]}
    BY <2>1 DEF Evaluate, TypeOK
  <2> QED
    BY <2>2, CrossedGrows DEF LoneInv, CoreOwn, OperationalOwn
<1>3. active' \in Release \ crossed' => defect'[active'] = "none"
  <2>1. ASSUME NEW r \in Release, Promote(r), r \notin crossed PROVE defect[r] = "none"
    <3>1. ~ Blocked(results[r])
      BY <2>1 DEF Promote
    <3>2. results[r] # NoGate
      BY <3>1 DEF Blocked, NoGate
    <3>3. results[r].core.label = r /\ results[r].operational.label = r
      BY <3>2 DEF GateCarriesOneLabel
    <3>4. /\ results[r].core.percentage = r
          /\ results[r].operational.volume = r /\ results[r].operational.repeated = r
      BY <2>1, <3>3 DEF LoneInv, CoreOwn, OperationalOwn
    <3> QED
      BY <3>1, <3>4 DEF Blocked, With, Defect, TypeOK
  <2>2. defect' = defect
    BY DEF Next, vars, flow, Start, CallFails, JobStops, BuildStaging, BuildSilver, BuildVolume,
           BuildPercentage, BuildCore, BuildOperational, BuildMetrics, Evaluate, Promote
  <2>3. UNCHANGED active \/ \E r \in Release : Promote(r)
    BY DEF Next, vars, flow, Start, CallFails, JobStops, BuildStaging, BuildSilver, BuildVolume,
           BuildPercentage, BuildCore, BuildOperational, BuildMetrics, Evaluate
  <2> QED
    BY <2>1, <2>2, <2>3, CrossedGrows DEF LoneInv, Promote
<1> QED
    BY <1>1, <1>2, <1>3, ReadsNext, HalvesNext DEF LoneInv

\* A release whose build wrote while no other build was at work, a leftover one
\* included, has a gate of its own figures, and the blocking rules stop it when they
\* should.
THEOREM LoneGate == Spec => []GateMeasuresItsRelease
<1>1. GateCarriesOneLabel /\ LoneInv => GateMeasuresItsRelease
    BY DEF GateCarriesOneLabel, LoneInv, CoreOwn, OperationalOwn, GateMeasuresItsRelease
<1> QED
    BY <1>1, LoneInit, LoneNext, TypeCorrect, OneLabel, PTL DEF Spec
================================================================================
