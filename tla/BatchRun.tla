------------------------------- MODULE BatchRun -------------------------------
(***************************************************************************)
(* execute_batch over one partition (a source and a year): the attempts of *)
(* `batch run`, the snapshot each exports to landing, the Bronze objects   *)
(* and the checkpoints each writes, and the cloud calls in between, whose  *)
(* answers may be lost and which are then repeated a bounded number of     *)
(* times.                                                                  *)
(*                                                                         *)
(*   source       the public table: its rows and its schema                *)
(*   landing      what the export job of each attempt wrote                *)
(*   bronze       objects, named by run, attempt and part                  *)
(*   checkpoints  manifests, at most one per checkpoint uri                *)
(*   attempt      the progress of each attempt                             *)
(*   clock        completed_at values drawn so far                         *)
(*                                                                         *)
(* The query and the contracted schema are those of one deployment, so the *)
(* run id depends on the content alone.                                    *)
(***************************************************************************)
EXTENDS Naturals, SequencesExt

CONSTANTS
    MaxAttempt,      \* bound: attempts of the partition
    Row,             \* rows of the contracted columns
    Snapshot,        \* contents the source may have, sequences of rows
    Contract,        \* the contracted columns, each with its type and mode
    Schema,          \* schemas the source may have, in the names of BigQuery
    Digest,          \* the digest of each row
    Modulus,         \* FINGERPRINT_MODULUS
    MaximumAttempts, \* tries of one cloud call (3)
    Modes,           \* may attempts overlap; may the source return to old content
    None

Attempt == 1 .. MaxAttempt

ASSUME DigestAssumption ==
    /\ Digest \in [Row -> Nat]
    /\ Modulus \in Nat \ {0}
    /\ Snapshot \subseteq Seq(Row) \ {<<>>}

ASSUME RetryAssumption == MaxAttempt \in Nat \ {0} /\ MaximumAttempts \in Nat \ {0}

VARIABLES source, landing, bronze, checkpoints, attempt, clock

\* What the environment is allowed in this behaviour, and the contents it had.
VARIABLES mode, past

storage == <<landing, bronze, checkpoints>>
environment == <<source, mode, past>>
vars == <<storage, attempt, clock, environment>>

----------------------------------------------------------------------------
(* Values.                                                                 *)

\* Mutant: a digest of the file, which depends on the order of its rows.
PartIdentityOfFile(part) ==
    LET sum[i \in 0 .. Len(part)] ==
            IF i = 0 THEN 0 ELSE (2 * sum[i - 1] + Digest[part[i]]) % Modulus
    IN  [rows |-> Len(part), sum |-> sum[Len(part)]]

\* The rows of one Parquet part and the sum of their digests.
PartIdentity(part) ==
    LET sum[i \in 0 .. Len(part)] ==
            IF i = 0 THEN 0 ELSE (sum[i - 1] + Digest[part[i]]) % Modulus
    IN  [rows |-> Len(part), sum |-> sum[Len(part)]]

\* The content fingerprint of the parts of a snapshot.  The run id is a name-based
\* uuid of it.
Fingerprint(parts) ==
    LET total[k \in 0 .. Len(parts)] ==
            IF k = 0 THEN [rows |-> 0, sum |-> 0]
            ELSE [rows |-> total[k - 1].rows + PartIdentity(parts[k]).rows,
                  sum  |-> (total[k - 1].sum + PartIdentity(parts[k]).sum) % Modulus]
    IN  total[Len(parts)]

\* Different contents have different fingerprints, and each content is listed once, in
\* one order of its rows.
ASSUME FingerprintAssumption ==
    \A s, t \in Snapshot : Fingerprint(<<s>>) = Fingerprint(<<t>>) => s = t

Orders(rows) ==
    {[i \in DOMAIN rows |-> rows[p[i]]] :
        p \in {q \in [DOMAIN rows -> DOMAIN rows] : IsInjective(q)}}

\* EXPORT DATA writes the rows in any order, in one object or two (bound).
Exports(rows) ==
    {<<s>> : s \in Orders(rows)}
    \cup {<<SubSeq(s, 1, n), SubSeq(s, n + 1, Len(s))>> :
              s \in Orders(rows), n \in 1 .. Len(rows) - 1}

\* The types an inspection knows, under each name BigQuery has for them.
TypeAlias == [INT64 |-> "INT64", INTEGER |-> "INT64", FLOAT64 |-> "FLOAT64",
              FLOAT |-> "FLOAT64", STRING |-> "STRING"]

\* An inspection fails on a column of another type or mode, contracted or not.
Supported(schema) ==
    \A c \in DOMAIN schema : schema[c].type \in DOMAIN TypeAlias
                                /\ schema[c].mode \in {"NULLABLE", "REQUIRED"}

Inspected(schema) ==
    [c \in DOMAIN schema |-> [type |-> TypeAlias[schema[c].type], mode |-> schema[c].mode]]

Drift(actual) ==
    LET shared == DOMAIN Contract \cap DOMAIN actual
    IN  [removed |-> DOMAIN Contract \ DOMAIN actual,
         added   |-> DOMAIN actual \ DOMAIN Contract,
         retyped |-> {c \in shared : actual[c].type # Contract[c].type},
         remoded |-> {c \in shared : actual[c].mode # Contract[c].mode}]

Blocking(drift) == drift.removed \cup drift.retyped \cup drift.remoded # {}

Admitted(schema) == Supported(schema) /\ ~Blocking(Drift(Inspected(schema)))

\* The types of the exported columns, the mode being lost in the temporary table.
Conforms(schema) == Drift(Inspected(schema)).retyped = {}

Run == [rows : Nat, sum : 0 .. Modulus - 1]
NoRun == [rows |-> 0, sum |-> 0]

Manifest(a, status, completedAt) ==
    [run |-> attempt[a].run, attempt |-> a, status |-> status,
     parts |-> IF status = "completed" THEN Len(landing[a].parts) ELSE 0,
     completedAt |-> completedAt]

\* The completed checkpoint is named by the run alone, the incomplete one by run and
\* attempt.
CheckpointUri(m) == <<m.run, m.status, IF m.status = "completed" THEN None ELSE m.attempt>>

Completed == {m \in checkpoints : m.status = "completed"}

\* The completed manifest with the largest completed_at.
LatestCompleted ==
    IF Completed = {} THEN None
    ELSE CHOOSE m \in Completed : \A n \in Completed : n.completedAt <= m.completedAt

\* Mutant: the row count is not compared.
MatchesSum(previous, run) == previous # None /\ previous.run.sum = run.sum

\* Nothing changed since the previous run.
Matches(previous, run) == previous # None /\ previous.run = run

\* The idempotent decision of plan_batch.
BatchPlan(run) ==
    [run |-> run, status |-> IF Matches(LatestCompleted, run) THEN "skipped" ELSE "planned"]

Ended == {"returned", "conflict", "failed"}
Running(a) == attempt[a].pc \notin Ended \cup {"new"}
NoLanding == [parts |-> <<>>, conforms |-> TRUE]

\* The select names every contracted column, and no other.
Selectable(schema) == DOMAIN Contract \subseteq DOMAIN schema

SnapshotExport(parts) == [parts |-> parts, conforms |-> Conforms(source.schema)]

\* The id of the export job is drawn before the first try, so every try submits that job.
Submitted(a) == landing[a] # NoLanding

Manifests ==
    [run : Run, attempt : Attempt, parts : Nat, completedAt : Nat,
     status : {"incomplete", "completed"}]

ASSUME NoneAssumption == None \notin Manifests

TypeOK ==
    /\ source \in [rows : Snapshot, schema : Schema]
    /\ landing \in [Attempt -> [parts : Seq(Seq(Row)), conforms : BOOLEAN]]
    /\ bronze \subseteq [run : Run, attempt : Attempt, part : Nat, payload : Seq(Row)]
    /\ checkpoints \subseteq Manifests
    /\ attempt \in [Attempt ->
            [pc : Ended \cup {"new", "export", "plan", "skip", "incomplete", "copy", "complete"},
             tries : 0 .. MaximumAttempts - 1, run : Run, copied : Nat, completedAt : Nat,
             returned : checkpoints \cup {None}]]
    /\ clock \in 0 .. MaxAttempt
    /\ mode \in Modes
    /\ past \subseteq Snapshot

Init ==
    /\ source \in [rows : Snapshot, schema : {s \in Schema : Admitted(s)}]
    /\ landing = [a \in Attempt |-> NoLanding]
    /\ bronze = {}
    /\ checkpoints = {}
    /\ attempt = [a \in Attempt |-> [pc |-> "new", tries |-> 0, run |-> NoRun, copied |-> 0,
                                     completedAt |-> 0, returned |-> None]]
    /\ clock = 0
    /\ mode \in Modes
    /\ past = {source.rows}

----------------------------------------------------------------------------
(* One cloud call: it is answered, or its answer is lost and it is repeated *)
(* until the tries are spent (retry_call).                                  *)

Goto(a, pc) == attempt' = [attempt EXCEPT ![a].pc = pc, ![a].tries = 0]

\* Mutant: the tries start over when they are spent.
LostForever(a) == attempt' = [attempt EXCEPT ![a].tries = (@ + 1) % MaximumAttempts]

\* Mutant: one try too many.
LostOnceMore(a) ==
    IF attempt[a].tries = MaximumAttempts
    THEN Goto(a, "failed")
    ELSE attempt' = [attempt EXCEPT ![a].tries = @ + 1]

Lost(a) ==
    IF attempt[a].tries + 1 = MaximumAttempts
    THEN Goto(a, "failed")
    ELSE attempt' = [attempt EXCEPT ![a].tries = @ + 1]

\* The request itself is lost: nothing happened.
RequestLost(a) ==
    /\ attempt[a].pc \in {"export", "incomplete", "copy", "complete"}
    /\ Lost(a)
    /\ UNCHANGED <<storage, clock, environment>>

\* The process dies, or a call ends in an error that is not retried.
Crash(a) ==
    /\ Running(a)
    /\ Goto(a, "failed")
    /\ UNCHANGED <<storage, clock, environment>>

----------------------------------------------------------------------------
(* The steps of execute_batch.                                             *)

\* inspect and dry run: schema drift, or an estimate over the ceiling (free), ends the
\* attempt.  The attempt ids are fresh, so they start in order.
Estimate(a) ==
    /\ attempt[a].pc = "new"
    /\ \A b \in 1 .. a - 1 : attempt[b].pc # "new" /\ (mode.overlap \/ ~Running(b))
    /\ (Admitted(source.schema) /\ Goto(a, "export")) \/ Goto(a, "failed")
    /\ UNCHANGED <<storage, clock, environment>>

\* The export job runs once, over the source of that moment.
SubmitExport(a) ==
    /\ attempt[a].pc = "export"
    /\ ~Submitted(a)
    /\ Selectable(source.schema)
    /\ \E parts \in Exports(source.rows) :
        landing' = [landing EXCEPT ![a] = SnapshotExport(parts)]
    /\ Goto(a, "plan") \/ Lost(a)
    /\ UNCHANGED <<bronze, checkpoints, clock, environment>>

\* A repeated submission meets the job it already started and takes its result.
RecoverExport(a) ==
    /\ attempt[a].pc = "export"
    /\ Submitted(a)
    /\ Goto(a, "plan") \/ Lost(a)
    /\ UNCHANGED <<storage, clock, environment>>

\* The parts are read and validated, and plan_batch compares their fingerprint with
\* the latest completed manifest.
Plan(a) ==
    /\ attempt[a].pc = "plan"
    /\ landing[a].conforms
    /\ LET plan == BatchPlan(Fingerprint(landing[a].parts))
       IN  attempt' = [attempt EXCEPT
                         ![a].run = plan.run,
                         ![a].pc = IF plan.status = "skipped" THEN "skip" ELSE "incomplete"]
    /\ UNCHANGED <<storage, clock, environment>>

\* A part whose schema is not the contract's (LandingSchemaError).
RejectLanding(a) ==
    /\ attempt[a].pc = "plan"
    /\ ~landing[a].conforms
    /\ Goto(a, "failed")
    /\ UNCHANGED <<storage, clock, environment>>

\* A skipped attempt reads the latest completed manifest again and returns that one.
Skip(a) ==
    /\ attempt[a].pc = "skip"
    /\ attempt' = [attempt EXCEPT ![a].pc = "returned", ![a].returned = LatestCompleted]
    /\ UNCHANGED <<storage, clock, environment>>

\* Mutant: the upload carries no generation precondition.
PersistOver(a, manifest, done) ==
    LET stored == {m \in checkpoints : CheckpointUri(m) = CheckpointUri(manifest)}
    IN  /\ checkpoints' = (checkpoints \ stored) \cup {manifest}
        /\ attempt' = [attempt EXCEPT ![a] = done] \/ Lost(a)

\* Mutant: an identical stored checkpoint is a conflict too.
PersistStrictly(a, manifest, done) ==
    LET stored == {m \in checkpoints : CheckpointUri(m) = CheckpointUri(manifest)}
    IN  \/ /\ stored = {}
           /\ checkpoints' = checkpoints \cup {manifest}
           /\ attempt' = [attempt EXCEPT ![a] = done] \/ Lost(a)
        \/ /\ stored # {}
           /\ Goto(a, "conflict")
           /\ UNCHANGED checkpoints

\* Create a checkpoint that is absent; accept an identical one, refuse another.
Persist(a, manifest, done) ==
    LET stored == {m \in checkpoints : CheckpointUri(m) = CheckpointUri(manifest)}
    IN  \/ /\ stored = {}
           /\ checkpoints' = checkpoints \cup {manifest}
           /\ attempt' = [attempt EXCEPT ![a] = done] \/ Lost(a)
        \/ /\ stored = {manifest}
           /\ attempt' = [attempt EXCEPT ![a] = done]
           /\ UNCHANGED checkpoints
        \/ /\ stored \notin {{}, {manifest}}
           /\ Goto(a, "conflict")
           /\ UNCHANGED checkpoints

PersistIncomplete(a) ==
    /\ attempt[a].pc = "incomplete"
    /\ Persist(a, Manifest(a, "incomplete", 0), [attempt[a] EXCEPT !.pc = "copy", !.tries = 0])
    /\ UNCHANGED <<landing, bronze, clock, environment>>

\* The part is copied: the next one, or completed_at once all are there.
Copied(a, part) ==
    IF part < Len(landing[a].parts)
    THEN /\ attempt' = [attempt EXCEPT ![a].copied = part, ![a].tries = 0]
         /\ UNCHANGED clock
    ELSE /\ clock' = clock + 1
         /\ attempt' = [attempt EXCEPT ![a].copied = part, ![a].tries = 0,
                                       ![a].pc = "complete", ![a].completedAt = clock + 1]

\* Mutant: a copy whose answer is lost is taken for done before it happens.
CopyAssumed(a) ==
    /\ attempt[a].pc = "copy"
    /\ LET part == attempt[a].copied + 1
           object == [run |-> attempt[a].run, attempt |-> a, part |-> part,
                      payload |-> landing[a].parts[part]]
       IN  /\ Copied(a, part)
           /\ bronze' = bronze \cup {object} \/ UNCHANGED bronze
    /\ UNCHANGED <<landing, checkpoints, environment>>

\* Copy the fingerprinted generation of one part into Bronze.  A copy that meets its
\* own object, after a lost answer, compares the bytes and accepts it.
CopyImmutable(a) ==
    /\ attempt[a].pc = "copy"
    /\ LET part == attempt[a].copied + 1
           object == [run |-> attempt[a].run, attempt |-> a, part |-> part,
                      payload |-> landing[a].parts[part]]
       IN  \/ /\ object \notin bronze
              /\ bronze' = bronze \cup {object}
              /\ Copied(a, part) \/ (Lost(a) /\ UNCHANGED clock)
           \/ /\ object \in bronze
              /\ Copied(a, part)
              /\ UNCHANGED bronze
    /\ UNCHANGED <<landing, checkpoints, environment>>

PersistCompleted(a) ==
    /\ attempt[a].pc = "complete"
    /\ LET manifest == Manifest(a, "completed", attempt[a].completedAt)
       IN  Persist(a, manifest, [attempt[a] EXCEPT !.pc = "returned", !.tries = 0,
                                                   !.returned = manifest])
    /\ UNCHANGED <<landing, bronze, clock, environment>>

----------------------------------------------------------------------------
(* The public table changes on its own.                                    *)

SourceChanges ==
    /\ \E rows \in Snapshot, schema \in Schema :
        /\ mode.reverts \/ rows \notin past \/ rows = source.rows
        /\ source' = [rows |-> rows, schema |-> schema]
        /\ past' = past \cup {rows}
    /\ UNCHANGED <<storage, attempt, clock, mode>>

Step(a) ==
    \/ Estimate(a)
    \/ SubmitExport(a)
    \/ RecoverExport(a)
    \/ Plan(a)
    \/ RejectLanding(a)
    \/ Skip(a)
    \/ PersistIncomplete(a)
    \/ CopyImmutable(a)
    \/ PersistCompleted(a)
    \/ RequestLost(a)
    \/ Crash(a)

Next == SourceChanges \/ \E a \in Attempt : Step(a)

Spec == Init /\ [][Next]_vars

\* The process of an attempt that runs takes its next step, whatever the answers.
FairSpec == Spec /\ \A a \in Attempt : WF_vars(Running(a) /\ Step(a))

----------------------------------------------------------------------------
(* Properties.                                                             *)

\* Every part a completed checkpoint names is in Bronze, the parts together have the
\* fingerprint of its run, and they came from an export in the contracted schema
\* (runner: "only after validating every exported Parquet part").
CheckpointBacked ==
    \A m \in Completed :
        /\ \E parts \in {landing[m.attempt].parts} :
            /\ m.parts = Len(parts)
            /\ Fingerprint(parts) = m.run
            /\ \A i \in 1 .. m.parts :
                [run |-> m.run, attempt |-> m.attempt, part |-> i, payload |-> parts[i]]
                    \in bronze
        /\ landing[m.attempt].conforms

\* Nothing written is ever changed or lost, and no two objects or checkpoints share a
\* name, whatever attempts overlap, crash or repeat calls (README: "Bronze nunca é
\* sobrescrito").
HistoryImmutable ==
    [][/\ bronze \subseteq bronze' /\ checkpoints \subseteq checkpoints'
       /\ \A m, n \in checkpoints' : CheckpointUri(m) = CheckpointUri(n) => m = n
       /\ \A o, p \in bronze' : <<o.run, o.attempt, o.part>> = <<p.run, p.attempt, p.part>>
                                    => o = p]_vars

\* A manifest conflict always has a rival: another attempt completed the same content.
\* One run at a time over content never seen before, no lost answer, repeated call or
\* crash ends in a conflict.
ConflictNeedsRival ==
    \A a \in Attempt : attempt[a].pc = "conflict" =>
        /\ \E m \in Completed : m.run = attempt[a].run /\ m.attempt # a
        /\ mode.overlap \/ mode.reverts

\* Where the rows of a snapshot are: the part, and the place in it.
Places(parts) == UNION {{k} \X DOMAIN parts[k] : k \in DOMAIN parts}

\* The rows of a snapshot, as counts.
ContentOf(parts) ==
    [r \in Row |-> Cardinality({p \in Places(parts) : parts[p[1]][p[2]] = r})]

\* Two completed checkpoints never hold the same content, in whatever order and parts
\* it was exported (data catalog: the fingerprint does not detect "mudança de ordem").
OneCheckpointPerContent ==
    \A m, n \in Completed :
        ContentOf(landing[m.attempt].parts) = ContentOf(landing[n.attempt].parts) => m = n

\* What an attempt returns is a completed checkpoint, and without overlap that of the
\* content it exported, so a skip never hands an older snapshot to a release.
ReturnsExported ==
    \A a \in Attempt : attempt[a].pc = "returned" =>
        /\ attempt[a].returned \in Completed
        /\ ~mode.overlap => attempt[a].returned.run = Fingerprint(landing[a].parts)

\* Every attempt ends: returned, in conflict or failed, never repeating a call for
\* ever.
EveryAttemptEnds == \A a \in Attempt : Running(a) ~> attempt[a].pc \in Ended

\* Without overlap no attempt ends in a conflict: a changed source always gets a
\* snapshot (README: "Correções de anos antigos criam outro snapshot").
CorrectionGetsSnapshot ==
    ~mode.overlap => \A a \in Attempt : attempt[a].pc # "conflict"

\* A column added to the source does not stop the capture (data catalog: "coluna
\* adicional como mudança aditiva, não bloqueante").
AddedColumnsAdmitted ==
    LET contracted == [c \in DOMAIN Contract \cap DOMAIN source.schema |-> source.schema[c]]
    IN  Admitted(contracted) => Admitted(source.schema)
==============================================================================
