----------------------------- MODULE StreamEvents -----------------------------
(***************************************************************************)
(* The municipal events of the stream demo: what the producer prepares     *)
(* from the fixture, how Beam routes a message, and what the dbt models    *)
(* select from the staged rows.                                            *)
(*                                                                         *)
(* A message is one acceptance by Pub/Sub of one record of the fixture for *)
(* one run of the demo; a retried publication is another copy.  A row is   *)
(* one delivery of a message.                                              *)
(***************************************************************************)
EXTENDS Naturals, FiniteSets, Sequences

CONSTANTS
    Run,        \* runs of the demo, numbered in the order of their base_time
    Fixture,    \* the accepted records of demo.json
    Sentinel,   \* the municipality 0000000
    None

ASSUME FixtureAssumption ==
    /\ Len(Fixture) \in Nat
    /\ DOMAIN Fixture = 1 .. Len(Fixture)

\* Base times are instants, so the runs are numbers.
ASSUME RunAssumption == Run \subseteq Nat

Index == DOMAIN Fixture
Copy == 1 .. 2

Message == [run : Run, index : Index, copy : Copy]
Row == [message : Message, ingestion : Nat]

\* What the producer draws when it starts: the clock, and the correlation id of its
\* execution.
ReleaseContext(r) == [base |-> r, correlation |-> r]

\* The producer keeps the order of the fixture and gives record i of a run the event
\* time base_time + i, the year and the correlation id of the run.
EventTime(m) == <<ReleaseContext(m.run).base, m.index>>

\* Pub/Sub stamps a message when it accepts it.
PublishTime(m) == m.copy

\* The other fields of a record travel as the fixture has them.
EventOf(m) == Fixture[m.index].event

CorrelationOf(m) == ReleaseContext(m.run).correlation

Event == {Fixture[i].event : i \in Index}

\* The grain of the overlay: year and network are those of the demo.
KeyOf(m) == Fixture[m.index].municipality

----------------------------------------------------------------------------
(* The contract of an event.                                               *)

Percentage == 0 .. 100

\* What the semantic model refuses in a record that satisfies the Avro schema.
Semantic(record) ==
    /\ record.simulation
    /\ record.municipality # Sentinel
    /\ record.rate \in Percentage
    /\ record.participation \in Percentage \cup {None}

\* The records of demo.json that satisfy the contract: each event has a municipality of
\* its own, and just one record is superseded by a later one of its event (the workflow
\* expects one audited copy of any fixture the image carries).
ASSUME DemoAssumption ==
    LET accepted == {i \in Index : Semantic(Fixture[i])}
    IN  /\ \A i, j \in accepted : Fixture[i].municipality = Fixture[j].municipality =>
                                    Fixture[i].event = Fixture[j].event
        /\ Cardinality({i \in accepted : \E j \in accepted :
                            j > i /\ Fixture[j].event = Fixture[i].event}) = 1

\* decode_event: the bytes were written by the same schema, so they decode.
Decodes(m) == Semantic(Fixture[m.index])

\* Mutant: an undecodable message leaves no row.
ProcessQuietly(row) ==
    [valid |-> IF Decodes(row.message) THEN {row} ELSE {}, quarantine |-> {}]

\* Beam's routing of one message: a staged row or a quarantined one.
Process(row) ==
    [valid      |-> IF Decodes(row.message) THEN {row} ELSE {},
     quarantine |-> IF Decodes(row.message) THEN {} ELSE {row}]

----------------------------------------------------------------------------
(* The dbt models.                                                         *)

\* <<a, b>> is later than <<c, d>>.
Later(p, q) == p[1] > q[1] \/ (p[1] = q[1] /\ p[2] > q[2])

\* Order of event_time, publish_time, ingestion_time.
Newer(p, q) ==
    LET m == p.message
        n == q.message
    IN  \/ Later(EventTime(m), EventTime(n))
        \/ /\ EventTime(m) = EventTime(n)
           /\ Later(<<PublishTime(m), p.ingestion>>, <<PublishTime(n), q.ingestion>>)

\* transport_rank = 1: the last delivery of each message.
LogicalMessages(rows) ==
    {p \in rows : \A q \in rows : q.message = p.message => q.ingestion <= p.ingestion}

\* event_rank = 1: one row per event.
LatestOf(rows) ==
    {p \in LogicalMessages(rows) :
        \A q \in LogicalMessages(rows) :
            EventOf(q.message) = EventOf(p.message) => ~Newer(q, p)}

\* Mutant: deliveries are ranked, not messages (sql/streaming/audit_duplicates.sql).
AuditOfRows(rows) == rows \ LatestOf(rows)

\* event_rank > 1: the rows of the same event that are not shown.
AuditOf(rows) == LogicalMessages(rows) \ LatestOf(rows)

MessagesOf(rows) == {p.message : p \in rows}
==============================================================================
