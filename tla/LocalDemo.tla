------------------------------- MODULE LocalDemo -------------------------------
(***************************************************************************)
(* The local demo: process_messages over the messages of one run, in any   *)
(* order and with any redelivery, one message at a time.                   *)
(***************************************************************************)
EXTENDS StreamEvents

CONSTANT MaxRedelivery   \* bound: redeliveries of the local demo

VARIABLES
    physical,     \* the unique messages so far
    canonical,    \* the message shown for each event
    duplicates,   \* the audited messages
    refused,      \* the quarantined messages
    redelivered   \* len(messages) - len(physical_unique)

local == <<physical, canonical, duplicates, refused, redelivered>>

\* The local demo publishes nothing, so each record is one message.
LocalMessage == {[run |-> 1, index |-> i, copy |-> 1] : i \in Index}

LocalInit ==
    /\ physical = {}
    /\ canonical = [e \in Event |-> {}]
    /\ duplicates = {}
    /\ refused = {}
    /\ redelivered = 0

\* setdefault: a message id seen before counts as a redelivery and nothing else.
Redelivery(m) ==
    /\ m \in physical
    /\ redelivered < MaxRedelivery
    /\ redelivered' = redelivered + 1
    /\ UNCHANGED <<physical, canonical, duplicates, refused>>

\* A payload that does not decode goes to quarantine.
Refuse(m) ==
    /\ m \notin physical
    /\ ~Decodes(m)
    /\ physical' = physical \cup {m}
    /\ refused' = refused \cup {m}
    /\ UNCHANGED <<canonical, duplicates, redelivered>>

\* Mutant: the pair is sorted in ascending order.
FirstOfReversed(known, m) ==
    IF \E n \in known : Later(EventTime(m), EventTime(n)) THEN known ELSE {m}

\* The first of the pair (canonical, candidate) sorted in descending order; the sort is
\* stable, so a tie keeps the canonical one.
FirstOf(known, m) ==
    IF \E n \in known : ~Later(EventTime(m), EventTime(n)) THEN known ELSE {m}

\* The candidate takes the event, or loses to the canonical message; the loser is audited.
Deduplicate(m) ==
    /\ m \notin physical
    /\ Decodes(m)
    /\ physical' = physical \cup {m}
    /\ LET known == canonical[EventOf(m)]
       IN  /\ canonical' = [canonical EXCEPT ![EventOf(m)] = FirstOf(known, m)]
           /\ duplicates' = duplicates \cup ((known \cup {m}) \ FirstOf(known, m))
    /\ UNCHANGED <<refused, redelivered>>

\* The counts the demo reports, the redeliveries apart.
DemoReport ==
    [raw        |-> Cardinality(physical),
     valid      |-> Cardinality(UNION {canonical[e] : e \in Event}),
     duplicates |-> Cardinality(duplicates),
     quarantine |-> Cardinality(refused)]

LocalNext == \E m \in LocalMessage : Redelivery(m) \/ Refuse(m) \/ Deduplicate(m)

LocalSpec == LocalInit /\ [][LocalNext]_local

----------------------------------------------------------------------------

\* The local demo and the dbt models of the cloud demo decide alike: whatever the order
\* and the redeliveries, the same message stands for each event and the same messages
\* are audited as its copies.  The report adds up, and counts one valid row per event.
LocalAgreesWithModels ==
    LET rows == {[message |-> m, ingestion |-> 0] : m \in {n \in physical : Decodes(n)}}
    IN  /\ UNION {canonical[e] : e \in Event} = MessagesOf(LatestOf(rows))
        /\ duplicates = MessagesOf(AuditOf(rows))
        /\ physical = refused \cup duplicates \cup UNION {canonical[e] : e \in Event}
        /\ DemoReport.raw =
              DemoReport.valid + DemoReport.duplicates + DemoReport.quarantine
        /\ DemoReport.valid = Cardinality({EventOf(p.message) : p \in rows})
==============================================================================
