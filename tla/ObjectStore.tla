----------------------------- MODULE ObjectStore -----------------------------
(* What the batch ports promise of one create-only object, as the in-memory *)
(* store of the tests does it in one step: a copy whose landing source has  *)
(* changed is stale, whatever the destination holds; else the object is     *)
(* created once, an identical write is accepted and another one is refused. *)
(* The store of the tests answers every call at once.  Here the caller may  *)
(* learn the answer later, or fail before or after its write; and a landing *)
(* object may be removed, which the store of the tests has no way to do and *)
(* which counts as a change.                                                *)
EXTENDS Naturals

CONSTANTS
    Payload,      \* the bytes objects may hold, told apart by equality
    Copier,       \* calls that copy the landing object to the destination
    Writer,       \* calls that write a payload of their own to the destination
    Content,      \* the payload of each generation of the landing object
    Written,      \* the payload of each writer
    MaxGeneration \* bound: how many generations the landing object has at most

Call == Copier \cup Writer
Generation == 1 .. MaxGeneration
None == "none"

VARIABLES
    object,  \* the destination: None or a payload
    landing, \* the newest generation of the source, and whether it is still there
    state,   \* where each call is: new, chosen (its source is), reused or refused
             \* (answered, its caller not told yet), or its outcome
    version  \* the landing generation each copier has chosen

vars == <<object, landing, state, version>>

Outcome == {"returned", "exists", "stale", "failed"}

\* Seeding a uri again raises its generation.
Landing == [generation : Generation, present : BOOLEAN]

\* The source is still the chosen generation.
Current(c) == landing.present /\ landing.generation = version[c]

PayloadOf(c) == IF c \in Writer THEN Written[c] ELSE Content[version[c]]

Init ==
    /\ object = None
    /\ landing = [generation |-> 1, present |-> TRUE]
    /\ state = [c \in Call |-> IF c \in Copier THEN "new" ELSE "chosen"]
    /\ version = [c \in Call |-> 0]

\* read_versioned: the bytes and the generation of the landing object.
Read(c) ==
    /\ state[c] = "new"
    /\ landing.present
    /\ state' = [state EXCEPT ![c] = "chosen"]
    /\ version' = [version EXCEPT ![c] = landing.generation]
    /\ UNCHANGED <<object, landing>>

\* write_immutable of an absent object, by a writer or by a copier whose source is
\* current; the caller may not learn of it.
Create(c) ==
    /\ state[c] = "chosen"
    /\ object = None
    /\ c \in Copier => Current(c)
    /\ object' = PayloadOf(c)
    /\ \E s \in {"returned", "chosen", "failed"} : state' = [state EXCEPT ![c] = s]
    /\ UNCHANGED <<landing, version>>

\* write_immutable of what is already stored, by a writer or by a copier whose source
\* is current.
Reuse(c) ==
    /\ state[c] = "chosen"
    /\ c \in Copier => Current(c)
    /\ object = PayloadOf(c)
    /\ state' = [state EXCEPT ![c] = "reused"]
    /\ UNCHANGED <<object, landing, version>>

\* write_immutable over another payload: ImmutableObjectExistsError, once the source of
\* a copier is found current.
Refuse(c) ==
    /\ state[c] = "chosen"
    /\ c \in Copier => Current(c)
    /\ object \notin {None, PayloadOf(c)}
    /\ state' = [state EXCEPT ![c] = "refused"]
    /\ UNCHANGED <<object, landing, version>>

\* The caller is told.
Tell(c) ==
    /\ \/ state[c] = "reused" /\ state' = [state EXCEPT ![c] = "returned"]
       \/ state[c] = "refused" /\ state' = [state EXCEPT ![c] = "exists"]
    /\ UNCHANGED <<object, landing, version>>

\* copy_immutable of a source that has changed: StaleObjectGenerationError, whatever the
\* destination holds.
Stale(c) ==
    /\ state[c] = "chosen"
    /\ c \in Copier
    /\ ~Current(c)
    /\ state' = [state EXCEPT ![c] = "stale"]
    /\ UNCHANGED <<object, landing, version>>

Fail(c) ==
    /\ state[c] \notin Outcome
    /\ state' = [state EXCEPT ![c] = "failed"]
    /\ UNCHANGED <<object, landing, version>>

\* The landing object is seeded again, or removed.
ChangeLanding ==
    /\ landing' \in Landing
    /\ \/ landing'.generation = landing.generation + 1 /\ landing'.present
       \/ landing'.generation = landing.generation /\ ~landing'.present
    /\ UNCHANGED <<object, state, version>>

Next ==
    \/ ChangeLanding
    \/ \E c \in Call : Read(c) \/ Create(c) \/ Reuse(c) \/ Refuse(c) \/ Tell(c)
                           \/ Stale(c) \/ Fail(c)

Spec == Init /\ [][Next]_vars

\* What an outcome tells is so, and stays so: a returned call's payload is the one
\* stored, a refused one met another payload, and a stale one's source is gone.
AnswersHold ==
    \A c \in Call :
        /\ state[c] \in {"reused", "returned"} => object = PayloadOf(c)
        /\ state[c] \in {"refused", "exists"} => object \notin {None, PayloadOf(c)}
        /\ state[c] = "stale" => ~Current(c)
==============================================================================
