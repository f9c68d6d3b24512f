----------------------------- MODULE GcsObjects ------------------------------
(* The production object store: GcsObjectStore over GoogleGcsSdk over the   *)
(* storage client.  Several calls meet at one destination object; each is a *)
(* sequence of requests, every one of them retried on its own, and any      *)
(* answer may be lost.  A failed precondition does not say which one of     *)
(* them failed, so the source is inspected again to classify it.            *)
EXTENDS Naturals

CONSTANTS
    Payload, Copier, Writer, Content, Written, MaxGeneration, \* see ObjectStore
    MaximumAttempts \* tries of one request

VARIABLES
    object,  \* the destination: None or a payload
    landing, \* the newest generation of the source, and whether it is still there
    call     \* per call: where it is, tries of the request, chosen generation, digest

vars == <<object, landing, call>>

Call == Copier \cup Writer
Generation == 1 .. MaxGeneration
None == "none"
Outcome == {"returned", "exists", "stale", "failed"}
Landing == [generation : Generation, present : BOOLEAN]

ASSUME ClientAssumption ==
    /\ MaximumAttempts \in Nat \ {0}
    /\ MaxGeneration \in Nat \ {0}
    /\ Copier \cap Writer = {}
    /\ Content \in [Generation -> Payload]
    /\ Written \in [Writer -> Payload]
    /\ None \notin Payload

\* One request of a call after the other; compare ends it.
Request == {"stat", "download", "copy", "recheck", "upload", "inspect", "compare"}

TypeOK ==
    /\ object \in Payload \cup {None}
    /\ landing \in Landing
    /\ call \in [Call -> [pc : Request \cup Outcome, tries : 0 .. MaximumAttempts - 1,
                          version : 0 .. MaxGeneration, digest : Payload \cup {None}]]

Init ==
    /\ object = None
    /\ landing = [generation |-> 1, present |-> TRUE]
    /\ call = [c \in Call |->
                [pc |-> IF c \in Copier THEN "stat" ELSE "upload", tries |-> 0, version |-> 0,
                 digest |-> IF c \in Copier THEN None ELSE Written[c]]]

Active(c) == call[c].pc \in Request
Current(c) == landing.present /\ landing.generation = call[c].version

Goto(c, pc) == call' = [call EXCEPT ![c].pc = pc, ![c].tries = 0]

\* Mutant: one try too many.
LostOnceMore(c) ==
    IF call[c].tries = MaximumAttempts
    THEN Goto(c, "failed")
    ELSE call' = [call EXCEPT ![c].tries = @ + 1]

\* retry_call: the request is repeated until its attempts are spent.
Lost(c) ==
    IF call[c].tries + 1 = MaximumAttempts
    THEN Goto(c, "failed")
    ELSE call' = [call EXCEPT ![c].tries = @ + 1]

\* The request never arrived, or the answer of one that changes nothing is lost.
RequestLost(c) == Active(c) /\ Lost(c) /\ UNCHANGED <<object, landing>>

\* An error that is not retried, or the end of the process.
Crash(c) == Active(c) /\ Goto(c, "failed") /\ UNCHANGED <<object, landing>>

\* The generation the storage reports.
Reported == landing.generation

\* A part is read at the generation reported first.
Stat(c) ==
    /\ call[c].pc = "stat"
    /\ landing.present
    /\ call' = [call EXCEPT ![c].pc = "download", ![c].tries = 0,
                            ![c].version = Reported]
    /\ UNCHANGED <<object, landing>>

\* The download is pinned to the chosen generation: a failed precondition is stale, a
\* missing object ends the call (Crash).
Download(c) ==
    /\ call[c].pc = "download"
    /\ \/ /\ Current(c)
          /\ call' = [call EXCEPT ![c].pc = "copy", ![c].tries = 0,
                                  ![c].digest = Content[landing.generation]]
       \/ ~Current(c) /\ Goto(c, "stale")
    /\ UNCHANGED <<object, landing>>

\* The two preconditions of a copy: an absent destination and the chosen source.
CopyAdmitted(c) == object = None /\ Current(c)

\* A failed precondition does not say which one it was.  After the write a lost answer
\* is a request like any other.
Copy(c) ==
    /\ call[c].pc = "copy"
    /\ \/ /\ CopyAdmitted(c)
          /\ object' = Content[landing.generation]
          /\ Goto(c, "returned") \/ Lost(c)
       \/ ~CopyAdmitted(c) /\ Goto(c, "recheck") /\ UNCHANGED object
    /\ UNCHANGED landing

\* Mutant: the source is not looked at again, so a changed one is met as a conflict.
RecheckDestination(c) ==
    /\ call[c].pc = "recheck"
    /\ Goto(c, IF object # None THEN "inspect" ELSE "stale")
    /\ UNCHANGED <<object, landing>>

\* Which precondition was it?  The source missing or changed is stale; else the
\* destination exists.
Recheck(c) ==
    /\ call[c].pc = "recheck"
    /\ Goto(c, IF Current(c) THEN "inspect" ELSE "stale")
    /\ UNCHANGED <<object, landing>>

\* The precondition of an upload: generation zero, an absent destination.
UploadAdmitted == object = None

Upload(c) ==
    /\ call[c].pc = "upload"
    /\ \/ /\ UploadAdmitted
          /\ object' = call[c].digest
          /\ Goto(c, "returned") \/ Lost(c)
       \/ ~UploadAdmitted /\ Goto(c, "inspect") /\ UNCHANGED object
    /\ UNCHANGED landing

\* The stored object's generation, which the comparison downloads.
Inspect(c) ==
    /\ call[c].pc = "inspect"
    /\ object # None
    /\ Goto(c, "compare")
    /\ UNCHANGED <<object, landing>>

\* An object with the bytes of the call is the call's success, whoever wrote it.
Compare(c) ==
    /\ call[c].pc = "compare"
    /\ Goto(c, IF object = call[c].digest THEN "returned" ELSE "exists")
    /\ UNCHANGED <<object, landing>>

\* The landing object is exported over, or removed by the bucket's lifecycle.
ChangeLanding ==
    /\ landing' \in Landing
    /\ \/ landing'.generation = landing.generation + 1 /\ landing'.present
       \/ landing'.generation = landing.generation /\ ~landing'.present
    /\ UNCHANGED <<object, call>>

Step(c) ==
    \/ RequestLost(c) \/ Crash(c)
    \/ Stat(c) \/ Download(c) \/ Copy(c) \/ Recheck(c)
    \/ Upload(c) \/ Inspect(c) \/ Compare(c)

Next == ChangeLanding \/ \E c \in Call : Step(c)

Spec == Init /\ [][Next]_vars

----------------------------------------------------------------------------
(* Properties.                                                             *)

\* Once a call may compare, the store has answered it: the object will not change.
Abstract(c) ==
    IF call[c].pc \in Outcome THEN call[c].pc
    ELSE IF call[c].pc = "stat" THEN "new"
    ELSE IF call[c].pc \notin {"inspect", "compare"} THEN "chosen"
    ELSE IF object = call[c].digest THEN "reused" ELSE "refused"

Store == INSTANCE ObjectStore WITH
    state <- [c \in Call |-> Abstract(c)],
    version <- [c \in Call |-> call[c].version]

\* Several requests, retried and answered late, do what the one-step store of the
\* tests does: one creation, identical writes accepted, others refused, a copy called
\* stale only when its source did change, and one accepted or refused only if its
\* source was still current when the destination was found taken (GoogleGcsSdk.copy:
\* "classify source staleness separately from conflicts").
ImplementsStore == Store!Spec

\* Why a call may conclude what it does: a copier holds the digest of a generation no
\* newer than the source, the destination is inspected only when it is there, the
\* source rechecked only after one of the two preconditions failed, and what an ended
\* call was told still holds.
Reasons ==
    \A c \in Call :
        /\ c \in Writer => call[c].digest = Written[c]
        /\ call[c].pc \in {"stat", "download", "copy", "recheck", "stale"} => c \in Copier
        /\ call[c].pc = "upload" => c \in Writer
        /\ call[c].version <= landing.generation
        /\ c \in Copier /\ call[c].pc \in {"copy", "recheck", "inspect", "compare",
                                           "returned", "exists"} =>
            /\ call[c].version \in Generation
            /\ call[c].digest = Content[call[c].version]
        /\ call[c].pc \in {"inspect", "compare"} => object # None
        /\ call[c].pc = "recheck" => object # None \/ ~Current(c)
        /\ call[c].pc = "stale" => ~Current(c)
        /\ call[c].pc = "returned" => object = call[c].digest
        /\ call[c].pc = "exists" => object \notin {None, call[c].digest}
==============================================================================
