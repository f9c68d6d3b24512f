-------------------------- MODULE GcsObjectsProofs ---------------------------
(* Theorems about GcsObjects for any payloads, calls and retry bound: its   *)
(* types, and that it implements the one-step store of the tests.           *)
EXTENDS GcsObjects, TLAPS

USE ClientAssumption
USE DEF CopyAdmitted, UploadAdmitted, Reported

----------------------------------------------------------------------------
(* Types.                                                                  *)

LEMMA TypeInit == Init => TypeOK
<1>1. 0 \in 0 .. MaximumAttempts - 1
    OBVIOUS
<1> QED
    BY <1>1 DEF Init, TypeOK, Landing, Generation, Call, Request

\* Moving a call on, or repeating its request, keeps the types.
LEMMA TypeGoto ==
    ASSUME TypeOK, NEW c \in Call, NEW pc \in Request \cup Outcome, Goto(c, pc)
    PROVE  call' \in [Call -> [pc : Request \cup Outcome, tries : 0 .. MaximumAttempts - 1,
                               version : 0 .. MaxGeneration, digest : Payload \cup {None}]]
<1>1. 0 \in 0 .. MaximumAttempts - 1
    OBVIOUS
<1> QED
    BY <1>1 DEF TypeOK, Goto

LEMMA TypeLost ==
    ASSUME TypeOK, NEW c \in Call, Lost(c)
    PROVE  call' \in [Call -> [pc : Request \cup Outcome, tries : 0 .. MaximumAttempts - 1,
                               version : 0 .. MaxGeneration, digest : Payload \cup {None}]]
<1>1. CASE call[c].tries + 1 = MaximumAttempts
    BY <1>1, TypeGoto DEF Lost, Outcome
<1>2. CASE call[c].tries + 1 # MaximumAttempts
  <2>1. call[c].tries + 1 \in 0 .. MaximumAttempts - 1
    BY <1>2 DEF TypeOK
  <2> QED
    BY <1>2, <2>1 DEF Lost, TypeOK
<1> QED
    BY <1>1, <1>2

LEMMA TypeNext == TypeOK /\ [Next]_vars => TypeOK'
<1> SUFFICES ASSUME TypeOK, [Next]_vars PROVE TypeOK'
    OBVIOUS
<1> USE DEF TypeOK
<1>0. 0 \in 0 .. MaximumAttempts - 1
    OBVIOUS
<1>1. CASE ChangeLanding
    BY <1>1 DEF ChangeLanding
<1>2. ASSUME NEW c \in Call, RequestLost(c) PROVE TypeOK'
    BY <1>2, TypeLost DEF RequestLost
<1>3. ASSUME NEW c \in Call, Crash(c) PROVE TypeOK'
    BY <1>3, TypeGoto DEF Crash, Outcome
<1>4. ASSUME NEW c \in Call, Stat(c) PROVE TypeOK'
  <2>1. landing.generation \in 0 .. MaxGeneration /\ "download" \in Request
    BY DEF Landing, Generation, Request
  <2> QED
    BY <1>0, <1>4, <2>1 DEF Stat
<1>5. ASSUME NEW c \in Call, Download(c) PROVE TypeOK'
  <2>1. Content[landing.generation] \in Payload /\ "copy" \in Request
    BY DEF Landing, Request
  <2>2. "stale" \in Request \cup Outcome
    BY DEF Outcome
  <2> QED
    BY <1>0, <1>5, <2>1, <2>2, TypeGoto DEF Download
<1>6. ASSUME NEW c \in Call, Copy(c) PROVE TypeOK'
  <2>1. Content[landing.generation] \in Payload
    BY DEF Landing
  <2>2. {"recheck", "returned"} \subseteq Request \cup Outcome
    BY DEF Request, Outcome
  <2> QED
    BY <1>6, <2>1, <2>2, TypeGoto, TypeLost DEF Copy
<1>7. ASSUME NEW c \in Call, Recheck(c) PROVE TypeOK'
    BY <1>7, TypeGoto DEF Recheck, Request, Outcome
<1>8. ASSUME NEW c \in Call, Upload(c) PROVE TypeOK'
  <2>1. call[c].digest \in Payload \cup {None}
    OBVIOUS
  <2>2. {"inspect", "returned"} \subseteq Request \cup Outcome
    BY DEF Request, Outcome
  <2> QED
    BY <1>8, <2>1, <2>2, TypeGoto, TypeLost DEF Upload
<1>9. ASSUME NEW c \in Call, Inspect(c) PROVE TypeOK'
    BY <1>9, TypeGoto DEF Inspect, Request
<1>10. ASSUME NEW c \in Call, Compare(c) PROVE TypeOK'
    BY <1>10, TypeGoto DEF Compare, Outcome
<1>11. CASE UNCHANGED vars
    BY <1>11 DEF vars
<1> QED
    BY <1>1, <1>2, <1>3, <1>4, <1>5, <1>6, <1>7, <1>8, <1>9, <1>10, <1>11 DEF Next, Step

\* Every reachable state has the declared types.
THEOREM TypeCorrect == Spec => []TypeOK
    BY TypeInit, TypeNext, PTL DEF Spec

----------------------------------------------------------------------------
(* Reasons is inductive.                                                    *)

\* The facts of one call.
ReasonsOf(c) ==
    /\ c \in Writer => call[c].digest = Written[c]
    /\ call[c].pc \in {"stat", "download", "copy", "recheck", "stale"} => c \in Copier
    /\ call[c].pc = "upload" => c \in Writer
    /\ call[c].version <= landing.generation
    /\ c \in Copier /\ call[c].pc \in {"copy", "recheck", "inspect", "compare",
                                       "returned", "exists"} =>
        /\ call[c].version \in Generation
        /\ call[c].digest = Content[call[c].version]
    /\ call[c].pc \in {"inspect", "compare"} => object # None
    /\ call[c].pc = "recheck" => object # None \/ ~Current(c)
    /\ call[c].pc = "stale" => ~Current(c)
    /\ call[c].pc = "returned" => object = call[c].digest
    /\ call[c].pc = "exists" => object \notin {None, call[c].digest}

LEMMA ReasonsByCall == Reasons <=> \A c \in Call : ReasonsOf(c)
    BY DEF Reasons, ReasonsOf

LEMMA ReasonsInit == Init => Reasons
    BY DEF Init, Reasons, Call, Current, Generation

\* A call that takes no step keeps its facts: the object, once there, stays, and the
\* source never comes back to an older generation.
LEMMA ReasonsOfOther ==
    ASSUME TypeOK, NEW d \in Call, ReasonsOf(d), call'[d] = call[d], landing' \in Landing,
           object = None \/ object' = object,
           \/ landing' = landing
           \/ landing'.generation = landing.generation + 1
           \/ landing'.generation = landing.generation /\ ~landing'.present
    PROVE  ReasonsOf(d)'
<1>1. call[d].digest \in Payload \/ call[d].digest = None
    BY DEF TypeOK
<1>2. Current(d)' => Current(d)
    BY DEF Current, TypeOK, Landing, Generation, ReasonsOf
<1>3. call[d].version <= landing'.generation
    BY DEF ReasonsOf, TypeOK, Landing, Generation
<1>4. call[d].pc = "returned" => object # None
  <2>1. CASE d \in Writer
    BY <2>1 DEF ReasonsOf
  <2>2. CASE d \in Copier
    BY <2>2 DEF ReasonsOf
  <2> QED
    BY <2>1, <2>2 DEF Call
<1> QED
    BY <1>1, <1>2, <1>3, <1>4 DEF ReasonsOf

LEMMA ReasonsNext == TypeOK /\ TypeOK' /\ Reasons /\ [Next]_vars => Reasons'
<1> SUFFICES ASSUME TypeOK, TypeOK', \A d \in Call : ReasonsOf(d), [Next]_vars
             PROVE  \A d \in Call : ReasonsOf(d)'
    BY ReasonsByCall DEF Reasons, ReasonsOf
<1>1. CASE ChangeLanding
    BY <1>1, ReasonsOfOther DEF ChangeLanding
<1>2. ASSUME NEW c \in Call, Step(c) PROVE \A d \in Call : ReasonsOf(d)'
  <2>1. /\ landing' = landing
        /\ object = None \/ object' = object
        /\ landing' \in Landing
        /\ \A d \in Call : d # c => call'[d] = call[d]
    BY <1>2 DEF Step, RequestLost, Crash, Stat, Download, Copy, Recheck, Upload, Inspect,
                Compare, Goto, Lost, TypeOK
  <2>2. ASSUME NEW d \in Call, d # c PROVE ReasonsOf(d)'
    BY <2>1, <2>2, ReasonsOfOther
  <2>3. ReasonsOf(c)'
    <3>1. ReasonsOf(c) /\ c \in Call /\ (c \in Copier \/ c \in Writer)
        /\ landing.generation \in Generation /\ Copier \cap Writer = {}
      BY DEF Call, TypeOK, Landing
    <3>2. CASE \/ RequestLost(c) /\ call[c].tries + 1 # MaximumAttempts
               \/ Copy(c) /\ object = None /\ Current(c) /\ Lost(c)
                  /\ call[c].tries + 1 # MaximumAttempts
               \/ Upload(c) /\ object = None /\ Lost(c)
                  /\ call[c].tries + 1 # MaximumAttempts
      <4>1. /\ call'[c].pc = call[c].pc
            /\ call'[c].version = call[c].version
            /\ call'[c].digest = call[c].digest
            /\ call[c].pc \in Request
            /\ object = None \/ object' = object
        BY <2>1, <3>2 DEF RequestLost, Copy, Upload, Lost, TypeOK, Active, Request
      <4> QED
        BY <2>1, <3>1, <3>2, <4>1 DEF ReasonsOf, Current, Request, RequestLost, Copy, Upload
    <3>3. CASE call'[c].pc = "failed" /\ call'[c].version = call[c].version
               /\ call'[c].digest = call[c].digest
      BY <2>1, <3>1, <3>3 DEF ReasonsOf
    <3>4. CASE Stat(c)
      BY <2>1, <3>1, <3>4 DEF Stat, ReasonsOf, TypeOK, Generation
    <3>5. CASE Download(c)
      BY <2>1, <3>1, <3>5 DEF Download, Goto, ReasonsOf, TypeOK, Current
    <3>6. CASE Copy(c) /\ (Goto(c, "returned") \/ Goto(c, "recheck"))
      BY <2>1, <3>1, <3>6 DEF Copy, Goto, ReasonsOf, TypeOK, Current
    <3>7. CASE Recheck(c)
      BY <2>1, <3>1, <3>7 DEF Recheck, Goto, ReasonsOf, TypeOK, Current
    <3>8. CASE Upload(c) /\ (Goto(c, "returned") \/ Goto(c, "inspect"))
      BY <2>1, <3>1, <3>8 DEF Upload, Goto, ReasonsOf, TypeOK, Current
    <3>9. CASE Inspect(c)
      BY <2>1, <3>1, <3>9 DEF Inspect, Goto, ReasonsOf, TypeOK, Current
    <3>10. CASE Compare(c)
      BY <2>1, <3>1, <3>10 DEF Compare, Goto, ReasonsOf, TypeOK, Current
    <3>11. CASE Lost(c) /\ call[c].tries + 1 = MaximumAttempts
      BY <3>3, <3>11 DEF Lost, Goto, TypeOK
    <3>12. CASE Crash(c)
      BY <3>3, <3>12 DEF Crash, Goto, TypeOK
    <3> QED
      BY <1>2, <3>2, <3>4, <3>5, <3>6, <3>7, <3>8, <3>9, <3>10, <3>11, <3>12
         DEF Step, RequestLost, Copy, Upload
  <2> QED
    BY <2>2, <2>3
<1>3. CASE UNCHANGED vars
    BY <1>3, ReasonsOfOther DEF vars, TypeOK
<1> QED
    BY <1>1, <1>2, <1>3 DEF Next

\* Every reachable state satisfies Reasons.
THEOREM ReasonsHold == Spec => []Reasons
    BY TypeInit, TypeNext, ReasonsInit, ReasonsNext, PTL DEF Spec

----------------------------------------------------------------------------
(* The refinement.                                                          *)

LEMMA StoreInit == Init => Store!Init
    BY DEF Init, Store!Init, Abstract, Outcome, Call, Store!Call, None, Store!None

\* The object a call may compare with does not change under another call's step.
LEMMA AbstractOther ==
    ASSUME TypeOK, Reasons, NEW d \in Call, call'[d] = call[d],
           object = None \/ object' = object
    PROVE  Abstract(d)' = Abstract(d)
    BY DEF Abstract, Reasons

\* The abstract variables of a step that moves one call on.
LEMMA AbstractGoto ==
    ASSUME TypeOK, Reasons, NEW c \in Call, NEW pc, Goto(c, pc),
           object = None \/ object' = object
    PROVE  /\ [d \in Call |-> call'[d].version] = [d \in Call |-> call[d].version]
           /\ [d \in Call |-> Abstract(d)'] =
                 [[d \in Call |-> Abstract(d)] EXCEPT ![c] = Abstract(c)']
<1>1. /\ call'[c].pc = pc /\ call'[c].digest = call[c].digest
      /\ \A d \in Call : d # c => call'[d] = call[d]
      /\ \A d \in Call : call'[d].version = call[d].version
    BY DEF Goto, TypeOK
<1>2. \A d \in Call : d # c => Abstract(d)' = Abstract(d)
    BY <1>1, AbstractOther
<1> QED
    BY <1>1, <1>2

\* A call that ends takes its outcome to the abstract state.
LEMMA AbstractEnds ==
    ASSUME TypeOK, Reasons, NEW c \in Call, NEW pc \in Outcome, Goto(c, pc),
           object = None \/ object' = object
    PROVE  /\ [d \in Call |-> call'[d].version] = [d \in Call |-> call[d].version]
           /\ [d \in Call |-> Abstract(d)'] = [[d \in Call |-> Abstract(d)] EXCEPT ![c] = pc]
<1>1. call'[c].pc = pc
    BY DEF Goto, TypeOK
<1>2. Abstract(c)' = pc
    BY <1>1 DEF Abstract
<1> QED
    BY <1>2, AbstractGoto

\* A lost answer is a stutter or the end of the call.
LEMMA AbstractLost ==
    ASSUME TypeOK, Reasons, NEW c \in Call, Lost(c),
           \/ object' = object
           \/ object = None /\ Abstract(c) = "chosen"
    PROVE  /\ [d \in Call |-> call'[d].version] = [d \in Call |-> call[d].version]
           /\ \/ [d \in Call |-> Abstract(d)'] = [d \in Call |-> Abstract(d)]
              \/ [d \in Call |-> Abstract(d)'] =
                    [[d \in Call |-> Abstract(d)] EXCEPT ![c] = "failed"]
<1>1. CASE call[c].tries + 1 = MaximumAttempts
    BY <1>1, AbstractEnds DEF Lost, Outcome
<1>2. CASE call[c].tries + 1 # MaximumAttempts
  <2>1. /\ call'[c].pc = call[c].pc /\ call'[c].digest = call[c].digest
        /\ \A d \in Call : d # c => call'[d] = call[d]
        /\ \A d \in Call : call'[d].version = call[d].version
    BY <1>2 DEF Lost, TypeOK
  <2>2. \A d \in Call : d # c => Abstract(d)' = Abstract(d)
    BY <2>1, AbstractOther
  <2>3. Abstract(c)' = Abstract(c)
    BY <2>1 DEF Abstract
  <2> QED
    BY <2>1, <2>2, <2>3
<1> QED
    BY <1>1, <1>2

\* The abstract state of a call that returns, or whose write is not answered.
LEMMA AbstractWritten ==
    ASSUME TypeOK, Reasons, NEW c \in Call, Goto(c, "returned") \/ Lost(c),
           Abstract(c) = "chosen", object = None
    PROVE  /\ [d \in Call |-> call'[d].version] = [d \in Call |-> call[d].version]
           /\ \E s \in {"returned", "chosen", "failed"} :
                [d \in Call |-> Abstract(d)'] = [[d \in Call |-> Abstract(d)] EXCEPT ![c] = s]
<1>1. [d \in Call |-> Abstract(d)] = [[d \in Call |-> Abstract(d)] EXCEPT ![c] = "chosen"]
    OBVIOUS
<1>2. CASE Goto(c, "returned")
    BY <1>2, AbstractEnds DEF Outcome
<1>3. CASE Lost(c)
    BY <1>1, <1>3, AbstractLost
<1> QED
    BY <1>2, <1>3

\* A call that goes on to compare has the store's answer: reused or refused, by the
\* object it found.
LEMMA AbstractAnswered ==
    ASSUME TypeOK, Reasons, NEW c \in Call, Goto(c, "inspect"), object' = object
    PROVE  /\ [d \in Call |-> call'[d].version] = [d \in Call |-> call[d].version]
           /\ [d \in Call |-> Abstract(d)'] = [[d \in Call |-> Abstract(d)] EXCEPT ![c] =
                IF object = call[c].digest THEN "reused" ELSE "refused"]
<1>1. call'[c].pc = "inspect" /\ call'[c].digest = call[c].digest
    BY DEF Goto, TypeOK
<1>2. Abstract(c)' = IF object = call[c].digest THEN "reused" ELSE "refused"
    BY <1>1 DEF Abstract, Outcome
<1> QED
    BY <1>2, AbstractGoto

\* One step of the requests is one step of the store, or none.
LEMMA StoreNext ==
    ASSUME TypeOK, Reasons, [Next]_vars
    PROVE  [Store!Next]_(Store!vars)
<1> DEFINE abstract == [d \in Call |-> Abstract(d)]
           versions == [d \in Call |-> call[d].version]
<1> USE DEF Store!vars
<1>1. CASE ChangeLanding
  <2>1. UNCHANGED <<object, abstract, versions>>
    BY <1>1 DEF ChangeLanding, Abstract
  <2> QED
    BY <1>1, <2>1 DEF ChangeLanding, Store!Next, Store!ChangeLanding, Landing, Generation,
                      Store!Landing, Store!Generation
<1>2. ASSUME NEW c \in Call, Step(c) PROVE [Store!Next]_(Store!vars)
  <2> SUFFICES \/ UNCHANGED <<object, landing, abstract, versions>>
               \/ Store!Read(c) \/ Store!Create(c) \/ Store!Reuse(c)
               \/ Store!Refuse(c) \/ Store!Tell(c) \/ Store!Stale(c) \/ Store!Fail(c)
    BY DEF Store!Next, Store!Call, Call
  <2>0. /\ abstract[c] = Abstract(c) /\ versions[c] = call[c].version
        /\ c \in Copier \/ c \in Writer
        /\ call[c].pc \in Request \cup Outcome
    BY DEF Call, TypeOK
  <2>1. CASE RequestLost(c)
    BY <2>0, <2>1, AbstractLost
       DEF RequestLost, Active, Request, Outcome, Abstract, Store!Fail, Store!Outcome
  <2>2. CASE Crash(c)
    BY <2>0, <2>2, AbstractEnds
       DEF Crash, Active, Request, Outcome, Abstract, Store!Fail, Store!Outcome
  <2>3. CASE Stat(c)
    <3>1. /\ call'[c].pc = "download" /\ abstract[c] = "new"
          /\ \A d \in Call : d # c => call'[d] = call[d]
          /\ versions' = [versions EXCEPT ![c] = landing.generation]
      BY <2>0, <2>3 DEF Stat, TypeOK, Abstract, Outcome
    <3>2. \A d \in Call : d # c => Abstract(d)' = Abstract(d)
      BY <2>3, <3>1, AbstractOther DEF Stat
    <3>3. abstract' = [abstract EXCEPT ![c] = "chosen"]
      BY <3>1, <3>2 DEF Abstract, Outcome
    <3> QED
      BY <2>3, <3>1, <3>3 DEF Stat, Store!Read
  <2>4. CASE Download(c)
    <3>1. CASE ~Current(c) /\ Goto(c, "stale")
      BY <2>0, <2>4, <3>1, AbstractEnds
         DEF Download, Reasons, Abstract, Outcome, Store!Stale, Store!Current, Current
    <3>2. CASE call' = [call EXCEPT ![c].pc = "copy", ![c].tries = 0,
                                    ![c].digest = Content[landing.generation]]
      <4>1. /\ call'[c].pc = "copy" /\ Abstract(c) = "chosen"
            /\ \A d \in Call : d # c => call'[d] = call[d]
            /\ versions' = versions
        BY <2>4, <3>2 DEF Download, TypeOK, Abstract, Outcome
      <4>2. \A d \in Call : d # c => Abstract(d)' = Abstract(d)
        BY <2>4, <4>1, AbstractOther DEF Download
      <4>3. abstract' = abstract
        BY <4>1, <4>2 DEF Abstract, Outcome
      <4> QED
        BY <2>4, <4>1, <4>3 DEF Download
    <3> QED
      BY <2>4, <3>1, <3>2 DEF Download
  <2>5. CASE Copy(c)
    <3>1. /\ c \in Copier /\ c \notin Writer /\ abstract[c] = "chosen"
      BY <2>0, <2>5 DEF Copy, Reasons, Abstract, Outcome
    <3>2. CASE Goto(c, "recheck") /\ UNCHANGED object
      <4>0. call'[c].pc = "recheck"
        BY <3>2 DEF Goto, TypeOK
      <4>1. Abstract(c)' = "chosen"
        BY <4>0 DEF Abstract, Outcome
      <4> QED
        BY <2>5, <3>1, <3>2, <4>1, AbstractGoto DEF Copy
    <3>3. CASE /\ object = None /\ Current(c) /\ object' = Content[landing.generation]
               /\ Goto(c, "returned") \/ Lost(c)
      <4>1. \E s \in {"returned", "chosen", "failed"} : abstract' = [abstract EXCEPT ![c] = s]
        BY <2>0, <3>1, <3>3, AbstractWritten
      <4>2. versions' = versions
        BY <2>0, <3>1, <3>3, AbstractWritten
      <4> QED
        BY <2>0, <2>5, <3>1, <3>3, <4>1, <4>2
           DEF Copy, Current, Store!Create, Store!Current, Store!PayloadOf, None, Store!None
    <3> QED
      BY <2>5, <3>2, <3>3 DEF Copy
  <2>6. CASE Recheck(c)
    <3>1. /\ c \in Copier /\ c \notin Writer /\ abstract[c] = "chosen"
      BY <2>0, <2>6 DEF Recheck, Reasons, Abstract, Outcome
    <3>2. CASE Current(c)
      <4>1. object # None
        BY <2>6, <3>2 DEF Recheck, Reasons
      <4>2. call[c].digest = Store!PayloadOf(c)
        BY <2>0, <2>6, <3>1 DEF Recheck, Reasons, Store!PayloadOf
      <4>3. /\ versions' = versions
            /\ abstract' = [abstract EXCEPT ![c] =
                             IF object = call[c].digest THEN "reused" ELSE "refused"]
        BY <2>6, <3>2, AbstractAnswered DEF Recheck
      <4> QED
        BY <2>0, <2>6, <3>1, <3>2, <4>1, <4>2, <4>3
           DEF Recheck, Current, Store!Current, Store!Reuse, Store!Refuse, None, Store!None
    <3>3. CASE ~Current(c)
      BY <2>0, <2>6, <3>1, <3>3, AbstractEnds
         DEF Recheck, Outcome, Current, Store!Stale, Store!Current
    <3> QED
      BY <3>2, <3>3
  <2>7. CASE Upload(c)
    <3>1. /\ c \in Writer /\ c \notin Copier /\ abstract[c] = "chosen"
          /\ call[c].digest = Written[c]
      BY <2>0, <2>7 DEF Upload, Reasons, Abstract, Outcome
    <3>2. CASE object # None /\ Goto(c, "inspect") /\ UNCHANGED object
      <4>1. /\ versions' = versions
            /\ abstract' = [abstract EXCEPT ![c] =
                             IF object = call[c].digest THEN "reused" ELSE "refused"]
        BY <3>2, AbstractAnswered
      <4> QED
        BY <2>7, <3>1, <3>2, <4>1
           DEF Upload, Store!Reuse, Store!Refuse, Store!PayloadOf, None, Store!None
    <3>3. CASE /\ object = None /\ object' = call[c].digest
               /\ Goto(c, "returned") \/ Lost(c)
      <4>1. \E s \in {"returned", "chosen", "failed"} : abstract' = [abstract EXCEPT ![c] = s]
        BY <2>0, <3>1, <3>3, AbstractWritten
      <4>2. versions' = versions
        BY <2>0, <3>1, <3>3, AbstractWritten
      <4> QED
        BY <2>7, <3>1, <3>3, <4>1, <4>2
           DEF Upload, Store!Create, Store!PayloadOf, None, Store!None
    <3> QED
      BY <2>7, <3>2, <3>3 DEF Upload
  <2>8. CASE Inspect(c)
    <3>0. call'[c].pc = "compare" /\ call'[c].digest = call[c].digest
      BY <2>8 DEF Inspect, Goto, TypeOK
    <3>1. Abstract(c)' = Abstract(c)
      BY <2>8, <3>0 DEF Inspect, Abstract, Outcome
    <3> QED
      BY <2>8, <3>1, AbstractGoto DEF Inspect
  <2>9. CASE Compare(c)
    <3>1. abstract[c] = IF object = call[c].digest THEN "reused" ELSE "refused"
      BY <2>0, <2>9 DEF Compare, Abstract, Outcome
    <3>2. /\ versions' = versions
          /\ abstract' = [abstract EXCEPT ![c] =
                            IF object = call[c].digest THEN "returned" ELSE "exists"]
      BY <2>9, AbstractEnds DEF Compare, Outcome
    <3> QED
      BY <2>9, <3>1, <3>2 DEF Compare, Store!Tell
  <2> QED
    BY <1>2, <2>1, <2>2, <2>3, <2>4, <2>5, <2>6, <2>7, <2>8, <2>9 DEF Step
<1>3. CASE UNCHANGED vars
    BY <1>3 DEF vars, Abstract
<1> QED
    BY <1>1, <1>2, <1>3 DEF Next

\* The sequence of retried requests implements the store that the tests run against.
THEOREM StoreImplemented == Spec => ImplementsStore
    BY TypeInit, TypeNext, ReasonsInit, ReasonsNext, StoreInit, StoreNext, PTL
       DEF Spec, ImplementsStore, Store!Spec

\* What a call was told is so and stays so.
THEOREM AnswersTold == Spec => []Store!AnswersHold
<1>1. TypeOK /\ Reasons => Store!AnswersHold
    BY DEF TypeOK, Reasons, Store!AnswersHold, Store!PayloadOf, Store!Current, Current,
           Abstract, Outcome, Call, Store!Call, None, Store!None
<1> QED
    BY <1>1, TypeCorrect, ReasonsHold, PTL
==============================================================================
