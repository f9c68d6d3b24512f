---------------------------- MODULE StreamDemoProofs ----------------------------
(***************************************************************************)
(* Theorems about StreamDemo for any fixture, any runs that overlap or     *)
(* not, any number of polls, of repeated publications and of redeliveries. *)
(***************************************************************************)
EXTENDS StreamDemo, LocalDemo, FiniteSetTheorems, FunctionTheorems, TLAPS

----------------------------------------------------------------------------
(* Types.                                                                  *)

Place == Ended \cup {"launch", "running", "publish", "stages", "drain", "drained",
                     "build", "evidence", "discover", "inspect", "cancelled"}

FlowType ==
    /\ pc \in [Run -> Place]
    /\ tries \in [Run -> [Wait -> 0 .. mode.polls - 1]]
    /\ done \in [Run -> SUBSET (Stages \cup Evidence \cup Models)]
    /\ known \in [Run -> BOOLEAN]
    /\ outcome \in [Run -> {"none", "notfound", "ended", "refused", "error"}]
    /\ job \in [Run -> JobState]
    /\ late \in [Run -> SUBSET ({"publish"} \cup Models)]
    /\ mode \in Modes

DataType ==
    /\ published \subseteq Message
    /\ backlog \subseteq published
    /\ silver \subseteq Row /\ quarantine \subseteq Row
    /\ latest \in [Event -> SUBSET Message] /\ audit \subseteq Message
    /\ outdated \subseteq Run
    /\ release \in Releases
    /\ \A m \in Message : IsFiniteSet(Ingestions(m))

LEMMA TypeSplit == FlowType /\ DataType => TypeOK
    BY DEF FlowType, DataType, TypeOK, Place

\* There is a poll in every wait.
LEMMA PollsPositive == ASSUME mode \in Modes PROVE mode.polls \in Nat \ {0}
    BY ModesAssumption

LEMMA TypeInit == Init => FlowType /\ DataType
<1> SUFFICES ASSUME Init PROVE FlowType /\ DataType
    OBVIOUS
<1>1. [w \in Wait |-> 0] \in [Wait -> 0 .. mode.polls - 1]
    BY PollsPositive DEF Init
<1>2. FlowType
    BY <1>1 DEF Init, FlowType, Place, Ended, JobState
<1>3. \A m : Ingestions(m) = {}
    BY DEF Init, Ingestions
<1>4. DataType
    BY <1>3, FS_EmptySet DEF Init, DataType
<1> QED
    BY <1>2, <1>4

\* Going on keeps the types of the control.
LEMMA GotoType ==
    ASSUME FlowType, NEW r \in Run, NEW next \in Place, Goto(r, next)
    PROVE  /\ pc' \in [Run -> Place]
           /\ tries' \in [Run -> [Wait -> 0 .. mode.polls - 1]]
           /\ done' \in [Run -> SUBSET (Stages \cup Evidence \cup Models)]
<1>1. [w \in Wait |-> 0] \in [Wait -> 0 .. mode.polls - 1]
    BY PollsPositive DEF FlowType
<1> QED
    BY <1>1 DEF FlowType, Goto

LEMMA AgainType ==
    ASSUME FlowType, NEW r \in Run, NEW wait \in Wait, NEW next \in Place,
           Again(r, wait, next)
    PROVE  /\ pc' \in [Run -> Place]
           /\ tries' \in [Run -> [Wait -> 0 .. mode.polls - 1]]
           /\ done' \in [Run -> SUBSET (Stages \cup Evidence \cup Models)]
<1>1. CASE Goto(r, next)
    BY <1>1, GotoType
<1>2. CASE /\ tries[r][wait] + 1 # mode.polls
           /\ tries' = [tries EXCEPT ![r][wait] = tries[r][wait] + 1]
           /\ UNCHANGED <<pc, done>>
  <2>1. tries[r] \in [Wait -> 0 .. mode.polls - 1] /\ mode.polls \in Nat \ {0}
    BY PollsPositive DEF FlowType
  <2>2. tries[r][wait] + 1 \in 0 .. mode.polls - 1
    BY <1>2, <2>1
  <2>3. [tries[r] EXCEPT ![wait] = tries[r][wait] + 1] \in [Wait -> 0 .. mode.polls - 1]
    BY <2>1, <2>2
  <2>4. tries' = [tries EXCEPT ![r] = [tries[r] EXCEPT ![wait] = tries[r][wait] + 1]]
    BY <1>2
  <2> QED
    BY <1>2, <2>3, <2>4 DEF FlowType
<1> QED
    BY <1>1, <1>2 DEF Again

LEMMA PollType ==
    ASSUME FlowType, NEW r \in Run, NEW branch \in Stages \cup Evidence, NEW found,
           Poll(r, branch, found)
    PROVE  /\ pc' \in [Run -> Place]
           /\ tries' \in [Run -> [Wait -> 0 .. mode.polls - 1]]
           /\ done' \in [Run -> SUBSET (Stages \cup Evidence \cup Models)]
<1>1. branch \in Wait /\ Handler(r) \in Place
    BY DEF Stages, Evidence, Wait, Handler, Place
<1>2. CASE Again(r, branch, Handler(r))
    BY <1>1, <1>2, AgainType
<1>3. CASE done' = [done EXCEPT ![r] = done[r] \cup {branch}] /\ UNCHANGED <<pc, tries>>
    BY <1>3 DEF FlowType
<1> QED
    BY <1>2, <1>3 DEF Poll

LEMMA WaitStateType ==
    ASSUME FlowType, NEW r \in Run, NEW target, NEW next \in Place, NEW otherwise \in Place,
           WaitState(r, target, next, otherwise)
    PROVE  /\ pc' \in [Run -> Place]
           /\ tries' \in [Run -> [Wait -> 0 .. mode.polls - 1]]
           /\ done' \in [Run -> SUBSET (Stages \cup Evidence \cup Models)]
    BY GotoType, AgainType DEF WaitState, Wait

----------------------------------------------------------------------------

FlowNext(r) ==
    \/ Begin(r) \/ LaunchFlex(r) \/ WaitRunning(r) \/ Published(r) \/ CheckStages(r)
    \/ StagesChecked(r) \/ RequestDrain(r) \/ WaitDrained(r) \/ Built(r)
    \/ CheckEvidence(r) \/ Succeed(r) \/ CallFails(r) \/ Discover(r) \/ InspectKnown(r)
    \/ WaitCancelled(r) \/ CleanupFails(r)

\* Those steps leave the topic, the tables and the models alone.
LEMMA FlowFrame ==
    ASSUME NEW r \in Run, FlowNext(r)
    PROVE  UNCHANGED <<topic, tables, models, batch, mode>>
    BY DEF FlowNext, topic, tables, models, batch, outside,
           Begin, Published, StagesChecked, RequestDrain, Built,
           Succeed, CallFails, LaunchFlex, InspectKnown, CleanupFails, Discover, WaitCancelled,
           WaitRunning, WaitDrained, CheckStages, CheckEvidence

LEMMA FlowTypeNext ==
    ASSUME FlowType, NEW r \in Run, FlowNext(r)
    PROVE  FlowType'
<1> DEFINE Control ==
        /\ pc' \in [Run -> Place]
        /\ tries' \in [Run -> [Wait -> 0 .. mode.polls - 1]]
        /\ done' \in [Run -> SUBSET (Stages \cup Evidence \cup Models)]
<1>1. Handler(r) \in Place /\ Ended \subseteq Place
    BY DEF Handler, Place
<1>2. \A next \in Place : Goto(r, next) => Control
    BY GotoType
<1>3. \A next \in Place, wait \in Wait : Again(r, wait, next) => Control
    BY AgainType
<1>4. Control
  <2> HIDE DEF Control
  <2>1. CASE Begin(r) \/ Published(r) \/ StagesChecked(r) \/ RequestDrain(r) \/ Built(r)
             \/ Succeed(r) \/ CallFails(r) \/ LaunchFlex(r)
    BY <1>1, <1>2, <2>1
    DEF Begin, Published, StagesChecked, RequestDrain, Built, Succeed, CallFails, LaunchFlex,
        Place, Ended
  <2>2. CASE InspectKnown(r) \/ CleanupFails(r) \/ Discover(r) \/ WaitCancelled(r)
    BY <1>1, <1>2, <1>3, <2>2
    DEF InspectKnown, CleanupFails, Discover, WaitCancelled, Finish, Place, Ended, Wait
  <2>3. CASE WaitRunning(r) \/ WaitDrained(r)
    BY <1>1, <2>3, WaitStateType DEF WaitRunning, WaitDrained, Place, Control
  <2>4. CASE CheckStages(r) \/ CheckEvidence(r)
    BY <2>4, PollType DEF CheckStages, CheckEvidence, Stages, Evidence, Control
  <2> QED
    BY <2>1, <2>2, <2>3, <2>4 DEF FlowNext
<1>5. known' \in [Run -> BOOLEAN] /\ mode' \in Modes
    BY DEF FlowNext, FlowType, outside, Begin, Published, StagesChecked, RequestDrain, Built,
           Succeed, CallFails, LaunchFlex, InspectKnown, CleanupFails, Discover, WaitCancelled,
           WaitRunning, WaitDrained, CheckStages, CheckEvidence
<1>6. outcome' \in [Run -> {"none", "notfound", "ended", "refused", "error"}]
    BY DEF FlowNext, FlowType, Begin, Published, StagesChecked, RequestDrain, Built,
           Succeed, CallFails, LaunchFlex, InspectKnown, CleanupFails, Discover, WaitCancelled,
           WaitRunning, WaitDrained, CheckStages, CheckEvidence, Finish
<1>7. job' \in [Run -> JobState]
    BY DEF FlowNext, FlowType, JobState, Active, Begin, Published, StagesChecked, RequestDrain,
           Built, Succeed, CallFails, LaunchFlex, InspectKnown, CleanupFails, Discover,
           WaitCancelled, WaitRunning, WaitDrained, CheckStages, CheckEvidence
<1>8. mode' = mode
    BY FlowFrame
<1>9. late' \in [Run -> SUBSET ({"publish"} \cup Models)]
  <2>1. CASE CallFails(r)
    <3>1. Unfinished(r) \subseteq {"publish"} \cup Models
      BY DEF Unfinished
    <3> QED
      BY <2>1, <3>1 DEF CallFails, FlowType
  <2>2. CASE ~CallFails(r)
    <3>1. late' = late
      BY <2>2
      DEF FlowNext, outside, Begin, Published, StagesChecked, RequestDrain, Built,
          Succeed, LaunchFlex, InspectKnown, CleanupFails, Discover, WaitCancelled,
          WaitRunning, WaitDrained, CheckStages, CheckEvidence
    <3> QED
      BY <3>1 DEF FlowType
  <2> QED
    BY <2>1, <2>2
<1> QED
    BY <1>4, <1>5, <1>6, <1>7, <1>8, <1>9 DEF FlowType

LEMMA SameData ==
    ASSUME UNCHANGED <<topic, tables, models, batch>>, DataType
    PROVE  DataType'
    BY DEF DataType, topic, tables, models, batch, Ingestions

LEMMA SameFlow ==
    ASSUME UNCHANGED <<flow, job, late, mode>>, FlowType
    PROVE  FlowType'
    BY DEF FlowType, flow

\* The next record of the fixture is one of its records, and is sent once or twice.
LEMMA PublishType ==
    ASSUME FlowType, DataType, NEW r \in Run, PublishNext(r),
           UNCHANGED <<flow, job, tables, models, outside>>
    PROVE  (FlowType /\ DataType)'
<1>1. FlowType'
    BY SameFlow DEF outside
<1>2. PICK messages \in SUBSET Message : Accept(messages)
    BY DEF PublishNext, Message, Copy
<1>3. UNCHANGED <<tables, models, batch>>
    BY DEF outside
<1> QED
    BY <1>1, <1>2, <1>3 DEF DataType, Accept, tables, models, batch, Ingestions

\* The models select staged messages.
LEMMA SelectedStaged ==
    ASSUME DataType
    PROVE  /\ MessagesOf(LatestOf(silver)) \subseteq Message
           /\ MessagesOf(AuditOf(silver)) \subseteq Message
    BY DEF DataType, MessagesOf, LatestOf, AuditOf, LogicalMessages, Row

LEMMA ModelType ==
    ASSUME DataType, UNCHANGED <<topic, tables, batch>>,
           (MergeLatest /\ UNCHANGED audit) \/ (AppendAudit /\ UNCHANGED latest)
    PROVE  DataType'
<1>1. latest' \in [Event -> SUBSET Message] /\ audit' \subseteq Message
    BY SelectedStaged DEF MergeLatest, Selected, AppendAudit, DataType
<1> QED
    BY <1>1 DEF DataType, topic, tables, batch, Ingestions

LEMMA BuildType ==
    ASSUME FlowType, DataType, NEW r \in Run, BuildLatest(r) \/ BuildAudit(r)
    PROVE  (FlowType /\ DataType)'
<1>1. FlowType'
    BY DEF BuildLatest, BuildAudit, FlowType, outside, Models
<1> QED
    BY <1>1, ModelType DEF BuildLatest, BuildAudit, outside

\* So does a job whose call was given up.
LEMMA LeftoverType ==
    ASSUME FlowType, DataType, NEW r \in Run, Leftover(r)
    PROVE  (FlowType /\ DataType)'
<1>1. CASE PublishNext(r) /\ UNCHANGED <<flow, job, tables, models, outside>>
    BY <1>1, PublishType
<1>2. ASSUME NEW model \in Models, late' = [late EXCEPT ![r] = late[r] \ {model}],
             UNCHANGED <<flow, job, topic, tables, batch, mode>>,
             (MergeLatest /\ UNCHANGED audit) \/ (AppendAudit /\ UNCHANGED latest)
      PROVE  (FlowType /\ DataType)'
    BY <1>2, ModelType DEF FlowType, flow
<1> QED
    BY <1>1, <1>2 DEF Leftover, Models

\* A delivery adds one row, with an ingestion of its own.
LEMMA DeliverType ==
    ASSUME FlowType, DataType, NEW r \in Run, Deliver(r)
    PROVE  (FlowType /\ DataType)'
<1>1. FlowType'
    BY SameFlow DEF Deliver, outside
<1>2. PICK m \in backlog :
        /\ silver' \cup quarantine' =
                silver \cup quarantine
                    \cup {[message |-> m, ingestion |-> Cardinality(Ingestions(m)) + 1]}
        /\ silver \subseteq silver' /\ quarantine \subseteq quarantine'
        /\ backlog' \subseteq backlog
    BY DEF Deliver, Process
<1> DEFINE row == [message |-> m, ingestion |-> Cardinality(Ingestions(m)) + 1]
<1>3. row \in Row
  <2>1. m \in Message
    BY DEF DataType
  <2>2. Cardinality(Ingestions(m)) \in Nat
    BY <2>1, FS_CardinalityType DEF DataType
  <2> QED
    BY <2>1, <2>2 DEF Row
<1> HIDE DEF row
<1>4. silver' \subseteq Row /\ quarantine' \subseteq Row
    BY <1>2, <1>3 DEF DataType, row
<1>5. ASSUME NEW n \in Message PROVE IsFiniteSet(Ingestions(n)')
  <2>1. IsFiniteSet(Ingestions(n) \cup {row.ingestion})
    BY FS_AddElement DEF DataType
  <2>2. Ingestions(n)' \subseteq Ingestions(n) \cup {row.ingestion}
    BY <1>2 DEF Ingestions, row
  <2> QED
    BY <2>1, <2>2, FS_Subset
<1>6. UNCHANGED <<published, models, batch>>
    BY DEF Deliver, outside
<1> QED
    BY <1>1, <1>2, <1>4, <1>5, <1>6 DEF DataType, models, batch

LEMMA JobType ==
    ASSUME FlowType, DataType, NEW r \in Run, JobMoves(r)
    PROVE  (FlowType /\ DataType)'
<1>1. job' \in [Run -> JobState]
    BY DEF JobMoves, FlowType, JobState, Active, Terminal
<1>2. FlowType'
    BY <1>1 DEF JobMoves, FlowType, flow, outside
<1> QED
    BY <1>2, SameData DEF JobMoves, outside

LEMMA TypeNext == FlowType /\ DataType /\ [Next]_vars => (FlowType /\ DataType)'
<1> SUFFICES ASSUME FlowType, DataType, [Next]_vars PROVE (FlowType /\ DataType)'
    OBVIOUS
<1>1. ASSUME NEW r \in Run, Step(r) PROVE (FlowType /\ DataType)'
  <2>1. CASE FlowNext(r)
    BY <2>1, FlowTypeNext, FlowFrame, SameData
  <2>2. CASE Publish(r)
    BY <2>2, PublishType DEF Publish
  <2> QED
    BY <1>1, <2>1, <2>2, BuildType DEF Step, FlowNext
<1>2. CASE Promote
  <2>1. {m.run : m \in published} \subseteq Run
    BY DEF DataType, Message
  <2>2. outdated' \subseteq Run
    BY <1>2, <2>1 DEF Promote, DataType
  <2> QED
    BY <1>2, <2>2 DEF Promote, FlowType, DataType, flow, topic, tables, models, Ingestions
<1>3. CASE UNCHANGED vars
    BY <1>3, SameFlow, SameData DEF vars, outside
<1> QED
    BY <1>1, <1>2, <1>3, DeliverType, JobType, LeftoverType DEF Next, Environment

\* The types hold in every reachable state.
THEOREM TypeCorrect == Spec => []TypeOK
    BY TypeInit, TypeNext, TypeSplit, PTL DEF Spec

THEOREM PartsTyped == Spec => [](FlowType /\ DataType)
    BY TypeInit, TypeNext, PTL DEF Spec

----------------------------------------------------------------------------
(* Routing.                                                                *)

\* A published message waits or has a row, and each row is where its content calls for.
RoutedInv ==
    /\ \A m \in published : m \in backlog \cup MessagesOf(silver) \cup MessagesOf(quarantine)
    /\ \A p \in silver : Decodes(p.message)
    /\ \A p \in quarantine : ~Decodes(p.message)

LEMMA SameRouted == RoutedInv /\ UNCHANGED <<topic, tables>> => RoutedInv'
    BY DEF RoutedInv, topic, tables, MessagesOf, Decodes

LEMMA DeliverRouted ==
    ASSUME RoutedInv, NEW r \in Run, Deliver(r)
    PROVE  RoutedInv'
<1>1. PICK m \in backlog :
        LET row == [message |-> m, ingestion |-> Cardinality(Ingestions(m)) + 1]
        IN  /\ silver' = silver \cup Process(row).valid
            /\ quarantine' = quarantine \cup Process(row).quarantine
            /\ backlog' = backlog \ {m} \/ backlog' = backlog
    BY DEF Deliver
<1> DEFINE row == [message |-> m, ingestion |-> Cardinality(Ingestions(m)) + 1]
<1>2. row.message = m
    OBVIOUS
<1> HIDE DEF row
<1>3. /\ silver' = silver \cup (IF Decodes(m) THEN {row} ELSE {})
      /\ quarantine' = quarantine \cup (IF Decodes(m) THEN {} ELSE {row})
    BY <1>1, <1>2 DEF Process, row
<1>4. \A n : Decodes(n)' = Decodes(n)
    BY DEF Decodes
<1>5. published' = published
    BY DEF Deliver
<1>6. m \in MessagesOf(silver') \cup MessagesOf(quarantine')
    BY <1>2, <1>3 DEF MessagesOf
<1>7. /\ MessagesOf(silver) \subseteq MessagesOf(silver')
      /\ MessagesOf(quarantine) \subseteq MessagesOf(quarantine')
    BY <1>3 DEF MessagesOf
<1>8. \A n \in published :
        n \in backlog' \cup MessagesOf(silver') \cup MessagesOf(quarantine')
    BY <1>1, <1>6, <1>7 DEF RoutedInv
<1> QED
    BY <1>2, <1>3, <1>4, <1>5, <1>8 DEF RoutedInv, MessagesOf

LEMMA RoutedNext == RoutedInv /\ [Next]_vars => RoutedInv'
<1> SUFFICES ASSUME RoutedInv, [Next]_vars PROVE RoutedInv'
    OBVIOUS
<1>1. ASSUME NEW r \in Run, PublishNext(r), UNCHANGED tables PROVE RoutedInv'
  <2>1. PICK messages : Accept(messages)
    BY <1>1 DEF PublishNext
  <2> QED
    BY <1>1, <2>1 DEF Accept, RoutedInv, tables, MessagesOf, Decodes
<1>2. ASSUME NEW r \in Run, Step(r), ~Publish(r) PROVE RoutedInv'
  <2>1. UNCHANGED <<topic, tables>>
    BY <1>2, FlowFrame DEF Step, FlowNext, BuildLatest, BuildAudit
  <2> QED
    BY <2>1, SameRouted
<1>3. CASE UNCHANGED vars \/ Promote \/ \E r \in Run : JobMoves(r)
    BY <1>3, SameRouted DEF vars, Promote, JobMoves
<1>4. ASSUME NEW r \in Run, Leftover(r) PROVE RoutedInv'
    BY <1>1, <1>4, SameRouted DEF Leftover
<1> QED
    BY <1>1, <1>2, <1>3, <1>4, DeliverRouted DEF Next, Environment, Publish

LEMMA RoutedInit == Init => RoutedInv
    BY DEF Init, RoutedInv

\* Whatever is repeated, redelivered, drained or cancelled, an accepted message waits or
\* is in one table, the one its content calls for.
THEOREM MessagesRouted == Spec => []RoutedOnce
<1>1. RoutedInv => RoutedOnce
    BY DEF RoutedInv, RoutedOnce, MessagesOf
<1> QED
    BY <1>1, RoutedInit, RoutedNext, PTL DEF Spec

----------------------------------------------------------------------------
(* Cleanup.                                                                *)

\* What an execution knows of its job at each place of its control.
JobKnown(r) ==
    /\ pc[r] \in {"new", "launch"} => job[r] = "none" /\ ~known[r] /\ outcome[r] = "none"
    /\ known[r] => job[r] \notin {"none", "starting"}
    /\ pc[r] = "inspect" => known[r]
    /\ pc[r] = "discover" => ~known[r]
    /\ pc[r] = "cancelled" => job[r] \in Terminal \cup {"cancelling"}
    /\ pc[r] = "failed" =>
        \/ outcome[r] = "none" /\ job[r] = "none"
        \/ outcome[r] = "error"
        \/ outcome[r] = "notfound" /\ ~known[r]
        \/ outcome[r] \in {"ended", "refused"} /\ job[r] \in Terminal \cup {"cancelling"}

\* A run that builds has drained its job.
JobDrained(r) == pc[r] \in {"build", "evidence", "succeeded"} => job[r] = "drained"

CleanupInv == \A r \in Run : JobKnown(r) /\ JobDrained(r)

\* A step of an execution or of its job leaves those of the others alone.
LEMMA OwnJob ==
    ASSUME FlowType, NEW r \in Run, Step(r) \/ JobMoves(r), NEW q \in Run, q # r
    PROVE  UNCHANGED <<pc[q], known[q], outcome[q], job[q], done[q]>>
    BY DEF FlowType, Step, JobMoves, flow, Begin, LaunchFlex, WaitRunning, WaitState, Publish,
           Published, CheckStages, StagesChecked, RequestDrain, WaitDrained, BuildLatest,
           BuildAudit, Built, CheckEvidence, Succeed, CallFails, Discover, InspectKnown,
           WaitCancelled, CleanupFails, Finish, Poll, Again, Goto

\* Where a wait can lead.
LEMMA WaitLeads ==
    ASSUME FlowType, NEW r \in Run, NEW target, NEW next, NEW otherwise,
           WaitState(r, target, next, otherwise)
    PROVE  \/ pc'[r] \in {otherwise, pc[r]}
           \/ pc'[r] = next /\ job[r] = target
    BY DEF WaitState, Again, Goto, FlowType

LEMMA PollLeads ==
    ASSUME FlowType, NEW r \in Run, NEW branch, NEW found, Poll(r, branch, found)
    PROVE  /\ pc'[r] \in {Handler(r), pc[r]}
           /\ done'[r] \in {{}, done[r], done[r] \cup {branch}}
           /\ branch \in done'[r] => found
    BY DEF Poll, Again, Goto, FlowType

\* A wait that has polls left stays where it is.
LEMMA AgainStays ==
    ASSUME FlowType, NEW r \in Run, NEW next, Again(r, "job", next),
           tries[r]["job"] + 1 < mode.polls
    PROVE  UNCHANGED pc
<1>1. tries[r]["job"] \in Nat /\ mode.polls \in Nat
    BY PollsPositive DEF FlowType, Wait
<1>2. tries[r]["job"] + 1 # mode.polls
    BY <1>1
<1> QED
    BY <1>2 DEF Again

\* The places between the launch and the end, from which an error leads to the cleanup.
AtWork == {"running", "publish", "stages", "drain", "drained", "build", "evidence"}

\* Steps that leave the job and what is known of it alone.
Steady(r) ==
    /\ UNCHANGED <<job[r], known[r], outcome[r]>>
    /\ pc[r] \in AtWork
    /\ \/ pc'[r] \in {Handler(r), pc[r]}
       \/ pc[r] = "running" /\ pc'[r] = "publish"
       \/ pc[r] = "publish" /\ pc'[r] = "stages"
       \/ pc[r] = "stages" /\ pc'[r] = "drain"
       \/ pc[r] = "drained" /\ pc'[r] = "build" /\ job[r] = "drained"
       \/ pc[r] = "build" /\ pc'[r] = "evidence"
       \/ pc[r] = "evidence" /\ pc'[r] = "succeeded"

LEMMA SteadySteps ==
    ASSUME FlowType, NEW r \in Run,
           \/ WaitRunning(r) \/ Publish(r) \/ Published(r) \/ CheckStages(r)
           \/ StagesChecked(r) \/ WaitDrained(r) \/ BuildLatest(r) \/ BuildAudit(r)
           \/ Built(r) \/ CheckEvidence(r) \/ Succeed(r) \/ CallFails(r)
    PROVE  Steady(r)
<1>1. CASE WaitRunning(r) \/ WaitDrained(r)
    BY <1>1, WaitLeads DEF WaitRunning, WaitDrained, Steady, AtWork
<1>2. CASE CheckStages(r) \/ CheckEvidence(r)
    BY <1>2, PollLeads DEF CheckStages, CheckEvidence, Steady, AtWork
<1>3. CASE Publish(r) \/ BuildLatest(r) \/ BuildAudit(r)
    BY <1>3 DEF Publish, BuildLatest, BuildAudit, Steady, AtWork, flow
<1>4. CASE Published(r) \/ StagesChecked(r) \/ Built(r) \/ Succeed(r) \/ CallFails(r)
    BY <1>4 DEF Published, StagesChecked, Built, Succeed, CallFails, Steady, AtWork, Goto, FlowType
<1> QED
    BY <1>1, <1>2, <1>3, <1>4

LEMMA CleanupStep ==
    ASSUME FlowType, CleanupInv, NEW r \in Run, Step(r) \/ JobMoves(r)
    PROVE  (JobKnown(r) /\ JobDrained(r))'
<1> USE DEF JobKnown, JobDrained
<1>1. JobKnown(r) /\ JobDrained(r) /\ job[r] \in JobState
    BY DEF CleanupInv, FlowType
<1>2. ASSUME Steady(r) PROVE (JobKnown(r) /\ JobDrained(r))'
    BY <1>1, <1>2 DEF Steady, AtWork, Handler
<1>3. CASE Begin(r)
    BY <1>1, <1>3 DEF Begin, Goto, FlowType
<1>4. CASE LaunchFlex(r)
    BY <1>1, <1>4 DEF LaunchFlex, Goto, FlowType, Terminal
<1>5. CASE RequestDrain(r)
    BY <1>1, <1>5 DEF RequestDrain, Goto, FlowType, Handler
<1>6. CASE Discover(r)
    BY <1>1, <1>6, AgainStays DEF Discover, Finish, Goto, FlowType, Active
<1>7. CASE InspectKnown(r)
    BY <1>1, <1>7 DEF InspectKnown, Finish, Goto, FlowType, Active, Terminal
<1>8. CASE WaitCancelled(r)
    BY <1>1, <1>8, AgainStays DEF WaitCancelled, Finish, Goto, FlowType, Terminal
<1>9. CASE CleanupFails(r)
    BY <1>1, <1>9 DEF CleanupFails, Finish, Goto, FlowType
<1>10. CASE JobMoves(r)
  <2>1. UNCHANGED <<pc, known, outcome>>
    BY <1>10 DEF JobMoves, flow
  <2>2. \/ job[r] = "starting" /\ job'[r] = "pending"
        \/ job[r] = "pending" /\ job'[r] = "running"
        \/ job[r] = "draining" /\ job'[r] = "drained"
        \/ job[r] = "cancelling" /\ job'[r] = "cancelled"
        \/ job[r] \in Active /\ job'[r] = "failed"
    BY <1>10 DEF JobMoves, FlowType
  <2> QED
    BY <1>1, <2>1, <2>2 DEF Active, Terminal
<1> QED
    BY <1>2, <1>3, <1>4, <1>5, <1>6, <1>7, <1>8, <1>9, <1>10, SteadySteps DEF Step

LEMMA CleanupNext == FlowType /\ CleanupInv /\ [Next]_vars => CleanupInv'
<1> SUFFICES ASSUME FlowType, CleanupInv, [Next]_vars PROVE CleanupInv'
    OBVIOUS
<1>1. ASSUME NEW r \in Run, Step(r) \/ JobMoves(r) PROVE CleanupInv'
    BY <1>1, CleanupStep, OwnJob DEF CleanupInv, JobKnown, JobDrained
<1>2. CASE UNCHANGED vars \/ Promote \/ \E r \in Run : Deliver(r) \/ Leftover(r)
  <2>1. UNCHANGED <<pc, known, outcome, job>>
    BY <1>2 DEF vars, Promote, Deliver, Leftover, flow
  <2> QED
    BY <2>1 DEF CleanupInv, JobKnown, JobDrained
<1> QED
    BY <1>1, <1>2 DEF Next, Environment

LEMMA CleanupInit == Init => CleanupInv
    BY DEF Init, CleanupInv, JobKnown, JobDrained

THEOREM CleanupInvariant == Spec => []CleanupInv
    BY PartsTyped, CleanupInit, CleanupNext, PTL DEF Spec

\* A failed run leaves its job at work only when a call of the cleanup failed, or when
\* the answer of the launch was lost and the search for the job was given up.
THEOREM OrphansExplained == Spec => []OrphanExplained
<1>1. CleanupInv => OrphanExplained
    BY DEF CleanupInv, JobKnown, OrphanExplained, Terminal
<1> QED
    BY <1>1, CleanupInvariant, PTL

----------------------------------------------------------------------------
(* Success.                                                                *)

\* The records of the fixture a run has published.
Sent(r) == {m.index : m \in {n \in published : n.run = r}}

\* The messages of a run are in the tables.
AllStaged(r) == {m \in published : m.run = r} \subseteq MessagesOf(silver \cup quarantine)

SuccessInv ==
    \A r \in Run :
        /\ late[r] # {} => pc[r] \in {"discover", "inspect", "cancelled", "failed"}
        /\ \E k \in 0 .. Len(Fixture) : Sent(r) = 1 .. k
        /\ pc[r] \in {"new", "launch", "running"} => Sent(r) = {}
        /\ pc[r] \in {"stages", "drain", "drained", "build", "evidence", "succeeded"} =>
            Sent(r) = Index
        /\ pc[r] = "evidence" /\ "backlog" \in done[r] => AllStaged(r)
        /\ pc[r] = "succeeded" => AllStaged(r)

\* The tables only grow.
LEMMA StagedGrows ==
    ASSUME [Next]_vars
    PROVE  MessagesOf(silver \cup quarantine) \subseteq MessagesOf(silver \cup quarantine)'
<1>1. silver \subseteq silver' /\ quarantine \subseteq quarantine'
  <2>1. ASSUME NEW r \in Run, FlowNext(r) PROVE UNCHANGED tables
    BY <2>1, FlowFrame
  <2> QED
    BY <2>1 DEF Next, Environment, Step, FlowNext, vars, tables, Promote, JobMoves, Deliver,
                Leftover, Publish, BuildLatest, BuildAudit
<1> QED
    BY <1>1 DEF MessagesOf

\* The number of records a run has sent is the position of the last.
LEMMA NextPosition ==
    ASSUME NEW r \in Run, NEW k \in Nat, Sent(r) = 1 .. k
    PROVE  NextIndex(r) = k + 1
<1>1. Cardinality(1 .. k) = k
    BY FS_Interval
<1> QED
    BY <1>1 DEF NextIndex, Sent

LEMMA LastPosition == \A n \in Nat : \A k \in 0 .. n : k + 1 \notin 1 .. n => k = n
    OBVIOUS

\* A publication of a run adds its next record.
LEMMA PublishSends ==
    ASSUME SuccessInv, NEW r \in Run, pc[r] = "publish" \/ "publish" \in late[r],
           PublishNext(r), UNCHANGED <<flow, tables, outside>>
    PROVE  SuccessInv'
<1> USE FixtureAssumption
<1>1. PICK k \in 0 .. Len(Fixture) : Sent(r) = 1 .. k
    BY DEF SuccessInv
<1>2. NextIndex(r) = k + 1 /\ k + 1 \in 1 .. Len(Fixture)
    BY <1>1, NextPosition DEF PublishNext, Index
<1>3. Sent(r)' = Sent(r) \cup {k + 1}
  <2> DEFINE copy(c) == [run |-> r, index |-> k + 1, copy |-> c]
  <2>1. \/ published' = published \cup {copy(1)}
        \/ published' = published \cup {copy(1), copy(2)}
    BY <1>2 DEF PublishNext, Accept
  <2>2. \A c : copy(c).run = r /\ copy(c).index = k + 1
    OBVIOUS
  <2> HIDE DEF copy
  <2> QED
    BY <2>1, <2>2 DEF Sent
<1>4. Sent(r)' = 1 .. k + 1 /\ k + 1 \in 0 .. Len(Fixture)
    BY <1>1, <1>2, <1>3
<1>5. \A q \in Run \ {r} : {m \in published' : m.run = q} = {m \in published : m.run = q}
    BY DEF PublishNext, Accept
<1>6. /\ UNCHANGED <<pc, done, late, tables>>
      /\ pc[r] \in {"publish", "discover", "inspect", "cancelled", "failed"}
    BY DEF flow, outside, SuccessInv
<1>7. \A q \in Run \ {r} : Sent(q)' = Sent(q) /\ (AllStaged(q) => AllStaged(q)')
    BY <1>5, <1>6 DEF Sent, AllStaged, tables
<1> QED
    BY <1>4, <1>6, <1>7 DEF SuccessInv

\* How an execution comes to its checks, its evidence and its success.
LEMMA Reaches ==
    ASSUME FlowType, NEW r \in Run, Step(r)
    PROVE  /\ pc'[r] = "stages" => CheckStages(r) \/ Published(r)
           /\ pc'[r] = "evidence" => CheckEvidence(r) \/ Built(r)
           /\ pc'[r] = "succeeded" => pc[r] = "evidence" /\ done[r] = Evidence
<1>1. CASE WaitRunning(r) \/ WaitDrained(r)
    BY <1>1, WaitLeads DEF WaitRunning, WaitDrained, Handler
<1>2. CASE CheckStages(r) \/ CheckEvidence(r)
    BY <1>2, PollLeads DEF CheckStages, CheckEvidence, Handler
<1>3. CASE Publish(r) \/ BuildLatest(r) \/ BuildAudit(r)
    BY <1>3 DEF Publish, BuildLatest, BuildAudit, flow
<1>4. CASE Published(r) \/ StagesChecked(r) \/ Built(r) \/ Succeed(r) \/ CallFails(r)
    BY <1>4 DEF Published, StagesChecked, Built, Succeed, CallFails, Goto, FlowType, Handler
<1>5. CASE Begin(r) \/ LaunchFlex(r) \/ InspectKnown(r) \/ CleanupFails(r) \/ RequestDrain(r)
    BY <1>5
    DEF Begin, LaunchFlex, InspectKnown, CleanupFails, RequestDrain, Finish, Goto, FlowType,
        Handler
<1>6. CASE Discover(r) \/ WaitCancelled(r)
    BY <1>6, AgainStays DEF Discover, WaitCancelled, Finish, Goto, FlowType
<1> QED
    BY <1>1, <1>2, <1>3, <1>4, <1>5, <1>6 DEF Step

\* Only a failing call leaves its job at work, and from the cleanup none returns.
LEMMA OwnLate ==
    ASSUME FlowType, NEW r \in Run, Step(r)
    PROVE  /\ \A q \in Run \ {r} : late'[q] = late[q]
           /\ "publish" \notin late'[r] => "publish" \notin late[r] \/ CallFails(r)
           /\ (late[r] # {} => pc[r] \in {"discover", "inspect", "cancelled", "failed"}) =>
                (late'[r] # {} => pc'[r] \in {"discover", "inspect", "cancelled", "failed"})
<1>1. CASE CallFails(r)
    BY <1>1 DEF CallFails, Goto, Handler, FlowType
<1>2. CASE ~CallFails(r)
  <2>1. late' = late
    BY <1>2
    DEF Step, outside, Begin, Published, StagesChecked, RequestDrain, Built, Succeed,
        LaunchFlex, InspectKnown, CleanupFails, Discover, WaitCancelled, WaitRunning,
        WaitDrained, CheckStages, CheckEvidence, Publish, BuildLatest, BuildAudit
  <2>2. pc[r] \in {"discover", "inspect", "cancelled", "failed"} =>
            pc'[r] \in {"discover", "inspect", "cancelled", "failed"}
    BY <1>2, AgainStays
    DEF Step, Begin, Published, StagesChecked, RequestDrain, Built, Succeed,
        LaunchFlex, InspectKnown, CleanupFails, Discover, WaitCancelled, WaitRunning,
        WaitDrained, CheckStages, CheckEvidence, Publish, BuildLatest, BuildAudit,
        Finish, Goto, FlowType
  <2> QED
    BY <2>1, <2>2
<1> QED
    BY <1>1, <1>2

\* Any other step of r leaves what was published.
LEMMA StepSends ==
    ASSUME FlowType, RoutedInv, SuccessInv, NEW r \in Run, Step(r), ~Publish(r)
    PROVE  SuccessInv'
<1> USE FixtureAssumption
<1>1. UNCHANGED <<published, silver, quarantine>>
    BY FlowFrame DEF Step, FlowNext, BuildLatest, BuildAudit, topic, tables
<1>2. \A q \in Run : Sent(q)' = Sent(q) /\ AllStaged(q)' = AllStaged(q)
    BY <1>1 DEF Sent, AllStaged, MessagesOf
<1>3. \A q \in Run \ {r} : pc'[q] = pc[q] /\ done'[q] = done[q] /\ late'[q] = late[q]
    BY OwnJob, OwnLate
<1>4. pc'[r] \in {"stages", "drain", "drained", "build", "evidence", "succeeded"} =>
        Sent(r) = Index
  <2>1. CASE Published(r)
    <3>1. PICK k \in 0 .. Len(Fixture) : Sent(r) = 1 .. k
      BY DEF SuccessInv
    <3>2. k + 1 \notin 1 .. Len(Fixture)
      BY <2>1, <3>1, NextPosition DEF Published, Index
    <3>3. k = Len(Fixture)
      BY <3>1, <3>2, LastPosition
    <3> QED
      BY <3>1, <3>3 DEF Index
  <2>2. CASE Steady(r) /\ ~Published(r)
    <3>1. pc[r] = "publish" => pc'[r] # "stages"
      BY <2>2, Reaches DEF CheckStages
    <3> QED
      BY <2>2, <3>1 DEF Steady, AtWork, Handler, SuccessInv
  <2>3. CASE Begin(r) \/ LaunchFlex(r) \/ InspectKnown(r) \/ CleanupFails(r)
    BY <2>3 DEF Begin, LaunchFlex, InspectKnown, CleanupFails, Finish, Goto, FlowType
  <2>4. CASE RequestDrain(r)
    BY <2>4 DEF RequestDrain, Goto, FlowType, Handler, SuccessInv
  <2>5. CASE Discover(r) \/ WaitCancelled(r)
    BY <2>5, AgainStays DEF Discover, WaitCancelled, Finish, Goto, FlowType
  <2> QED
    BY <2>1, <2>2, <2>3, <2>4, <2>5, SteadySteps DEF Step
<1>5. pc'[r] \in {"new", "launch", "running"} => Sent(r) = {}
  <2>1. CASE Steady(r)
    BY <2>1 DEF Steady, AtWork, Handler, SuccessInv
  <2>2. CASE Begin(r) \/ LaunchFlex(r) \/ InspectKnown(r) \/ CleanupFails(r) \/ RequestDrain(r)
    BY <2>2
    DEF Begin, LaunchFlex, InspectKnown, CleanupFails, RequestDrain, Finish, Goto, FlowType,
        Handler, SuccessInv
  <2>3. CASE Discover(r) \/ WaitCancelled(r)
    BY <2>3, AgainStays DEF Discover, WaitCancelled, Finish, Goto, FlowType
  <2> QED
    BY <2>1, <2>2, <2>3, SteadySteps DEF Step
<1>6. pc'[r] = "evidence" /\ "backlog" \in done'[r] => AllStaged(r)
  <2>1. CASE CheckEvidence(r)
    <3>1. ASSUME backlog = {} PROVE AllStaged(r)
      BY <3>1 DEF RoutedInv, AllStaged, MessagesOf
    <3>2. "backlog" \in done'[r] => "backlog" \in done[r] \/ backlog = {}
      BY <2>1 DEF CheckEvidence, Poll, Again, Goto, FlowType
    <3> QED
      BY <2>1, <3>1, <3>2 DEF CheckEvidence, SuccessInv
  <2>2. CASE Built(r)
    BY <2>2 DEF Built, Goto, FlowType
  <2> QED
    BY <2>1, <2>2, Reaches
<1>7. pc'[r] = "succeeded" => AllStaged(r)
    BY Reaches DEF Evidence, SuccessInv
<1>8. late'[r] # {} => pc'[r] \in {"discover", "inspect", "cancelled", "failed"}
    BY OwnLate DEF SuccessInv
<1> QED
    BY <1>2, <1>3, <1>4, <1>5, <1>6, <1>7, <1>8 DEF SuccessInv

LEMMA SuccessNext ==
    FlowType /\ RoutedInv /\ SuccessInv /\ [Next]_vars => SuccessInv'
<1> SUFFICES ASSUME FlowType, RoutedInv, SuccessInv, [Next]_vars PROVE SuccessInv'
    OBVIOUS
<1>1. ASSUME NEW r \in Run, Step(r) PROVE SuccessInv'
    BY <1>1, PublishSends, StepSends DEF Publish
<1>2. ASSUME UNCHANGED <<pc, done, published>>,
             \A q \in Run : late'[q] \subseteq late[q]
      PROVE  SuccessInv'
  <2>1. \A q \in Run : Sent(q)' = Sent(q) /\ (AllStaged(q) => AllStaged(q)')
    BY <1>2, StagedGrows DEF Sent, AllStaged
  <2> QED
    BY <1>2, <2>1 DEF SuccessInv
<1>3. CASE UNCHANGED vars \/ Promote \/ \E r \in Run : JobMoves(r) \/ Deliver(r)
    BY <1>2, <1>3 DEF vars, flow, topic, outside, Promote, JobMoves, Deliver
<1>4. ASSUME NEW r \in Run, Leftover(r) PROVE SuccessInv'
  <2>1. CASE /\ "publish" \in late[r] /\ PublishNext(r)
             /\ UNCHANGED <<flow, job, tables, models, outside>>
    BY <2>1, PublishSends
  <2>2. CASE UNCHANGED <<flow, topic>> /\ \E work : late' = [late EXCEPT ![r] = late[r] \ {work}]
    BY <1>2, <2>2 DEF FlowType, flow, topic
  <2> QED
    BY <1>4, <2>1, <2>2 DEF Leftover
<1> QED
    BY <1>1, <1>3, <1>4 DEF Next, Environment

LEMMA SuccessInit == Init => SuccessInv
<1> SUFFICES ASSUME Init PROVE SuccessInv
    OBVIOUS
<1>1. \A r \in Run : pc[r] = "new" /\ late[r] = {} /\ Sent(r) = {}
    BY DEF Init, Sent
<1>2. 0 \in 0 .. Len(Fixture) /\ 1 .. 0 = {}
    BY FixtureAssumption
<1> QED
    BY <1>1, <1>2 DEF SuccessInv

\* A run that succeeded drained its job and has every record of the fixture in a table,
\* whatever other runs, retries and redeliveries did.
THEOREM SuccessShown == Spec => []SuccessIsEvidence
<1>1. FlowType /\ DataType /\ CleanupInv /\ SuccessInv => SuccessIsEvidence
  <2> SUFFICES ASSUME FlowType, DataType, CleanupInv, SuccessInv,
                      NEW r \in Run, pc[r] = "succeeded"
               PROVE  job[r] = "drained" /\ {m.index : m \in Staged(r)} = Index
    BY DEF SuccessIsEvidence
  <2>1. job[r] = "drained"
    BY DEF CleanupInv, JobDrained
  <2>2. Sent(r) = Index /\ AllStaged(r)
    BY DEF SuccessInv
  <2>3. Index \subseteq {m.index : m \in Staged(r)}
    BY <2>2 DEF Sent, AllStaged, Staged
  <2>4. {m.index : m \in Staged(r)} \subseteq Index
    BY DEF DataType, Staged, MessagesOf, Row, Message
  <2> QED
    BY <2>1, <2>3, <2>4
<1> QED
    BY <1>1, PartsTyped, CleanupInvariant, RoutedInit, RoutedNext,
       SuccessInit, SuccessNext, PTL DEF Spec

----------------------------------------------------------------------------
(* The order of the messages, and what the models select.                  *)

\* The order of event_time and publish_time, which tells any two messages apart.
Ahead(m, n) ==
    \/ Later(EventTime(m), EventTime(n))
    \/ EventTime(m) = EventTime(n) /\ PublishTime(m) > PublishTime(n)

\* The messages of any run, the one of the local demo too.
AnyMessage == [run : Nat, index : Index, copy : Copy]

AnyRow == [message : AnyMessage, ingestion : Nat]

LEMMA AnyRun == Message \subseteq AnyMessage /\ Row \subseteq AnyRow
    BY RunAssumption DEF Message, AnyMessage, Row, AnyRow

LEMMA AheadOrder ==
    ASSUME NEW m \in AnyMessage, NEW n \in AnyMessage
    PROVE  /\ ~Ahead(m, m)
           /\ m = n \/ Ahead(m, n) \/ Ahead(n, m)
           /\ ~(Ahead(m, n) /\ Ahead(n, m))
           /\ \A o \in AnyMessage : Ahead(m, n) /\ Ahead(n, o) => Ahead(m, o)
<1>1. \A k \in AnyMessage : k.run \in Nat /\ k.index \in Nat /\ k.copy \in Nat
  <2>1. \A k \in AnyMessage : k.run \in Nat /\ k.index \in Index /\ k.copy \in Copy
    BY DEF AnyMessage
  <2>2. Index \subseteq Nat /\ Copy \subseteq Nat
    BY FixtureAssumption DEF Index, Copy
  <2> QED
    BY <2>1, <2>2
<1>2. \A k, l \in AnyMessage :
        Ahead(k, l) <=> \/ k.run > l.run
                        \/ k.run = l.run /\ k.index > l.index
                        \/ k.run = l.run /\ k.index = l.index /\ k.copy > l.copy
    BY DEF Ahead, Later, EventTime, PublishTime, ReleaseContext
<1>3. m.run = n.run /\ m.index = n.index /\ m.copy = n.copy => m = n
    BY DEF AnyMessage
<1> QED
    BY <1>1, <1>2, <1>3

\* Each message of the rows has a last delivery among them.
HasLast(rows) == \A m \in MessagesOf(rows) : \E p \in LogicalMessages(rows) : p.message = m

\* What the models select, told by message: the one nothing of its event is ahead of,
\* and all the others.
LEMMA SelectedMessages ==
    ASSUME NEW rows \in SUBSET AnyRow, HasLast(rows)
    PROVE  /\ MessagesOf(LatestOf(rows)) =
                {m \in MessagesOf(rows) : \A n \in MessagesOf(rows) :
                    EventOf(n) = EventOf(m) => ~Ahead(n, m)}
           /\ MessagesOf(AuditOf(rows)) = MessagesOf(rows) \ MessagesOf(LatestOf(rows))
<1>1. ASSUME NEW p \in LogicalMessages(rows), NEW q \in LogicalMessages(rows),
             p.message = q.message
      PROVE  p = q
  <2>1. p \in AnyRow /\ q \in AnyRow /\ p.ingestion <= q.ingestion /\ q.ingestion <= p.ingestion
    BY <1>1 DEF LogicalMessages
  <2>2. p.ingestion = q.ingestion
    BY <2>1 DEF AnyRow
  <2> QED
    BY <1>1, <2>1, <2>2 DEF AnyRow
<1>2. ASSUME NEW p \in LogicalMessages(rows), NEW q \in LogicalMessages(rows)
      PROVE  Newer(q, p) <=> Ahead(q.message, p.message)
  <2>1. p \in AnyRow /\ q \in AnyRow
    BY DEF LogicalMessages
  <2>2. p.message \in AnyMessage /\ q.message \in AnyMessage
        /\ p.ingestion \in Nat /\ q.ingestion \in Nat
    BY <2>1 DEF AnyRow
  <2>3. CASE p = q
    <3>1. ~Ahead(q.message, p.message)
      BY <2>2, <2>3, AheadOrder
    <3>2. Newer(p, p) => Ahead(p.message, p.message)
      BY <2>2 DEF Newer, Ahead, Later
    <3> QED
      BY <2>3, <3>1, <3>2
  <2>4. CASE p # q
    <3>1. p.message # q.message
      BY <1>1, <2>4
    <3>2. EventTime(q.message) = EventTime(p.message) =>
            PublishTime(q.message) # PublishTime(p.message)
      BY <2>2, <3>1 DEF EventTime, PublishTime, ReleaseContext, AnyMessage
    <3> QED
      BY <3>2 DEF Newer, Ahead, Later
  <2> QED
    BY <2>3, <2>4
<1>3. \A p \in LogicalMessages(rows) : p.message \in MessagesOf(rows)
    BY DEF LogicalMessages, MessagesOf
<1>4. \A p \in LogicalMessages(rows) :
        p \in LatestOf(rows) <=> \A n \in MessagesOf(rows) :
            EventOf(n) = EventOf(p.message) => ~Ahead(n, p.message)
    BY <1>2, <1>3 DEF LatestOf, HasLast
<1>5. LatestOf(rows) \subseteq LogicalMessages(rows)
    BY DEF LatestOf
<1>6. MessagesOf(LatestOf(rows)) =
        {m \in MessagesOf(rows) : \A n \in MessagesOf(rows) :
            EventOf(n) = EventOf(m) => ~Ahead(n, m)}
  <2>1. \A m : m \in MessagesOf(LatestOf(rows)) <=> \E p \in LatestOf(rows) : p.message = m
    BY DEF MessagesOf
  <2> QED
    BY <1>3, <1>4, <1>5, <2>1 DEF HasLast
<1>7. MessagesOf(AuditOf(rows)) = MessagesOf(rows) \ MessagesOf(LatestOf(rows))
  <2>1. \A m : m \in MessagesOf(AuditOf(rows)) <=>
                  \E p \in LogicalMessages(rows) : p \notin LatestOf(rows) /\ p.message = m
    BY DEF MessagesOf, AuditOf
  <2>2. \A m : m \in MessagesOf(LatestOf(rows)) <=> \E p \in LatestOf(rows) : p.message = m
    BY DEF MessagesOf
  <2> QED
    BY <1>1, <1>3, <1>5, <2>1, <2>2 DEF HasLast
<1> QED
    BY <1>6, <1>7

----------------------------------------------------------------------------
(* What the models hold of the staged rows.                                *)

\* The staged messages of an event.
StagedOf(e) == {m \in MessagesOf(silver) : EventOf(m) = e}

\* The messages of a set that none of the set is ahead of.
Front(S) == {m \in S : \A n \in S : ~Ahead(n, m)}

NewestOf(e) == Front(StagedOf(e))

\* The deliveries of a message are numbered from one, each event with a staged message
\* has a newest one, and the models hold nothing but staged messages, the audit only
\* those that another of their event is ahead of.
StagedInv ==
    /\ \A m \in Message : \E k \in Nat : Ingestions(m) = 1 .. k
    /\ \A e \in Event : StagedOf(e) = {} \/ \E m \in StagedOf(e) : NewestOf(e) = {m}
    /\ \A e \in Event : latest[e] \subseteq StagedOf(e)
    /\ \A m \in audit : \E n \in MessagesOf(silver) :
        m \in MessagesOf(silver) /\ EventOf(n) = EventOf(m) /\ Ahead(n, m)

\* Executions that do not overlap take turns, in the order of their runs, and one that
\* ended with its job left nothing at work.
TurnInv ==
    /\ \A r \in Run : outcome[r] = "ended" => pc[r] = "failed" /\ job[r] \in Terminal
    /\ \A q, r \in Run : q < r /\ pc[r] # "new" => pc[q] # "new"
    /\ ~mode.overlap => \A q, r \in Run : q < r /\ pc[r] # "new" => ~Running(q)

\* A model that a run alone has built is the one of the staged rows.
LatestBuilt == \A e \in Event : latest[e] = NewestOf(e)

AuditBuilt == \A e \in Event : StagedOf(e) \ NewestOf(e) \subseteq audit

BuiltInv ==
    \A r \in Run : Alone(r) =>
        /\ pc[r] = "evidence" \/ (pc[r] = "build" /\ "latest" \in done[r]) => LatestBuilt
        /\ pc[r] = "evidence" \/ (pc[r] = "build" /\ "audit" \in done[r]) => AuditBuilt

\* One more message leaves one in front, itself or the one before.
LEMMA FrontGrows ==
    ASSUME NEW S \in SUBSET AnyMessage, NEW m \in AnyMessage
    PROVE  /\ S = {} => Front(S \cup {m}) = {m}
           /\ \A t \in S : Front(S) = {t} =>
                Front(S \cup {m}) = IF Ahead(m, t) THEN {m} ELSE {t}
<1>1. ASSUME S = {} PROVE Front(S \cup {m}) = {m}
    BY <1>1, AheadOrder DEF Front
<1>2. ASSUME NEW t \in S, Front(S) = {t}
      PROVE  Front(S \cup {m}) = IF Ahead(m, t) THEN {m} ELSE {t}
  <2>1. \A n \in S : ~Ahead(n, t)
    BY <1>2 DEF Front
  <2>2. \A n \in S : n = t \/ Ahead(t, n)
    BY <2>1, AheadOrder
  <2>3. CASE Ahead(m, t)
    <3>1. \A n \in S : Ahead(m, n)
      BY <2>2, <2>3, AheadOrder
    <3>2. Front(S \cup {m}) = {m}
      BY <3>1, AheadOrder DEF Front
    <3> QED
      BY <2>3, <3>2
  <2>4. CASE ~Ahead(m, t)
    <3>1. m = t \/ Ahead(t, m)
      BY <2>4, AheadOrder
    <3>2. Front(S \cup {m}) = {t}
      BY <2>1, <2>2, <2>4, <3>1 DEF Front
    <3> QED
      BY <2>4, <3>2
  <2> QED
    BY <2>3, <2>4
<1> QED
    BY <1>1, <1>2

LEMMA LastStaged ==
    ASSUME DataType, RoutedInv, StagedInv
    PROVE  silver \in SUBSET AnyRow /\ HasLast(silver)
<1>1. silver \in SUBSET Row /\ silver \in SUBSET AnyRow
    BY AnyRun DEF DataType
<1>2. ASSUME NEW p \in silver
      PROVE  \E q \in LogicalMessages(silver) : q.message = p.message
  <2> DEFINE m == p.message
  <2>1. m \in Message
    BY <1>1 DEF Row
  <2>2. PICK k \in Nat : Ingestions(m) = 1 .. k
    BY <2>1 DEF StagedInv
  <2>3. p.ingestion \in 1 .. k
    BY <2>2 DEF Ingestions
  <2>4. k \in Ingestions(m)
    BY <2>2, <2>3
  <2>5. PICK q \in silver \cup quarantine : q.message = m /\ q.ingestion = k
    BY <2>4 DEF Ingestions
  <2>6. q \in silver
    BY <2>5 DEF RoutedInv
  <2>7. \A n \in silver : n.message = m => n.ingestion \in 1 .. k
    BY <2>2 DEF Ingestions
  <2>8. \A n \in silver : n.message = m => n.ingestion <= q.ingestion
    BY <2>5, <2>7
  <2> QED
    BY <2>5, <2>6, <2>8 DEF LogicalMessages
<1> QED
    BY <1>1, <1>2 DEF HasLast, MessagesOf

\* The two models over the staged rows.
LEMMA SelectedOfEvent ==
    ASSUME DataType, RoutedInv, StagedInv
    PROVE  /\ \A e \in Event :
                {m \in MessagesOf(LatestOf(silver)) : EventOf(m) = e} = NewestOf(e)
           /\ \A e \in Event :
                {m \in MessagesOf(AuditOf(silver)) : EventOf(m) = e}
                    = StagedOf(e) \ NewestOf(e)
           /\ \A m \in MessagesOf(AuditOf(silver)) :
                m \in MessagesOf(silver) /\ \E n \in MessagesOf(silver) :
                    EventOf(n) = EventOf(m) /\ Ahead(n, m)
<1>1. /\ MessagesOf(LatestOf(silver)) =
            {m \in MessagesOf(silver) : \A n \in MessagesOf(silver) :
                EventOf(n) = EventOf(m) => ~Ahead(n, m)}
      /\ MessagesOf(AuditOf(silver)) = MessagesOf(silver) \ MessagesOf(LatestOf(silver))
    BY LastStaged, SelectedMessages
<1>2. \A e \in Event : {m \in MessagesOf(LatestOf(silver)) : EventOf(m) = e} = NewestOf(e)
    BY <1>1 DEF NewestOf, Front, StagedOf
<1>3. \A e \in Event :
        {m \in MessagesOf(AuditOf(silver)) : EventOf(m) = e} = StagedOf(e) \ NewestOf(e)
    BY <1>1 DEF NewestOf, Front, StagedOf
<1> QED
    BY <1>1, <1>2, <1>3

LEMMA StagedEvents ==
    ASSUME DataType
    PROVE  \A m \in MessagesOf(silver) : m \in Message /\ EventOf(m) \in Event
    BY DEF DataType, MessagesOf, Row, Message, EventOf, Event

\* A delivery.
LEMMA DeliverStaged ==
    ASSUME DataType, StagedInv, NEW r \in Run, Deliver(r)
    PROVE  StagedInv'
<1>1. PICK m \in backlog :
        LET row == [message |-> m, ingestion |-> Cardinality(Ingestions(m)) + 1]
        IN  /\ silver' = silver \cup Process(row).valid
            /\ quarantine' = quarantine \cup Process(row).quarantine
    BY DEF Deliver
<1> DEFINE row == [message |-> m, ingestion |-> Cardinality(Ingestions(m)) + 1]
<1>2. m \in Message
    BY DEF DataType
<1>3. PICK k \in Nat : Ingestions(m) = 1 .. k
    BY <1>2 DEF StagedInv
<1>4. row.message = m /\ row.ingestion = k + 1
  <2>1. Cardinality(1 .. k) = k
    BY FS_Interval
  <2> QED
    BY <1>3, <2>1
<1> HIDE DEF row
<1>5. /\ silver' = silver \cup (IF Decodes(m) THEN {row} ELSE {})
      /\ silver' \cup quarantine' = silver \cup quarantine \cup {row}
    BY <1>1, <1>4 DEF Process, row
<1>6. ASSUME NEW n \in Message PROVE \E l \in Nat : Ingestions(n)' = 1 .. l
  <2>1. CASE n = m
    <3>1. Ingestions(n)' = 1 .. k \cup {k + 1}
      BY <1>3, <1>4, <1>5, <2>1 DEF Ingestions
    <3>2. k + 1 \in Nat /\ 1 .. k \cup {k + 1} = 1 .. k + 1
      OBVIOUS
    <3> QED
      BY <3>1, <3>2
  <2>2. CASE n # m
    <3>1. Ingestions(n)' = Ingestions(n)
      BY <1>4, <1>5, <2>2 DEF Ingestions
    <3> QED
      BY <3>1 DEF StagedInv
  <2> QED
    BY <2>1, <2>2
<1>7. MessagesOf(silver') = MessagesOf(silver) \cup (IF Decodes(m) THEN {m} ELSE {})
    BY <1>4, <1>5 DEF MessagesOf
<1>8. ASSUME NEW e \in Event
      PROVE  /\ StagedOf(e) \subseteq StagedOf(e)'
             /\ StagedOf(e)' = {} \/ \E n \in StagedOf(e)' : NewestOf(e)' = {n}
  <2>1. CASE Decodes(m) /\ EventOf(m) = e
    <3>1. StagedOf(e)' = StagedOf(e) \cup {m}
      BY <1>7, <2>1 DEF StagedOf, EventOf
    <3>2. StagedOf(e) \in SUBSET AnyMessage /\ m \in AnyMessage
      BY <1>2, StagedEvents, AnyRun DEF StagedOf
    <3>3. StagedOf(e) = {} \/ \E n \in StagedOf(e) : Front(StagedOf(e)) = {n}
      BY DEF StagedInv, NewestOf
    <3>4. NewestOf(e)' = Front(StagedOf(e)')
      BY DEF NewestOf, Front, Ahead, Later, EventTime, PublishTime, ReleaseContext
    <3>5. \E n \in StagedOf(e) \cup {m} : Front(StagedOf(e) \cup {m}) = {n}
      BY <3>2, <3>3, FrontGrows
    <3> QED
      BY <3>1, <3>4, <3>5
  <2>2. CASE ~(Decodes(m) /\ EventOf(m) = e)
    <3>1. StagedOf(e)' = StagedOf(e)
      BY <1>7, <2>2 DEF StagedOf, EventOf
    <3>2. NewestOf(e)' = NewestOf(e)
      BY <3>1 DEF NewestOf, Front, Ahead, Later, EventTime, PublishTime, ReleaseContext
    <3> QED
      BY <3>1, <3>2 DEF StagedInv
  <2> QED
    BY <2>1, <2>2
<1>9. UNCHANGED <<latest, audit>>
    BY DEF Deliver, models
<1>10. \A e \in Event : latest'[e] \subseteq StagedOf(e)'
    BY <1>8, <1>9 DEF StagedInv
<1>11. \A n, o : EventOf(n)' = EventOf(n) /\ Ahead(n, o)' = Ahead(n, o)
    BY DEF EventOf, Ahead, Later, EventTime, PublishTime, ReleaseContext
<1>12. MessagesOf(silver)' = MessagesOf(silver')
    BY DEF MessagesOf
<1>13. \A n \in audit' : \E o \in MessagesOf(silver)' :
         n \in MessagesOf(silver)' /\ EventOf(o)' = EventOf(n)' /\ Ahead(o, n)'
    BY <1>7, <1>9, <1>11, <1>12 DEF StagedInv
<1> QED
    BY <1>6, <1>8, <1>10, <1>13 DEF StagedInv

LEMMA SameStaged ==
    ASSUME StagedInv, UNCHANGED <<tables, models>>
    PROVE  /\ StagedInv'
           /\ \A e \in Event : StagedOf(e)' = StagedOf(e) /\ NewestOf(e)' = NewestOf(e)
<1>1. /\ \A m : Ingestions(m)' = Ingestions(m) /\ EventOf(m)' = EventOf(m)
      /\ \A m, n : Ahead(m, n)' = Ahead(m, n)
      /\ MessagesOf(silver)' = MessagesOf(silver)
    BY DEF Ingestions, EventOf, Ahead, Later, EventTime, PublishTime, ReleaseContext,
           MessagesOf, tables
<1>2. \A e \in Event : StagedOf(e)' = StagedOf(e)
    BY <1>1 DEF StagedOf
<1>3. \A e \in Event : NewestOf(e)' = NewestOf(e)
    BY <1>1, <1>2 DEF NewestOf, Front
<1>4. latest' = latest /\ audit' = audit
    BY DEF models
<1>5. (\A m \in Message : \E k \in Nat : Ingestions(m) = 1 .. k)'
    BY <1>1 DEF StagedInv
<1>6. (\A m \in audit : \E n \in MessagesOf(silver) :
          m \in MessagesOf(silver) /\ EventOf(n) = EventOf(m) /\ Ahead(n, m))'
    BY <1>1, <1>4 DEF StagedInv
<1> QED
    BY <1>2, <1>3, <1>4, <1>5, <1>6 DEF StagedInv

\* What one build of a model leaves, whatever it found.
LEMMA BuildStaged ==
    ASSUME DataType, RoutedInv, StagedInv, UNCHANGED tables,
           (MergeLatest /\ UNCHANGED audit) \/ (AppendAudit /\ UNCHANGED latest)
    PROVE  /\ StagedInv'
           /\ \A e \in Event : StagedOf(e)' = StagedOf(e) /\ NewestOf(e)' = NewestOf(e)
           /\ MergeLatest => LatestBuilt'
           /\ AppendAudit => AuditBuilt'
<1>1. silver' = silver /\ quarantine' = quarantine
    BY DEF tables
<1>2. /\ \A m : Ingestions(m)' = Ingestions(m) /\ EventOf(m)' = EventOf(m)
      /\ \A m, n : Ahead(m, n)' = Ahead(m, n)
      /\ MessagesOf(silver)' = MessagesOf(silver)
    BY <1>1 DEF Ingestions, EventOf, Ahead, Later, EventTime, PublishTime, ReleaseContext,
                MessagesOf
<1>3. \A e \in Event : StagedOf(e)' = StagedOf(e)
    BY <1>2 DEF StagedOf
<1>4. \A e \in Event : NewestOf(e)' = NewestOf(e)
    BY <1>2, <1>3 DEF NewestOf, Front
<1>5. (\A m \in Message : \E k \in Nat : Ingestions(m) = 1 .. k)'
    BY <1>2 DEF StagedInv
<1>6. \A e \in Event : NewestOf(e) \subseteq StagedOf(e)
    BY DEF NewestOf, Front
<1>7. ASSUME MergeLatest PROVE \A e \in Event : latest'[e] = NewestOf(e)
  <2>1. \A e \in Event : Selected(e) = NewestOf(e)
    BY SelectedOfEvent DEF Selected
  <2>2. \A e \in Event : NewestOf(e) = {} => latest[e] = {}
    BY DEF StagedInv
  <2> QED
    BY <1>7, <2>1, <2>2 DEF MergeLatest
<1>8. ASSUME AppendAudit PROVE \A e \in Event : StagedOf(e) \ NewestOf(e) \subseteq audit'
    BY <1>8, SelectedOfEvent DEF AppendAudit
<1>9. \A e \in Event : latest'[e] \subseteq StagedOf(e)
    BY <1>6, <1>7 DEF StagedInv
<1>10. \A m \in audit' : \E n \in MessagesOf(silver) :
         m \in MessagesOf(silver) /\ EventOf(n) = EventOf(m) /\ Ahead(n, m)
  <2>1. audit' \subseteq audit \cup MessagesOf(AuditOf(silver))
    BY DEF AppendAudit
  <2> QED
    BY <2>1, SelectedOfEvent DEF StagedInv
<1>11. (\A m \in audit : \E n \in MessagesOf(silver) :
          m \in MessagesOf(silver) /\ EventOf(n) = EventOf(m) /\ Ahead(n, m))'
    BY <1>2, <1>10
<1>12. MergeLatest => LatestBuilt'
    BY <1>4, <1>7 DEF LatestBuilt
<1>13. AppendAudit => AuditBuilt'
    BY <1>3, <1>4, <1>8 DEF AuditBuilt
<1> QED
    BY <1>3, <1>4, <1>5, <1>9, <1>11, <1>12, <1>13 DEF StagedInv

LEMMA StagedInit == Init => StagedInv
<1> SUFFICES ASSUME Init PROVE StagedInv
    OBVIOUS
<1>1. \A m : Ingestions(m) = {}
    BY DEF Init, Ingestions
<1>2. 0 \in Nat /\ 1 .. 0 = {}
    OBVIOUS
<1>3. \A e \in Event : StagedOf(e) = {} /\ latest[e] = {}
    BY DEF Init, StagedOf, MessagesOf
<1> QED
    BY <1>1, <1>2, <1>3 DEF Init, StagedInv

LEMMA StagedNext == DataType /\ RoutedInv /\ StagedInv /\ [Next]_vars => StagedInv'
<1> SUFFICES ASSUME DataType, RoutedInv, StagedInv, [Next]_vars PROVE StagedInv'
    OBVIOUS
<1>1. ASSUME NEW r \in Run, Step(r), ~BuildLatest(r), ~BuildAudit(r) PROVE StagedInv'
  <2>1. UNCHANGED <<tables, models>>
    BY <1>1, FlowFrame DEF Step, FlowNext, Publish
  <2> QED
    BY <2>1, SameStaged
<1>2. CASE UNCHANGED vars \/ Promote \/ \E r \in Run : JobMoves(r)
  <2>1. UNCHANGED <<tables, models>>
    BY <1>2 DEF vars, Promote, JobMoves
  <2> QED
    BY <2>1, SameStaged
<1>3. ASSUME NEW r \in Run, BuildLatest(r) \/ BuildAudit(r) PROVE StagedInv'
    BY <1>3, BuildStaged DEF BuildLatest, BuildAudit
<1>4. ASSUME NEW r \in Run, Leftover(r) PROVE StagedInv'
    BY <1>4, SameStaged, BuildStaged DEF Leftover
<1> QED
    BY <1>1, <1>2, <1>3, <1>4, DeliverStaged DEF Next, Environment

----------------------------------------------------------------------------
(* Executions that take turns.                                             *)

LEMMA StepTurns ==
    ASSUME FlowType, NEW r \in Run, Step(r)
    PROVE  /\ pc'[r] # "new"
           /\ Begin(r) \/ Running(r)
           /\ Begin(r) => outcome' = outcome
           /\ outcome'[r] = "ended" =>
                outcome[r] = "ended" \/ (pc'[r] = "failed" /\ job'[r] \in Terminal)
<1> USE DEF Running, Ended
<1>1. ASSUME Steady(r)
      PROVE  pc'[r] # "new" /\ Running(r) /\ outcome'[r] = outcome[r]
    BY <1>1 DEF Steady, AtWork, Handler
<1>2. CASE Begin(r)
    BY <1>2 DEF Begin, Goto, FlowType
<1>3. CASE LaunchFlex(r) \/ RequestDrain(r)
    BY <1>3 DEF LaunchFlex, RequestDrain, Begin, Goto, FlowType, Handler
<1>4. CASE Discover(r)
    BY <1>4, AgainStays DEF Discover, Begin, Finish, Goto, FlowType
<1>5. CASE InspectKnown(r)
    BY <1>5 DEF InspectKnown, Begin, Finish, Goto, FlowType
<1>6. CASE WaitCancelled(r)
    BY <1>6, AgainStays DEF WaitCancelled, Begin, Finish, Goto, FlowType, Terminal
<1>7. CASE CleanupFails(r)
    BY <1>7 DEF CleanupFails, Begin, Finish, Goto, FlowType
<1> QED
    BY <1>1, <1>2, <1>3, <1>4, <1>5, <1>6, <1>7, SteadySteps DEF Step, Begin

LEMMA TurnStep ==
    ASSUME FlowType, TurnInv, NEW s \in Run, Step(s)
    PROVE  TurnInv'
<1>1. /\ pc'[s] # "new"
      /\ Begin(s) \/ Running(s)
      /\ Begin(s) => outcome' = outcome
      /\ outcome'[s] = "ended" =>
            outcome[s] = "ended" \/ (pc'[s] = "failed" /\ job'[s] \in Terminal)
    BY StepTurns
<1>2. \A q \in Run : q # s => UNCHANGED <<pc[q], outcome[q], job[q]>>
    BY OwnJob
<1>3. mode' = mode
    BY FlowFrame DEF Step, FlowNext, outside, Publish, BuildLatest, BuildAudit
<1>4. Begin(s) => /\ pc[s] = "new"
                  /\ \A q \in Run : q < s => pc[q] # "new" /\ (mode.overlap \/ ~Running(q))
    BY DEF Begin
<1>5. ASSUME NEW r \in Run, outcome'[r] = "ended"
      PROVE  pc'[r] = "failed" /\ job'[r] \in Terminal
  <2>1. CASE r = s
    BY <1>1, <1>4, <1>5, <2>1 DEF TurnInv, Running, Ended
  <2>2. CASE r # s
    BY <1>2, <1>5, <2>2 DEF TurnInv
  <2> QED
    BY <2>1, <2>2
<1>6. ASSUME NEW q \in Run, NEW r \in Run, q < r, pc'[r] # "new"
      PROVE  pc'[q] # "new" /\ (~mode.overlap => ~Running(q)')
  <2>1. q \in Nat /\ r \in Nat /\ q # r
    BY <1>6, RunAssumption
  <2>2. CASE s = r
    BY <1>1, <1>2, <1>4, <1>6, <2>1, <2>2 DEF TurnInv, Running, Ended
  <2>3. CASE s # r
    <3>1. pc[r] # "new"
      BY <1>2, <1>6, <2>3
    <3>2. pc[q] # "new" /\ (~mode.overlap => ~Running(q))
      BY <1>6, <3>1 DEF TurnInv
    <3> QED
      BY <1>1, <1>2, <1>4, <3>2 DEF Running
  <2> QED
    BY <2>2, <2>3
<1> QED
    BY <1>3, <1>5, <1>6 DEF TurnInv

LEMMA TurnInit == Init => TurnInv
    BY DEF Init, TurnInv, Running, Ended

LEMMA TurnNext == FlowType /\ TurnInv /\ [Next]_vars => TurnInv'
<1> SUFFICES ASSUME FlowType, TurnInv, [Next]_vars PROVE TurnInv'
    OBVIOUS
<1>1. ASSUME NEW r \in Run, JobMoves(r) PROVE TurnInv'
  <2>1. UNCHANGED <<pc, outcome, mode>>
    BY <1>1 DEF JobMoves, flow, outside
  <2>2. \A q \in Run : job[q] \in Terminal => job'[q] \in Terminal
    BY <1>1 DEF JobMoves, FlowType, Active, Terminal
  <2> QED
    BY <2>1, <2>2 DEF TurnInv, Running
<1>2. CASE UNCHANGED vars \/ Promote \/ \E r \in Run : Deliver(r) \/ Leftover(r)
  <2>1. UNCHANGED <<pc, outcome, job, mode>>
    BY <1>2 DEF vars, Promote, Deliver, Leftover, flow, outside
  <2> QED
    BY <2>1 DEF TurnInv, Running
<1> QED
    BY <1>1, <1>2, TurnStep DEF Next, Environment

----------------------------------------------------------------------------
(* The models of a run that is alone.                                      *)

\* While a run that is alone builds, no job writes and no other execution steps.
LEMMA AloneIsStill ==
    ASSUME FlowType, CleanupInv, TurnInv, NEW r \in Run, pc[r] \in {"build", "evidence"}
    PROVE  /\ ~mode.overlap => \A q \in Run : Step(q) => q = r
           /\ Alone(r) => \A q \in Run : ~Deliver(q)
<1>1. ASSUME ~mode.overlap, NEW q \in Run, Step(q), q # r PROVE FALSE
  <2>1. q \in Nat /\ r \in Nat
    BY RunAssumption
  <2>2. Running(r) /\ pc[r] # "new"
    BY DEF Running, Ended
  <2>3. Begin(q) \/ Running(q)
    BY <1>1, StepTurns
  <2>4. CASE q < r
    <3>1. pc[q] # "new" /\ ~Running(q)
      BY <1>1, <2>2, <2>4 DEF TurnInv
    <3> QED
      BY <2>3, <3>1 DEF Begin
  <2>5. CASE r < q
    <3>1. pc[q] = "new"
      BY <1>1, <2>2, <2>5 DEF TurnInv
    <3>2. ~Begin(q)
      BY <1>1, <2>2, <2>5 DEF Begin
    <3> QED
      BY <2>3, <3>1, <3>2 DEF Running, Ended
  <2> QED
    BY <1>1, <2>1, <2>4, <2>5
<1>2. ASSUME Alone(r), NEW q \in Run, Deliver(q) PROVE FALSE
  <2>1. job[q] \in {"running", "draining"}
    BY <1>2 DEF Deliver
  <2>2. q # r
    BY <2>1 DEF CleanupInv, JobDrained
  <2>3. pc[q] = "succeeded" \/ outcome[q] = "ended"
    BY <1>2, <2>1, <2>2 DEF Alone
  <2> QED
    BY <2>1, <2>3 DEF CleanupInv, JobDrained, TurnInv, Terminal
<1> QED
    BY <1>1, <1>2

\* A run that is alone has been alone since its build began.
LEMMA AloneBefore ==
    ASSUME FlowType, CleanupInv, TurnInv, [Next]_vars, NEW r \in Run, Alone(r)',
           pc[r] \in {"build", "evidence"}
    PROVE  Alone(r)
<1>1. mode' = mode
    BY FlowFrame DEF Next, Environment, Step, FlowNext, outside, vars, Promote, JobMoves,
                     Deliver, Leftover, Publish, BuildLatest, BuildAudit
<1>2. ~mode.overlap
    BY <1>1 DEF Alone
<1>3. CASE Step(r)
    BY <1>1, <1>3, OwnJob, OwnLate DEF Alone
<1>4. ASSUME NEW s \in Run, JobMoves(s) PROVE Alone(r)
  <2>1. UNCHANGED <<pc, outcome, late>>
    BY <1>4 DEF JobMoves, flow, outside
  <2>2. \A q \in Run : job'[q] = "none" => job[q] = "none"
    BY <1>4 DEF JobMoves, FlowType, Active
  <2> QED
    BY <1>1, <2>1, <2>2 DEF Alone
<1>5. CASE UNCHANGED vars \/ Promote \/ \E s \in Run : Deliver(s)
  <2>1. UNCHANGED <<pc, outcome, job, late>>
    BY <1>5 DEF vars, Promote, Deliver, flow, outside
  <2> QED
    BY <1>1, <2>1 DEF Alone
<1>6. ASSUME NEW s \in Run, Leftover(s) PROVE Alone(r)
  <2>1. UNCHANGED <<pc, outcome, job>>
    BY <1>6 DEF Leftover, flow
  <2>2. \A q \in Run : "publish" \in late[q] => "publish" \in late'[q]
    BY <1>6 DEF Leftover, FlowType, outside
  <2> QED
    BY <1>1, <2>1, <2>2 DEF Alone
<1> QED
    BY <1>2, <1>3, <1>4, <1>5, <1>6, AloneIsStill DEF Next, Environment

\* A build starts with neither model done.
LEMMA BuildEntered ==
    ASSUME FlowType, NEW r \in Run, Step(r), pc[r] \notin {"build", "evidence"},
           pc'[r] \in {"build", "evidence"}
    PROVE  pc'[r] = "build" /\ done'[r] = {}
<1>1. CASE WaitRunning(r) \/ WaitDrained(r)
    BY <1>1 DEF WaitRunning, WaitDrained, WaitState, Again, Goto, FlowType, Handler
<1>2. CASE CheckStages(r) \/ CheckEvidence(r)
    BY <1>2, PollLeads DEF CheckStages, CheckEvidence, Handler
<1>3. CASE Publish(r) \/ BuildLatest(r) \/ BuildAudit(r)
    BY <1>3 DEF Publish, BuildLatest, BuildAudit, flow
<1>4. CASE Published(r) \/ StagesChecked(r) \/ Built(r) \/ Succeed(r) \/ CallFails(r)
    BY <1>4 DEF Published, StagesChecked, Built, Succeed, CallFails, Goto, FlowType, Handler
<1>5. CASE Begin(r) \/ LaunchFlex(r) \/ InspectKnown(r) \/ CleanupFails(r) \/ RequestDrain(r)
    BY <1>5
    DEF Begin, LaunchFlex, InspectKnown, CleanupFails, RequestDrain, Finish, Goto, FlowType,
        Handler
<1>6. CASE Discover(r) \/ WaitCancelled(r)
    BY <1>6, AgainStays DEF Discover, WaitCancelled, Finish, Goto, FlowType
<1> QED
    BY <1>1, <1>2, <1>3, <1>4, <1>5, <1>6 DEF Step

\* A step that leaves the tables leaves a model it does not build.
LEMMA SameBuilt ==
    ASSUME \A e \in Event : StagedOf(e)' = StagedOf(e) /\ NewestOf(e)' = NewestOf(e)
    PROVE  /\ LatestBuilt /\ UNCHANGED latest => LatestBuilt'
           /\ AuditBuilt /\ UNCHANGED audit => AuditBuilt'
    BY DEF LatestBuilt, AuditBuilt

LEMMA BuiltInit == Init => BuiltInv
    BY DEF Init, BuiltInv

LEMMA BuiltNext ==
    FlowType /\ DataType /\ RoutedInv /\ CleanupInv /\ TurnInv /\ StagedInv /\ BuiltInv
        /\ [Next]_vars => BuiltInv'
<1> SUFFICES ASSUME FlowType, DataType, RoutedInv, CleanupInv, TurnInv, StagedInv, BuiltInv,
                    [Next]_vars
             PROVE  BuiltInv'
    OBVIOUS
<1> SUFFICES ASSUME NEW r \in Run, Alone(r)'
             PROVE  /\ pc'[r] = "evidence" \/ (pc'[r] = "build" /\ "latest" \in done'[r])
                        => LatestBuilt'
                    /\ pc'[r] = "evidence" \/ (pc'[r] = "build" /\ "audit" \in done'[r])
                        => AuditBuilt'
    BY DEF BuiltInv
<1> DEFINE Kept ==
        /\ pc'[r] = "evidence" \/ (pc'[r] = "build" /\ "latest" \in done'[r]) => LatestBuilt'
        /\ pc'[r] = "evidence" \/ (pc'[r] = "build" /\ "audit" \in done'[r]) => AuditBuilt'
<1>1. CASE pc[r] \notin {"build", "evidence"}
  <2>1. CASE Step(r)
    BY <1>1, <2>1, BuildEntered
  <2>2. CASE ~Step(r)
    <3>1. pc'[r] = pc[r]
      BY <2>2, OwnJob
      DEF Next, Environment, Promote, JobMoves, Deliver, Leftover, vars, flow
    <3> QED
      BY <1>1, <3>1
  <2> QED
    BY <2>1, <2>2
<1>2. CASE pc[r] \in {"build", "evidence"}
  <2>1. Alone(r)
    BY <1>2, AloneBefore
  <2>2. /\ pc[r] = "evidence" \/ (pc[r] = "build" /\ "latest" \in done[r]) => LatestBuilt
        /\ pc[r] = "evidence" \/ (pc[r] = "build" /\ "audit" \in done[r]) => AuditBuilt
    BY <2>1 DEF BuiltInv
  <2>3. CASE BuildLatest(r)
    <3>1. LatestBuilt' /\ (AuditBuilt => AuditBuilt')
      BY <2>3, BuildStaged, SameBuilt DEF BuildLatest
    <3>2. pc'[r] = pc[r] /\ pc[r] = "build" /\ done'[r] = done[r] \cup {"latest"}
      BY <2>3 DEF BuildLatest, FlowType
    <3> QED
      BY <2>2, <3>1, <3>2
  <2>4. CASE BuildAudit(r)
    <3>1. AuditBuilt' /\ (LatestBuilt => LatestBuilt')
      BY <2>4, BuildStaged, SameBuilt DEF BuildAudit
    <3>2. pc'[r] = pc[r] /\ pc[r] = "build" /\ done'[r] = done[r] \cup {"audit"}
      BY <2>4 DEF BuildAudit, FlowType
    <3> QED
      BY <2>2, <3>1, <3>2
  <2>5. ASSUME UNCHANGED <<tables, models>>
        PROVE  (LatestBuilt => LatestBuilt') /\ (AuditBuilt => AuditBuilt')
    BY <2>5, SameStaged, SameBuilt DEF models
  <2>6. CASE Step(r) /\ ~BuildLatest(r) /\ ~BuildAudit(r)
    <3>1. UNCHANGED <<tables, models>>
      BY <2>6, FlowFrame DEF Step, FlowNext, Publish
    <3>2. CASE Built(r)
      <4>1. LatestBuilt /\ AuditBuilt
        BY <2>2, <3>2 DEF Built, Models
      <4> QED
        BY <2>5, <3>1, <4>1
    <3>3. CASE CheckEvidence(r)
      <4>1. LatestBuilt /\ AuditBuilt
        BY <2>2, <3>3 DEF CheckEvidence
      <4> QED
        BY <2>5, <3>1, <4>1
    <3>4. CASE ~Built(r) /\ ~CheckEvidence(r)
      <4>1. CASE Succeed(r) \/ CallFails(r)
        BY <4>1 DEF Succeed, CallFails, Goto, FlowType, Handler
      <4>2. CASE ~Succeed(r) /\ ~CallFails(r)
        BY <1>2, <2>6, <3>4, <4>2
        DEF Step, Begin, LaunchFlex, WaitRunning, Publish, Published, CheckStages,
            StagesChecked, RequestDrain, WaitDrained, Discover, InspectKnown, WaitCancelled,
            CleanupFails
      <4> QED
        BY <4>1, <4>2
    <3> QED
      BY <3>2, <3>3, <3>4
  <2>10. ASSUME NEW s \in Run, Leftover(s) PROVE Kept
    <3>1. UNCHANGED <<pc, done>>
      BY <2>10 DEF Leftover, flow
    <3>2. (LatestBuilt => LatestBuilt') /\ (AuditBuilt => AuditBuilt')
      BY <2>5, <2>10, BuildStaged, SameBuilt DEF Leftover
    <3> QED
      BY <2>2, <3>1, <3>2
  <2>7. CASE UNCHANGED vars \/ Promote \/ \E s \in Run : JobMoves(s)
    <3>1. UNCHANGED <<tables, models, pc, done>>
      BY <2>7 DEF vars, Promote, JobMoves, flow
    <3> QED
      BY <2>2, <2>5, <3>1
  <2>8. ~mode.overlap
    BY <2>1 DEF Alone
  <2> HIDE DEF Kept
  <2>9. Kept
    BY <1>2, <2>1, <2>3, <2>4, <2>6, <2>7, <2>8, <2>10, AloneIsStill
    DEF Next, Environment, Kept
  <2> QED
    BY <2>9 DEF Kept
<1> QED
    BY <1>1, <1>2

\* After the build of a run that is alone, each staged message of an event is the one
\* shown or an audited copy, whatever was redelivered and whatever failed before.
THEOREM AuditRest == Spec => []AuditIsTheRest
<1>1. StagedInv /\ BuiltInv => AuditIsTheRest
  <2> SUFFICES ASSUME StagedInv, BuiltInv, NEW r \in Run, pc[r] = "evidence", Alone(r),
                      NEW e \in Event
               PROVE  /\ Cardinality(latest[e]) = (IF StagedOf(e) = {} THEN 0 ELSE 1)
                      /\ latest[e] \subseteq StagedOf(e)
                      /\ audit \cap StagedOf(e) = StagedOf(e) \ latest[e]
    BY DEF AuditIsTheRest, StagedOf
  <2>1. latest[e] = NewestOf(e) /\ StagedOf(e) \ NewestOf(e) \subseteq audit
    BY DEF BuiltInv, LatestBuilt, AuditBuilt
  <2>2. Cardinality(NewestOf(e)) = (IF StagedOf(e) = {} THEN 0 ELSE 1)
    <3>1. CASE StagedOf(e) = {}
      <4>1. NewestOf(e) = {}
        BY <3>1 DEF NewestOf, Front
      <4> QED
        BY <3>1, <4>1, FS_EmptySet
    <3>2. CASE StagedOf(e) # {}
      <4>1. \E m \in StagedOf(e) : NewestOf(e) = {m}
        BY <3>2 DEF StagedInv
      <4> QED
        BY <3>2, <4>1, FS_Singleton
    <3> QED
      BY <3>1, <3>2
  <2>3. audit \cap NewestOf(e) = {}
    <3> SUFFICES ASSUME NEW m \in audit, m \in NewestOf(e) PROVE FALSE
      OBVIOUS
    <3>1. PICK n \in MessagesOf(silver) : EventOf(n) = EventOf(m) /\ Ahead(n, m)
      BY DEF StagedInv
    <3>2. n \in StagedOf(e)
      BY <3>1 DEF NewestOf, Front, StagedOf
    <3> QED
      BY <3>1, <3>2 DEF NewestOf, Front
  <2>4. NewestOf(e) \subseteq StagedOf(e)
    BY DEF NewestOf, Front
  <2> QED
    BY <2>1, <2>2, <2>3, <2>4
<1> QED
    BY <1>1, PartsTyped, RoutedInit, RoutedNext, CleanupInvariant, TurnInit, TurnNext,
       StagedInit, StagedNext, BuiltInit, BuiltNext, PTL DEF Spec

----------------------------------------------------------------------------
(* The evidence.                                                           *)

\* One message of each record: there are as many as records.
OnceEach(r, S) == {[run |-> r, index |-> i, copy |-> 1] : i \in S}

LEMMA OnceEachCount ==
    ASSUME NEW r, NEW S \in SUBSET Index
    PROVE  /\ IsFiniteSet(OnceEach(r, S))
           /\ Cardinality(OnceEach(r, S)) = Cardinality(S)
<1> DEFINE message == [i \in S |-> [run |-> r, index |-> i, copy |-> 1]]
<1>1. IsFiniteSet(S)
  <2>1. IsFiniteSet(Index)
    BY FixtureAssumption, FS_Interval DEF Index
  <2> QED
    BY <2>1, FS_Subset
<1>2. message \in [S -> OnceEach(r, S)]
    BY DEF OnceEach
<1>3. \A i, j \in S : message[i] = message[j] => i = j
  <2>1. \A i \in S : message[i].index = i
    OBVIOUS
  <2> QED
    BY <2>1
<1>4. \A m \in OnceEach(r, S) : \E i \in S : message[i] = m
    BY DEF OnceEach
<1> HIDE DEF message
<1>5. message \in Bijection(S, OnceEach(r, S))
    BY <1>2, <1>3, <1>4, Fun_IsBij
<1>6. ExistsBijection(S, OnceEach(r, S))
    BY <1>5 DEF ExistsBijection
<1> QED
    BY <1>1, <1>6, FS_Bijection

\* A set of messages with one for each event counts the events.
LEMMA OneOfEach ==
    ASSUME NEW S, IsFiniteSet(S), \A m, n \in S : EventOf(m) = EventOf(n) => m = n
    PROVE  Cardinality({EventOf(m) : m \in S}) = Cardinality(S)
<1> DEFINE E == {EventOf(m) : m \in S}
           event == [m \in S |-> EventOf(m)]
<1>1. event \in [S -> E]
    OBVIOUS
<1>2. \A m, n \in S : event[m] = event[n] => m = n
    OBVIOUS
<1>3. \A x \in E : \E m \in S : event[m] = x
    OBVIOUS
<1> HIDE DEF E, event
<1>4. event \in Bijection(S, E)
    BY <1>1, <1>2, <1>3, Fun_IsBij
<1>5. ExistsBijection(S, E)
    BY <1>4 DEF ExistsBijection
<1> QED
    BY <1>5, FS_Bijection DEF E

\* The records that satisfy the contract, and those a later one of their event replaces.
Accepted == {i \in Index : Semantic(Fixture[i])}

Superseded == {i \in Accepted : \E j \in Accepted :
                    j > i /\ Fixture[j].event = Fixture[i].event}

Only(r, i) == [run |-> r, index |-> i, copy |-> 1]

\* What is staged was published.
PublishedInv == MessagesOf(silver) \subseteq published

LEMMA PublishedInit == Init => PublishedInv
    BY DEF Init, PublishedInv, MessagesOf

LEMMA PublishedNext == DataType /\ PublishedInv /\ [Next]_vars => PublishedInv'
<1> SUFFICES ASSUME DataType, PublishedInv, [Next]_vars PROVE PublishedInv'
    OBVIOUS
<1>1. ASSUME NEW r \in Run, Deliver(r) PROVE PublishedInv'
  <2>1. PICK m \in backlog :
          LET row == [message |-> m, ingestion |-> Cardinality(Ingestions(m)) + 1]
          IN  silver' = silver \cup Process(row).valid
    BY <1>1 DEF Deliver
  <2>2. \A p \in silver' : p \in silver \/ p.message = m
    BY <2>1 DEF Process
  <2>3. m \in published /\ published' = published
    BY <1>1 DEF DataType, Deliver
  <2> QED
    BY <2>2, <2>3 DEF PublishedInv, MessagesOf
<1>2. ASSUME NEW r \in Run, PublishNext(r), UNCHANGED tables PROVE PublishedInv'
    BY <1>2 DEF PublishNext, Accept, tables, PublishedInv, MessagesOf
<1>3. ASSUME NEW r \in Run, Step(r), ~Publish(r) PROVE PublishedInv'
    BY <1>3, FlowFrame DEF Step, FlowNext, BuildLatest, BuildAudit, topic, tables,
                           PublishedInv, MessagesOf
<1>4. CASE UNCHANGED vars \/ Promote \/ \E r \in Run : JobMoves(r)
    BY <1>4 DEF vars, Promote, JobMoves, topic, tables, PublishedInv, MessagesOf
<1>5. ASSUME NEW r \in Run, Leftover(r) PROVE PublishedInv'
    BY <1>2, <1>5 DEF Leftover, topic, tables, PublishedInv, MessagesOf
<1> QED
    BY <1>1, <1>2, <1>3, <1>4, <1>5 DEF Next, Environment, Publish

\* Every accepted record of the run is staged, once, and nothing of a later run is.
Settled(r) ==
    /\ \A m \in MessagesOf(silver) :
        /\ m \in Message /\ m.index \in Accepted /\ m.run <= r
        /\ m.run = r => m = Only(r, m.index)
    /\ \A i \in Accepted : Only(r, i) \in MessagesOf(silver)

LEMMA EvidenceSettled ==
    ASSUME FlowType, DataType, RoutedInv, SuccessInv, TurnInv, PublishedInv,
           NEW r \in Run, pc[r] = "evidence", ~mode.overlap,
           \A m \in Retried : m.run # r, backlog = {}
    PROVE  Settled(r)
<1>1. ASSUME NEW m \in published
      PROVE  /\ m.run <= r
             /\ m.run = r => m = Only(r, m.index)
  <2>1. m.run \in Run /\ m.run \in Nat /\ r \in Nat /\ m \in Message
    BY RunAssumption DEF DataType, Message
  <2>2. ASSUME r < m.run PROVE FALSE
    <3>1. pc[m.run] = "new"
      BY <2>1, <2>2 DEF TurnInv, Running, Ended
    <3>2. m.index \in Sent(m.run)
      BY DEF Sent
    <3> QED
      BY <2>1, <3>1, <3>2 DEF SuccessInv
  <2>3. ASSUME m.run = r PROVE m = Only(r, m.index)
    <3>1. m.copy = 1
      BY <2>1, <2>3 DEF Retried, Message, Copy
    <3> QED
      BY <2>1, <2>3, <3>1 DEF Message, Only
  <2> QED
    BY <2>1, <2>2, <2>3
<1>2. \A m \in MessagesOf(silver) : m \in published /\ m \in Message /\ m.index \in Accepted
  <2>1. \A m \in MessagesOf(silver) : Decodes(m)
    BY DEF RoutedInv, MessagesOf
  <2>2. \A m \in Message : m.index \in Index
    BY DEF Message
  <2> QED
    BY <2>1, <2>2 DEF PublishedInv, DataType, Decodes, Accepted
<1>3. ASSUME NEW i \in Accepted PROVE Only(r, i) \in MessagesOf(silver)
  <2>1. i \in Sent(r)
    BY DEF SuccessInv, Accepted
  <2>2. PICK m \in published : m.run = r /\ m.index = i
    BY <2>1 DEF Sent
  <2>3. m = Only(r, i)
    BY <1>1, <2>2
  <2>4. Decodes(m)
    BY <2>2 DEF Accepted, Decodes
  <2>5. m \notin MessagesOf(quarantine)
    BY <2>4 DEF RoutedInv, MessagesOf
  <2> QED
    BY <2>3, <2>5 DEF RoutedInv
<1> QED
    BY <1>1, <1>2, <1>3 DEF Settled

\* The messages of a settled run are newer than any other of their event.
LEMMA SettledOrder ==
    ASSUME StagedInv, NEW r \in Run, Settled(r)
    PROVE  /\ \A i \in Accepted :
                /\ Only(r, i).run = r /\ Only(r, i).index = i
                /\ EventOf(Only(r, i)) = Fixture[i].event
                /\ EventOf(Only(r, i)) \in Event
                /\ Only(r, i) \in StagedOf(Fixture[i].event)
                /\ Only(r, i) \in NewestOf(Fixture[i].event) <=> i \notin Superseded
           /\ \A i \in Accepted : \E j \in Accepted :
                /\ Fixture[j].event = Fixture[i].event
                /\ NewestOf(Fixture[i].event) = {Only(r, j)}
<1>1. \A i : Only(r, i).run = r /\ Only(r, i).index = i /\ Only(r, i).copy = 1
    BY DEF Only
<1>2. ASSUME NEW i \in Accepted
      PROVE  /\ EventOf(Only(r, i)) = Fixture[i].event
             /\ EventOf(Only(r, i)) \in Event
             /\ Only(r, i) \in StagedOf(Fixture[i].event)
  <2>1. i \in Index
    BY DEF Accepted
  <2> QED
    BY <1>1, <2>1 DEF Settled, StagedOf, EventOf, Event
<1>3. ASSUME NEW i \in Accepted, NEW j \in Accepted
      PROVE  Ahead(Only(r, i), Only(r, j)) <=> i > j
  <2>1. EventTime(Only(r, i)) = <<r, i>> /\ EventTime(Only(r, j)) = <<r, j>>
    BY <1>1 DEF EventTime, ReleaseContext
  <2>2. PublishTime(Only(r, i)) = 1 /\ PublishTime(Only(r, j)) = 1
    BY <1>1 DEF PublishTime
  <2>3. r \in Nat
    BY RunAssumption
  <2>4. ~(r > r) /\ ~(1 > 1)
    BY <2>3
  <2> QED
    BY <2>1, <2>2, <2>4 DEF Ahead, Later
<1>4. ASSUME NEW m \in MessagesOf(silver), NEW i \in Accepted, m.run # r
      PROVE  Ahead(Only(r, i), m) /\ ~Ahead(m, Only(r, i))
  <2>1. m.run \in Nat /\ r \in Nat /\ m.run <= r
    BY RunAssumption DEF Settled, Message
  <2>2. r > m.run /\ ~(m.run > r)
    BY <1>4, <2>1
  <2> QED
    BY <1>1, <1>4, <2>2 DEF Ahead, Later, EventTime, PublishTime, ReleaseContext
<1>5. \A m \in MessagesOf(silver) : m.run = r => m.index \in Accepted /\ m = Only(r, m.index)
    BY DEF Settled
<1>6. ASSUME NEW i \in Accepted
      PROVE  Only(r, i) \in NewestOf(Fixture[i].event) <=> i \notin Superseded
  <2> DEFINE e == Fixture[i].event
  <2>1. ASSUME i \in Superseded PROVE Only(r, i) \notin NewestOf(e)
    <3>1. PICK j \in Accepted : j > i /\ Fixture[j].event = e
      BY <2>1 DEF Superseded
    <3>2. Only(r, j) \in StagedOf(e) /\ Ahead(Only(r, j), Only(r, i))
      BY <1>2, <1>3, <3>1
    <3> QED
      BY <3>2 DEF NewestOf, Front
  <2>2. ASSUME Only(r, i) \notin NewestOf(e) PROVE i \in Superseded
    <3>1. PICK n \in StagedOf(e) : Ahead(n, Only(r, i))
      BY <1>2, <2>2 DEF NewestOf, Front
    <3>2. n \in MessagesOf(silver) /\ EventOf(n) = e
      BY DEF StagedOf
    <3>3. n.index \in Accepted /\ n = Only(r, n.index)
      BY <1>4, <1>5, <3>1, <3>2
    <3>4. n.index > i /\ Fixture[n.index].event = e
      BY <1>3, <3>1, <3>2, <3>3 DEF EventOf
    <3> QED
      BY <3>3, <3>4 DEF Superseded
  <2> QED
    BY <2>1, <2>2
<1>7. ASSUME NEW i \in Accepted
      PROVE  \E j \in Accepted : /\ Fixture[j].event = Fixture[i].event
                                 /\ NewestOf(Fixture[i].event) = {Only(r, j)}
  <2> DEFINE e == Fixture[i].event
  <2>1. PICK t \in StagedOf(e) : NewestOf(e) = {t}
    BY <1>2 DEF StagedInv
  <2>2. t \in MessagesOf(silver) /\ EventOf(t) = e
    BY DEF StagedOf
  <2>3. ~Ahead(Only(r, i), t)
    BY <1>2, <2>1 DEF NewestOf, Front
  <2>4. t.index \in Accepted /\ t = Only(r, t.index)
    BY <1>4, <1>5, <2>2, <2>3
  <2> QED
    BY <2>1, <2>2, <2>4 DEF EventOf
<1> QED
    BY <1>1, <1>2, <1>6, <1>7

\* The audited copies of a settled run are its superseded records.
LEMMA SettledAudit ==
    ASSUME StagedInv, AuditBuilt, NEW r \in Run, Settled(r)
    PROVE  {m \in audit : CorrelationOf(m) = r} = OnceEach(r, Superseded)
<1>1. ASSUME NEW m \in audit, m.run = r PROVE m \in OnceEach(r, Superseded)
  <2>1. PICK n \in MessagesOf(silver) :
          m \in MessagesOf(silver) /\ EventOf(n) = EventOf(m) /\ Ahead(n, m)
    BY DEF StagedInv
  <2>2. m.index \in Accepted /\ m = Only(r, m.index)
    BY <1>1, <2>1 DEF Settled
  <2>3. Fixture[m.index].event = EventOf(m)
    BY DEF EventOf
  <2>4. Only(r, m.index) \notin NewestOf(Fixture[m.index].event)
    BY <2>1, <2>2, <2>3 DEF NewestOf, Front, StagedOf
  <2>5. m.index \in Superseded
    BY <2>2, <2>4, SettledOrder
  <2> QED
    BY <2>2, <2>5 DEF OnceEach, Only
<1>2. ASSUME NEW i \in Superseded PROVE Only(r, i) \in audit /\ Only(r, i).run = r
  <2>1. i \in Accepted
    BY DEF Superseded
  <2>2. /\ Only(r, i) \in StagedOf(Fixture[i].event) \ NewestOf(Fixture[i].event)
        /\ Fixture[i].event \in Event
        /\ Only(r, i).run = r
    BY <2>1, SettledOrder
  <2> QED
    BY <2>2 DEF AuditBuilt
<1>3. \A m : CorrelationOf(m) = m.run
    BY DEF CorrelationOf, ReleaseContext
<1>4. \A m : m \in OnceEach(r, Superseded) <=> \E i \in Superseded : m = Only(r, i)
    BY DEF OnceEach, Only
<1> QED
    BY <1>1, <1>2, <1>3, <1>4

\* The overlay shows the other records of a settled run that no promotion passed.
LEMMA SettledOverlay ==
    ASSUME StagedInv, LatestBuilt, NEW r \in Run, Settled(r), r \notin outdated, Covered
    PROVE  {m \in Overlay : CorrelationOf(m) = r} = OnceEach(r, Accepted \ Superseded)
<1> DEFINE shown == {m \in UNION {latest[e] : e \in Event} : m.run \notin outdated}
<1>1. \A m : m \in shown <=> m.run \notin outdated /\ \E e \in Event : m \in NewestOf(e)
    BY DEF LatestBuilt
<1>2. \A m : m \in Overlay <=>
        /\ m \in shown /\ KeyOf(m) \in release.covered
        /\ \A n \in shown : KeyOf(n) = KeyOf(m) => ~Later(EventTime(n), EventTime(m))
    BY DEF Overlay
<1> HIDE DEF shown
<1>3. \A e : \A m \in NewestOf(e) : m \in MessagesOf(silver) /\ EventOf(m) = e
    BY DEF NewestOf, Front, StagedOf
<1>4. \A m \in MessagesOf(silver) : m.index \in Accepted /\ Fixture[m.index].event = EventOf(m)
    BY DEF Settled, EventOf
<1>5. ASSUME NEW m \in Overlay, m.run = r PROVE m \in OnceEach(r, Accepted \ Superseded)
  <2>1. PICK e \in Event : m \in NewestOf(e)
    BY <1>1, <1>2
  <2>2. m.index \in Accepted /\ m = Only(r, m.index) /\ Fixture[m.index].event = e
    BY <1>3, <1>4, <1>5, <2>1 DEF Settled
  <2>3. m.index \notin Superseded
    BY <2>1, <2>2, SettledOrder
  <2> QED
    BY <2>2, <2>3 DEF OnceEach, Only
<1>6. ASSUME NEW i \in Accepted \ Superseded PROVE Only(r, i) \in Overlay /\ Only(r, i).run = r
  <2> DEFINE m == Only(r, i)
             e == Fixture[i].event
  <2>1. m.run = r /\ m.index = i /\ e \in Event /\ m \in NewestOf(e)
    BY SettledOrder
  <2>2. m \in shown
    BY <1>1, <2>1
  <2>3. ASSUME NEW n \in shown, KeyOf(n) = KeyOf(m) PROVE n = m
    <3>1. PICK x \in Event : n \in NewestOf(x)
      BY <1>1
    <3>2. n.index \in Accepted /\ Fixture[n.index].event = x
      BY <1>3, <1>4, <3>1
    <3>3. Fixture[n.index].municipality = Fixture[i].municipality
      BY <2>1, <2>3 DEF KeyOf
    <3>4. x = e
      BY <3>2, <3>3, DemoAssumption DEF Accepted
    <3>5. \E j \in Accepted : NewestOf(e) = {Only(r, j)}
      BY SettledOrder
    <3> QED
      BY <2>1, <3>1, <3>4, <3>5
  <2>4. ~Later(EventTime(m), EventTime(m))
    <3>1. r \in Nat /\ i \in Nat
      BY RunAssumption, FixtureAssumption DEF Accepted, Index
    <3> QED
      BY <2>1, <3>1 DEF Later, EventTime, ReleaseContext
  <2> HIDE DEF m
  <2>5. KeyOf(m) \in release.covered
    BY <2>1 DEF KeyOf, Covered, Accepted
  <2>6. m \in Overlay
    BY <1>2, <2>2, <2>3, <2>4, <2>5
  <2> QED
    BY <2>1, <2>6 DEF m
<1>7. \A m : CorrelationOf(m) = m.run
    BY DEF CorrelationOf, ReleaseContext
<1>8. \A m : m \in OnceEach(r, Accepted \ Superseded) <=>
                \E i \in Accepted \ Superseded : m = Only(r, i)
    BY DEF OnceEach, Only
<1> QED
    BY <1>5, <1>6, <1>7, <1>8

\* One record of each event is superseded by none.
LEMMA SettledEvents ==
    ASSUME StagedInv, NEW r \in Run, Settled(r)
    PROVE  Cardinality(OnceEach(r, Accepted \ Superseded)) = ExpectedEvents
<1> DEFINE T == OnceEach(r, Accepted \ Superseded)
<1>1. \A m : m \in T <=> \E i \in Accepted \ Superseded : m = Only(r, i)
    BY DEF OnceEach, Only
<1>2. IsFiniteSet(T)
    BY OnceEachCount DEF Accepted
<1> HIDE DEF T
<1>3. ASSUME NEW m \in T, NEW n \in T, EventOf(m) = EventOf(n) PROVE m = n
  <2>1. PICK i \in Accepted \ Superseded : m = Only(r, i)
    BY <1>1
  <2>2. PICK j \in Accepted \ Superseded : n = Only(r, j)
    BY <1>1
  <2>3. Fixture[i].event = Fixture[j].event
    BY <1>3, <2>1, <2>2, SettledOrder
  <2>4. i \in Nat /\ j \in Nat
    BY FixtureAssumption DEF Accepted, Index
  <2>5. ~(i > j) /\ ~(j > i)
    BY <2>3 DEF Superseded
  <2> QED
    BY <2>1, <2>2, <2>4, <2>5
<1>4. Cardinality({EventOf(m) : m \in T}) = Cardinality(T)
    BY <1>2, <1>3, OneOfEach
<1>5. ASSUME NEW i \in Accepted PROVE \E m \in T : EventOf(m) = Fixture[i].event
  <2>1. PICK j \in Accepted : /\ Fixture[j].event = Fixture[i].event
                              /\ NewestOf(Fixture[i].event) = {Only(r, j)}
    BY SettledOrder
  <2>2. j \notin Superseded /\ EventOf(Only(r, j)) = Fixture[i].event
    BY <2>1, SettledOrder
  <2> QED
    BY <1>1, <2>2
<1>6. ASSUME NEW m \in T PROVE \E i \in Accepted : EventOf(m) = Fixture[i].event
    BY <1>1, SettledOrder
<1>7. {EventOf(m) : m \in T} = {Fixture[i].event : i \in Accepted}
    BY <1>5, <1>6
<1> QED
    BY <1>4, <1>7 DEF ExpectedEvents, T, Accepted

\* A run that is alone finds the one audited copy and its own rows in the overlay, whatever
\* the runs before it left behind, unless one of its publications was retried, a message
\* is still on the subscription, a promotion passed it or the release active now lacks the
\* rows it overlays.
THEOREM EvidenceShown == Spec => []EvidenceHolds
<1>1. FlowType /\ DataType /\ RoutedInv /\ SuccessInv /\ TurnInv /\ StagedInv /\ BuiltInv
        /\ PublishedInv => EvidenceHolds
  <2> SUFFICES ASSUME FlowType, DataType, RoutedInv, SuccessInv, TurnInv, StagedInv, BuiltInv,
                      PublishedInv, NEW r \in Run, pc[r] = "evidence", Alone(r),
                      \A m \in Retried : m.run # r, backlog = {}, r \notin outdated,
                      Covered
               PROVE  DuplicateReady(r) /\ GoldReady(r)
    BY DEF EvidenceHolds
  <2>1. Settled(r)
    BY EvidenceSettled DEF Alone
  <2>2. LatestBuilt /\ AuditBuilt
    BY DEF BuiltInv
  <2>3. Cardinality(OnceEach(r, Superseded)) = 1
    <3>1. Superseded \in SUBSET Index
      BY DEF Superseded, Accepted
    <3>2. Cardinality(Superseded) = 1
      BY DemoAssumption DEF Superseded, Accepted
    <3> QED
      BY <3>1, <3>2, OnceEachCount
  <2>4. DuplicateReady(r)
    BY <2>1, <2>2, <2>3, SettledAudit DEF DuplicateReady
  <2>5. GoldReady(r)
    BY <2>1, <2>2, SettledOverlay, SettledEvents DEF GoldReady
  <2> QED
    BY <2>4, <2>5
<1> QED
    BY <1>1, PartsTyped, RoutedInit, RoutedNext, SuccessInit, SuccessNext, CleanupInvariant,
       TurnInit, TurnNext, StagedInit, StagedNext, BuiltInit, BuiltNext,
       PublishedInit, PublishedNext, PTL DEF Spec

----------------------------------------------------------------------------
(* The local demo.                                                         *)

\* The messages that decode, and those of one event.
Decoded == {m \in physical : Decodes(m)}

DecodedOf(e) == {m \in Decoded : EventOf(m) = e}

Shown == UNION {canonical[e] : e \in Event}

\* Each event shows the message in front of those seen, the others are audited and what
\* does not decode is refused.
LocalInv ==
    /\ physical \subseteq LocalMessage
    /\ refused = physical \ Decoded
    /\ DOMAIN canonical = Event
    /\ \A e \in Event :
        /\ canonical[e] = Front(DecodedOf(e))
        /\ DecodedOf(e) = {} \/ \E t \in DecodedOf(e) : canonical[e] = {t}
    /\ duplicates = Decoded \ Shown

LEMMA LocalMessages ==
    /\ LocalMessage \subseteq AnyMessage
    /\ \A m \in LocalMessage : EventOf(m) \in Event
    /\ \A m, n \in LocalMessage : Ahead(m, n) <=> Later(EventTime(m), EventTime(n))
<1>1. \A m \in LocalMessage : \E i \in Index : m = [run |-> 1, index |-> i, copy |-> 1]
    BY DEF LocalMessage
<1>2. \A m \in LocalMessage : m \in AnyMessage /\ m.index \in Index /\ m.copy = 1
    BY <1>1 DEF AnyMessage, Copy
<1>3. \A m \in LocalMessage : EventOf(m) \in Event
    BY <1>2 DEF EventOf, Event
<1>4. \A m, n \in LocalMessage : ~(PublishTime(m) > PublishTime(n))
    BY <1>2 DEF PublishTime
<1> QED
    BY <1>2, <1>3, <1>4 DEF Ahead

LEMMA LocalStart == LocalInit => LocalInv
<1> SUFFICES ASSUME LocalInit PROVE LocalInv
    OBVIOUS
<1>1. Decoded = {} /\ Shown = {}
    BY DEF LocalInit, Decoded, Shown
<1>2. \A e \in Event : DecodedOf(e) = {} /\ Front(DecodedOf(e)) = {}
    BY <1>1 DEF DecodedOf, Front
<1> QED
    BY <1>1, <1>2 DEF LocalInit, LocalInv

\* A record that decodes takes its event or is audited.
LEMMA DeduplicateKeeps ==
    ASSUME LocalInv, NEW m \in LocalMessage, Deduplicate(m)
    PROVE  LocalInv'
<1> DEFINE e == EventOf(m)
           before == canonical[e]
           S == DecodedOf(e)
<1>1. e \in Event /\ m \in AnyMessage
    BY LocalMessages
<1>2. /\ m \notin physical /\ Decodes(m) /\ physical' = physical \cup {m}
      /\ canonical' = [canonical EXCEPT ![e] = FirstOf(before, m)]
      /\ duplicates' = duplicates \cup ((before \cup {m}) \ FirstOf(before, m))
      /\ refused' = refused
    BY DEF Deduplicate
<1>3. /\ \A n : Decodes(n)' = Decodes(n) /\ EventOf(n)' = EventOf(n)
      /\ \A n, o : Ahead(n, o)' = Ahead(n, o)
    BY DEF Decodes, EventOf, Ahead, Later, EventTime, PublishTime, ReleaseContext
<1>4. Decoded' = Decoded \cup {m} /\ m \notin Decoded
    BY <1>2, <1>3 DEF Decoded
<1>5. /\ DecodedOf(e)' = S \cup {m}
      /\ \A x \in Event \ {e} : DecodedOf(x)' = DecodedOf(x)
    BY <1>3, <1>4 DEF DecodedOf
<1>6. S \in SUBSET AnyMessage /\ S \subseteq LocalMessage /\ m \notin S
    BY <1>2, LocalMessages DEF LocalInv, Decoded, DecodedOf
<1>7. FirstOf(before, m) = Front(S \cup {m})
      /\ \E t \in S \cup {m} : FirstOf(before, m) = {t}
  <2>1. CASE S = {}
    <3>1. before = {}
      BY <1>1, <2>1 DEF LocalInv, Front
    <3>2. FirstOf(before, m) = {m}
      BY <3>1 DEF FirstOf
    <3> QED
      BY <1>1, <1>6, <2>1, <3>2, FrontGrows
  <2>2. CASE S # {}
    <3>1. PICK t \in S : before = {t} /\ Front(S) = {t}
      BY <1>1, <2>2 DEF LocalInv
    <3>2. Front(S \cup {m}) = IF Ahead(m, t) THEN {m} ELSE {t}
      BY <1>1, <1>6, <3>1, FrontGrows
    <3>3. Ahead(m, t) <=> Later(EventTime(m), EventTime(t))
      BY <1>6, <3>1, LocalMessages
    <3>4. FirstOf(before, m) = IF Ahead(m, t) THEN {m} ELSE {t}
      BY <3>1, <3>3 DEF FirstOf
    <3> QED
      BY <3>1, <3>2, <3>4
  <2> QED
    BY <2>1, <2>2
<1>8. before \subseteq S /\ \A x \in Event \ {e} : canonical[x] \subseteq DecodedOf(x)
    BY <1>1 DEF LocalInv, Front
<1> DEFINE first == FirstOf(before, m)
<1> HIDE DEF first
<1>9. /\ canonical'[e] = first
      /\ \A x \in Event \ {e} : canonical'[x] = canonical[x]
      /\ DOMAIN canonical' = Event
    BY <1>1, <1>2 DEF LocalInv, first
<1>10. \A x \in Event :
         /\ canonical'[x] = Front(DecodedOf(x)')
         /\ DecodedOf(x)' = {} \/ \E t \in DecodedOf(x)' : canonical'[x] = {t}
    BY <1>5, <1>7, <1>9 DEF LocalInv, first
<1>11. \A x \in Event : Front(DecodedOf(x)') = Front(DecodedOf(x))'
    BY <1>3 DEF Front
<1>12. duplicates' = Decoded' \ Shown'
  <2>1. \A n : n \in Shown' <=> \E x \in Event : n \in canonical'[x]
    BY DEF Shown
  <2>2. \A n : n \in Shown <=> \E x \in Event : n \in canonical[x]
    BY DEF Shown
  <2>3. \A n : n \in Shown' <=> n \in first \/ \E x \in Event \ {e} : n \in canonical[x]
    BY <1>1, <1>9, <2>1
  <2>4. \A x \in Event \ {e} : \A n \in canonical[x] : n \notin S \cup {m}
    BY <1>2, <1>8 DEF DecodedOf, Decoded
  <2>5. first \subseteq before \cup {m}
    BY DEF FirstOf, first
  <2>6. Shown' = (Shown \ before) \cup first
  <3>1. \A n \in Shown : n \notin before => \E x \in Event \ {e} : n \in canonical[x]
    BY <1>1, <2>2
  <3>2. \A x \in Event \ {e} : \A n \in canonical[x] : n \in Shown /\ n \notin before
    BY <1>8, <2>2, <2>4
  <3> QED
    BY <2>3, <3>1, <3>2
  <2>7. duplicates' = duplicates \cup ((before \cup {m}) \ first)
    BY <1>2 DEF first
  <2>8. before \subseteq Shown /\ before \subseteq Decoded /\ m \notin Shown
    BY <1>1, <1>4, <1>8, <2>2, <2>4 DEF DecodedOf
  <2>9. duplicates = Decoded \ Shown
    BY DEF LocalInv
  <2> HIDE DEF e, before, S
  <2> QED
    BY <1>4, <2>5, <2>6, <2>7, <2>8, <2>9
<1>13. refused' = physical' \ Decoded' /\ physical' \subseteq LocalMessage
    BY <1>2, <1>4 DEF LocalInv
<1> QED
    BY <1>9, <1>10, <1>11, <1>12, <1>13 DEF LocalInv

LEMMA LocalStep == LocalInv /\ [LocalNext]_local => LocalInv'
<1> SUFFICES ASSUME LocalInv, [LocalNext]_local PROVE LocalInv'
    OBVIOUS
<1>1. /\ \A n : Decodes(n)' = Decodes(n) /\ EventOf(n)' = EventOf(n)
      /\ \A n, o : Ahead(n, o)' = Ahead(n, o)
    BY DEF Decodes, EventOf, Ahead, Later, EventTime, PublishTime, ReleaseContext
<1>2. ASSUME Decoded' = Decoded, canonical' = canonical, duplicates' = duplicates,
             refused' = physical' \ Decoded', physical' \subseteq LocalMessage
      PROVE  LocalInv'
  <2>1. \A e \in Event : DecodedOf(e)' = DecodedOf(e)
    BY <1>1, <1>2 DEF DecodedOf
  <2>2. \A e \in Event : Front(DecodedOf(e))' = Front(DecodedOf(e))
    BY <1>1, <2>1 DEF Front
  <2>3. Shown' = Shown
    BY <1>2 DEF Shown
  <2> QED
    BY <1>2, <2>1, <2>2, <2>3 DEF LocalInv
<1>3. ASSUME NEW m \in LocalMessage, Refuse(m) PROVE LocalInv'
  <2>1. Decoded' = Decoded
    BY <1>1, <1>3 DEF Refuse, Decoded
  <2>2. refused' = physical' \ Decoded' /\ physical' \subseteq LocalMessage
    BY <1>3, <2>1 DEF Refuse, LocalInv, Decoded
  <2> QED
    BY <1>2, <1>3, <2>1, <2>2 DEF Refuse
<1>4. CASE UNCHANGED local \/ \E m \in LocalMessage : Redelivery(m)
  <2>1. UNCHANGED <<physical, canonical, duplicates, refused>>
    BY <1>4 DEF local, Redelivery
  <2>2. Decoded' = Decoded
    BY <1>1, <2>1 DEF Decoded
  <2> QED
    BY <1>2, <2>1, <2>2 DEF LocalInv
<1> QED
    BY <1>3, <1>4, DeduplicateKeeps DEF LocalNext

\* The rows of the messages that decode, each delivered once.
LocalRows == {[message |-> m, ingestion |-> 0] : m \in {n \in physical : Decodes(n)}}

LEMMA LocalSelected ==
    ASSUME LocalInv
    PROVE  /\ Shown = MessagesOf(LatestOf(LocalRows))
           /\ duplicates = MessagesOf(AuditOf(LocalRows))
           /\ {EventOf(p.message) : p \in LocalRows} = {EventOf(m) : m \in Shown}
           /\ \A m, n \in Shown : EventOf(m) = EventOf(n) => m = n
           /\ Shown \subseteq Decoded
<1>1. Decoded \subseteq LocalMessage /\ \A m \in Decoded : m \in AnyMessage /\ EventOf(m) \in Event
    BY LocalMessages DEF LocalInv, Decoded
<1>2. LocalRows \in SUBSET AnyRow
    BY <1>1 DEF LocalRows, Decoded, AnyRow
<1>3. /\ \A p \in LocalRows : p.ingestion = 0 /\ p.message \in Decoded
      /\ \A m \in Decoded : \E p \in LocalRows : p.message = m
  <2>1. \A m \in Decoded : [message |-> m, ingestion |-> 0] \in LocalRows
    BY DEF LocalRows, Decoded
  <2>2. \A m : [message |-> m, ingestion |-> 0].message = m
    OBVIOUS
  <2>3. \A p \in LocalRows : p.ingestion = 0 /\ p.message \in Decoded
    BY DEF LocalRows, Decoded
  <2> QED
    BY <2>1, <2>2, <2>3, Zenon
<1>4. LogicalMessages(LocalRows) = LocalRows
    BY <1>3 DEF LogicalMessages
<1>5. HasLast(LocalRows) /\ MessagesOf(LocalRows) = Decoded
  <2>1. \A m : m \in MessagesOf(LocalRows) <=> m \in Decoded
    BY <1>3 DEF MessagesOf
  <2> QED
    BY <1>4, <2>1 DEF HasLast, MessagesOf
<1>6. /\ MessagesOf(LatestOf(LocalRows)) =
            {m \in Decoded : \A n \in Decoded : EventOf(n) = EventOf(m) => ~Ahead(n, m)}
      /\ MessagesOf(AuditOf(LocalRows)) = Decoded \ MessagesOf(LatestOf(LocalRows))
    BY <1>2, <1>5, SelectedMessages
<1>7. \A m : m \in Shown <=> \E e \in Event : m \in Front(DecodedOf(e))
    BY DEF Shown, LocalInv
<1>8. Shown = {m \in Decoded : \A n \in Decoded : EventOf(n) = EventOf(m) => ~Ahead(n, m)}
    BY <1>1, <1>7 DEF Front, DecodedOf
<1>9. ASSUME NEW m \in Shown, NEW n \in Shown, EventOf(m) = EventOf(n) PROVE m = n
    BY <1>1, <1>8, <1>9, AheadOrder
<1>10. {EventOf(p.message) : p \in LocalRows} = {EventOf(m) : m \in Decoded}
    BY <1>3
<1>11. \A m \in Decoded : \E n \in Shown : EventOf(n) = EventOf(m)
  <2> SUFFICES ASSUME NEW m \in Decoded PROVE \E n \in Shown : EventOf(n) = EventOf(m)
    OBVIOUS
  <2> DEFINE e == EventOf(m)
  <2>1. e \in Event /\ DecodedOf(e) # {}
    BY <1>1 DEF DecodedOf
  <2>2. PICK t \in DecodedOf(e) : canonical[e] = {t}
    BY <2>1 DEF LocalInv
  <2> QED
    BY <2>1, <2>2 DEF Shown, DecodedOf
<1>12. {EventOf(m) : m \in Decoded} = {EventOf(m) : m \in Shown}
    BY <1>8, <1>11
<1> QED
    BY <1>6, <1>8, <1>9, <1>10, <1>12 DEF LocalInv

\* The local demo decides as the dbt models of the cloud demo do, in any order and with
\* any redelivery, and its report adds up.
THEOREM LocalAgrees == LocalSpec => []LocalAgreesWithModels
<1>1. LocalInv => LocalAgreesWithModels
  <2> SUFFICES ASSUME LocalInv PROVE LocalAgreesWithModels
    OBVIOUS
  <2>1. /\ Shown = MessagesOf(LatestOf(LocalRows))
        /\ duplicates = MessagesOf(AuditOf(LocalRows))
        /\ {EventOf(p.message) : p \in LocalRows} = {EventOf(m) : m \in Shown}
        /\ \A m, n \in Shown : EventOf(m) = EventOf(n) => m = n
        /\ Shown \subseteq Decoded
    BY LocalSelected
  <2>2. Decoded \subseteq physical
    BY DEF Decoded
  <2>3. physical = refused \cup duplicates \cup Shown
    BY <2>1, <2>2 DEF LocalInv
  <2>4. refused \cap (Shown \cup duplicates) = {} /\ Shown \cap duplicates = {}
    BY <2>1 DEF LocalInv
  <2>5. IsFiniteSet(physical)
    <3>1. IsFiniteSet(LocalMessage)
      BY OnceEachCount DEF LocalMessage, OnceEach
    <3> QED
      BY <3>1, FS_Subset DEF LocalInv
  <2>6. IsFiniteSet(refused) /\ IsFiniteSet(Shown) /\ IsFiniteSet(duplicates)
    BY <2>3, <2>5, FS_Subset
  <2>7. Cardinality(physical)
          = Cardinality(Shown) + Cardinality(duplicates) + Cardinality(refused)
    <3>1. IsFiniteSet(Shown \cup duplicates)
          /\ Cardinality(Shown \cup duplicates)
                = Cardinality(Shown) + Cardinality(duplicates) - Cardinality({})
      BY <2>4, <2>6, FS_Union
    <3>2. Cardinality(refused \cup (Shown \cup duplicates))
            = Cardinality(refused) + Cardinality(Shown \cup duplicates) - Cardinality({})
      BY <2>4, <2>6, <3>1, FS_Union
    <3>3. physical = refused \cup (Shown \cup duplicates)
      BY <2>3
    <3>4. /\ Cardinality({}) = 0 /\ Cardinality(Shown) \in Nat
          /\ Cardinality(duplicates) \in Nat /\ Cardinality(refused) \in Nat
      BY <2>6, FS_EmptySet, FS_CardinalityType
    <3> QED
      BY <3>1, <3>2, <3>3, <3>4
  <2>8. Cardinality({EventOf(p.message) : p \in LocalRows}) = Cardinality(Shown)
    BY <2>1, <2>6, OneOfEach
  <2> HIDE DEF LocalRows, Shown
  <2>9. LocalAgreesWithModels <=>
          /\ Shown = MessagesOf(LatestOf(LocalRows))
          /\ duplicates = MessagesOf(AuditOf(LocalRows))
          /\ physical = refused \cup duplicates \cup Shown
          /\ DemoReport.raw = DemoReport.valid + DemoReport.duplicates + DemoReport.quarantine
          /\ DemoReport.valid = Cardinality({EventOf(p.message) : p \in LocalRows})
    BY Zenon DEF LocalAgreesWithModels, LocalRows, Shown
  <2>10. /\ DemoReport.raw = Cardinality(physical)
         /\ DemoReport.valid = Cardinality(Shown)
         /\ DemoReport.duplicates = Cardinality(duplicates)
         /\ DemoReport.quarantine = Cardinality(refused)
    BY DEF DemoReport, Shown
  <2> QED
    BY <2>1, <2>3, <2>7, <2>8, <2>9, <2>10
<1> QED
    BY <1>1, LocalStart, LocalStep, PTL DEF LocalSpec

================================================================================
