----------------------------- MODULE MCStreamDemo -----------------------------
(***************************************************************************)
(* The fixture in small: two events, a second record of the first one and  *)
(* a record of the sentinel municipality.  The cloud demo and the local    *)
(* one are checked over it together: a behaviour is of one or the other.   *)
(***************************************************************************)
EXTENDS StreamDemo, LocalDemo

Record(event, municipality, rate) ==
    [event |-> event, municipality |-> municipality, rate |-> rate,
     participation |-> None, simulation |-> TRUE]

ThreeRecords == <<Record("e1", "m1", 91), Record("e1", "m1", 92), Record("e0", Sentinel, 50)>>

ThreeModes ==
    {[runs |-> 2, overlap |-> FALSE, repeats |-> 0, leaves |-> TRUE, promotes |-> FALSE,
      polls |-> 1],
     [runs |-> 2, overlap |-> TRUE, repeats |-> 0, leaves |-> FALSE, promotes |-> FALSE,
      polls |-> 1],
     [runs |-> 1, overlap |-> FALSE, repeats |-> 1, leaves |-> TRUE, promotes |-> TRUE,
      polls |-> 2]}

\* A release of the year of the demo with the municipality of the records, and a release
\* without.
TwoReleases ==
    {[demoYear |-> TRUE, covered |-> {"m1"}], [demoYear |-> FALSE, covered |-> {}]}

\* The release active at first is one of the year of the demo: another one comes with a
\* promotion.
MCInit == Init /\ release.demoYear /\ LocalInit

MCNext ==
    \/ physical = {} /\ Next /\ UNCHANGED local
    \/ (\A r \in Run : pc[r] = "new") /\ LocalNext /\ UNCHANGED vars

MCSpec ==
    /\ MCInit
    /\ [][MCNext]_<<vars, local>>
    /\ \A r \in Run : WF_vars(Running(r) /\ Step(r))
==============================================================================
