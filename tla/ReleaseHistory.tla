---------------------------- MODULE ReleaseHistory ----------------------------
(***************************************************************************)
(* What the release control promises its readers: the published releases   *)
(* form a history whose last element is the one in effect.  Publishing     *)
(* appends a new release of the same or a later year; rolling back drops   *)
(* the releases above the last one of an earlier year; a release that was  *)
(* dropped is never in effect again.                                       *)
(***************************************************************************)
EXTENDS Naturals, Sequences

CONSTANTS Release, Year, ReleaseYear

VARIABLES
    history,    \* the releases in effect, oldest first
    retired     \* the releases a rollback dropped

InEffect == {history[i] : i \in DOMAIN history}

Init ==
    /\ history = <<>>
    /\ retired = {}

Publish(r) ==
    /\ r \notin InEffect \cup retired
    /\ \A i \in DOMAIN history : ReleaseYear[history[i]] <= ReleaseYear[r]
    /\ history' = Append(history, r)
    /\ UNCHANGED retired

RollBack(y) ==
    \E last \in 1 .. Len(history) - 1 :
        /\ ReleaseYear[history[last]] = y
        /\ \A i \in last + 1 .. Len(history) : ReleaseYear[history[i]] > y
        /\ history' = SubSeq(history, 1, last)
        /\ retired' = retired \cup {history[i] : i \in last + 1 .. Len(history)}

Next ==
    \/ \E r \in Release : Publish(r)
    \/ \E y \in Year : RollBack(y)

Spec == Init /\ [][Next]_<<history, retired>>
==============================================================================
