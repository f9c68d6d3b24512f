------------------------------ MODULE MCBatchRun ------------------------------
(* TLC instances of BatchRun. *)
EXTENDS BatchRun, TLC

CONSTANTS r1, r2, r3

\* Contents of two rows and of one, whose digests add up to the same sum.
TwoContents == {<<r1, r2>>, <<r3>>}

SmallDigests == r1 :> 1 @@ r2 :> 2 @@ r3 :> 3

OneColumn == [c1 |-> [type |-> "INT64", mode |-> "NULLABLE"]]

\* As pinned, with a column more, and with the contracted column changed.
SomeSchemas ==
    {[c1 |-> [type |-> "INTEGER", mode |-> "NULLABLE"]],
     [c1 |-> [type |-> "INTEGER", mode |-> "NULLABLE"],
      c2 |-> [type |-> "FLOAT", mode |-> "NULLABLE"]],
     [c1 |-> [type |-> "STRING", mode |-> "NULLABLE"]]}

AsPinned == {[c1 |-> [type |-> "INTEGER", mode |-> "NULLABLE"]]}

\* The added column has a type outside the contract's.
WithDate ==
    SomeSchemas \cup {[c1 |-> [type |-> "INT64", mode |-> "NULLABLE"],
                       c2 |-> [type |-> "DATE", mode |-> "NULLABLE"]]}

AnyOverlap == [overlap : BOOLEAN, reverts : {FALSE}]

Reverting == [overlap : {FALSE}, reverts : {TRUE}]
==============================================================================
