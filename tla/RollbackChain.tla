----------------------------- MODULE RollbackChain -----------------------------
(***************************************************************************)
(* The rollback as the SQL computes it: a recursive query that walks the   *)
(* baselines level by level into a temporary table, asserts on that table, *)
(* and a target chosen by the smallest chain_level.  It starts from any    *)
(* contents of the registry, sound or damaged, because the asserts are     *)
(* there for the damaged ones; ReleaseRegistry states the same rollback by *)
(* what it computes.                                                       *)
(***************************************************************************)
EXTENDS ReleaseRegistry

\* Registries the asserts may meet: dangling, cyclic or unordered baselines, no
\* active row or several.
DamagedInit ==
    /\ active \in Release
    /\ status \in [Node -> {"absent", "active", "inactive"}]
    /\ status[Bootstrap] = "inactive"
    /\ baseline \in [Release -> Node]
    /\ prior = PriorOf(active)
    /\ files = [r \in Release |-> {}]
    /\ metrics = NoMetrics
    /\ results = [r \in Release |-> NoGate]
    /\ shown = [r \in Release |-> [y \in Year |-> {}]]

NoRow == [release |-> None, path |-> {}, has_cycle |-> FALSE]

HasRow(n) == status[n] # "absent"

\* rollback_chain: the row of each chain_level, with the path walked so far.
Walk(head) ==
    LET lineage[level \in 0 .. MaxChainLevel] ==
        IF level = 0 THEN [release |-> head, path |-> {head}, has_cycle |-> FALSE]
        ELSE LET child == lineage[level - 1]
                 parent == baseline[child.release]
             IN  IF child = NoRow \/ child.has_cycle \/ parent = Bootstrap
                    \/ ~ HasRow(parent)
                 THEN NoRow
                 ELSE [release |-> parent, path |-> child.path \cup {parent},
                       has_cycle |-> parent \in child.path]
    IN  lineage

LevelsOf(walk) == {level \in DOMAIN walk : walk[level] # NoRow}

\* Mutant: nothing compares the years of the chain.
WalkAssertsUnordered(walk) ==
    LET levels == LevelsOf(walk)
        Baseline(level) == baseline[walk[level].release]
    IN  /\ \A i \in levels : ~ walk[i].has_cycle
        /\ MaxChainLevel \in levels => Baseline(MaxChainLevel) = Bootstrap
        /\ Cardinality({i \in levels : Baseline(i) = Bootstrap}) = 1
        /\ \A i \in levels :
            status[walk[i].release] = IF i = 0 THEN "active" ELSE "inactive"

\* The asserts on the temporary table, in their order.
WalkAsserts(walk) ==
    LET levels == LevelsOf(walk)
        Baseline(level) == baseline[walk[level].release]
    IN  /\ \A i, j \in levels : walk[i].release = walk[j].release => i = j
        /\ \A i \in levels : ~ walk[i].has_cycle
        /\ MaxChainLevel \in levels => Baseline(MaxChainLevel) = Bootstrap
        /\ Cardinality({i \in levels : Baseline(i) = Bootstrap}) = 1
        /\ \A i \in levels :
            status[walk[i].release] = IF i = 0 THEN "active" ELSE "inactive"
        /\ \A i, j \in levels : Baseline(i) = walk[j].release =>
            ReleaseYear[walk[j].release] <= ReleaseYear[walk[i].release]

PointerAsserts ==
    /\ {n \in Node : status[n] = "active"} = {active}
    /\ prior = PriorOf(active)

LevelsOfYear(walk, y) ==
    {level \in LevelsOf(walk) : ReleaseYear[walk[level].release] = y}

\* The row with min(chain_level) of the year.
TargetLevel(walk, y) ==
    CHOOSE level \in LevelsOfYear(walk, y) : \A i \in LevelsOfYear(walk, y) : level <= i

\* Mutant: the deepest level of the year instead of the nearest.
SqlRollbackToOldest(y) ==
    LET walk == Walk(active)
    IN  /\ PointerAsserts
        /\ y <= ReleaseYear[active]
        /\ WalkAsserts(walk)
        /\ LevelsOfYear(walk, y) # {}
        /\ LET target == walk[CHOOSE level \in LevelsOfYear(walk, y) :
                                \A i \in LevelsOfYear(walk, y) : level >= i].release
           IN  /\ active' = target
               /\ prior' = PriorOf(target)
               /\ status' = [status EXCEPT ![active] = "inactive", ![target] = "active"]
        /\ UNCHANGED <<baseline, files, qualityVars, shown>>

SqlRollback(y) ==
    LET walk == Walk(active)
    IN  /\ PointerAsserts
        /\ y <= ReleaseYear[active]
        /\ WalkAsserts(walk)
        /\ LevelsOfYear(walk, y) # {}
        /\ LET target == walk[TargetLevel(walk, y)].release
           IN  /\ active' = target
               /\ prior' = PriorOf(target)
               /\ status' = [status EXCEPT ![active] = "inactive", ![target] = "active"]
        /\ UNCHANGED <<baseline, files, qualityVars, shown>>

SqlNext == \E y \in Year : SqlRollback(y)

SqlSpec == DamagedInit /\ [][SqlNext]_vars

----------------------------------------------------------------------------

\* On every registry, sound or damaged, the asserts over the walked rows accept
\* exactly when the chain is what RollbackChecks describes, so no cycle, dangling
\* baseline, second active row or unordered year gets past them; and then the walk lists
\* the whole chain.
AssertsAreComplete ==
    /\ PointerAsserts /\ WalkAsserts(Walk(active)) <=> RollbackChecks
    /\ RollbackChecks =>
        {Walk(active)[i].release : i \in LevelsOf(Walk(active))} = Chain(active)

\* A step of the query goes where Rollback goes (README: the rollback points at the
\* effective version of the year).
SqlRollbackIsRollback == [][\E y \in Year : Rollback(y)]_vars
==============================================================================
