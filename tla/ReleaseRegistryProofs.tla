------------------------- MODULE ReleaseRegistryProofs -------------------------
(***************************************************************************)
(* Theorems about ReleaseRegistry for any sets of releases, years, sources *)
(* and objects.                                                            *)
(***************************************************************************)
EXTENDS ReleaseRegistry, TLAPS

USE IdentityAssumption, YearAssumption, CatalogAssumption, LevelAssumption

----------------------------------------------------------------------------
(* Types.                                                                  *)

\* The public view selects releases.
LEMMA PublicViewType ==
    ASSUME NEW head
    PROVE  PublicView(head) \in View
    BY DEF PublicView, View, NearestOf, OfYear, Ancestry

LEMMA TypeInit == Init => TypeOK
    BY DEF Init, TypeOK, Node, Status, View, Gate, NoGate

LEMMA TypeNext == TypeOK /\ [Next]_vars => TypeOK'
<1> SUFFICES ASSUME TypeOK, [Next]_vars PROVE TypeOK'
    OBVIOUS
<1> USE DEF TypeOK
<1>1. ASSUME NEW r \in Release, Begin(r) PROVE TypeOK'
    BY <1>1 DEF Begin, HeadAtBegin, Node, Status, qualityVars
<1>2. ASSUME NEW r \in Release, NEW object \in Object, NEW stamp \in Stamp,
             Record(r, object, stamp)
      PROVE  TypeOK'
    BY <1>2 DEF Record, Mapping, pointerVars, registryVars, qualityVars
<1>3. ASSUME NEW r \in Release, Complete(r) PROVE TypeOK'
    BY <1>3 DEF Complete, Node, Status, pointerVars, qualityVars
<1>4. ASSUME NEW r \in Release, Fail(r) PROVE TypeOK'
    BY <1>4 DEF Fail, Node, Status, pointerVars, qualityVars
<1>5. ASSUME NEW r \in Release, BuildMetrics(r) PROVE TypeOK'
  <2>1. \A judged \in MappingsOf(Release) : judged \in SUBSET Mapping
    BY DEF MappingsOf
  <2> QED
    BY <1>5, <2>1 DEF BuildMetrics, Judge, MixRules, pointerVars, registryVars
<1>6. ASSUME NEW r \in Release, Evaluate(r) PROVE TypeOK'
  <2>1. metrics # NoMetrics
    BY <1>6 DEF Evaluate, NoMetrics
  <2>2. [verdict |-> metrics.verdict, judged |-> metrics.judged] \in Gate
    BY <2>1 DEF Gate
  <2> QED
    BY <1>6, <2>2 DEF Evaluate, pointerVars, registryVars
<1>7. ASSUME NEW r \in Release, Promote(r) PROVE TypeOK'
  <2>1. shown' \in [Release -> View]
    BY <1>7, PublicViewType DEF Promote
  <2> QED
    BY <1>7, <2>1 DEF Promote, Node, Status, qualityVars
<1>8. ASSUME NEW r \in Release, PromoteReplay(r) PROVE TypeOK'
    BY <1>8 DEF PromoteReplay, vars
<1>9. ASSUME NEW y \in Year, Rollback(y) PROVE TypeOK'
  <2>1. NearestOf(baseline, active, y) \subseteq Release
    BY DEF NearestOf, OfYear, Ancestry
  <2> QED
    BY <1>9, <2>1 DEF Rollback, PriorOf, Node, Status, qualityVars
<1>10. ASSUME NEW old \in SUBSET Release, Cleanup(old) PROVE TypeOK'
    BY <1>10 DEF Cleanup, Node, Status, pointerVars, qualityVars
<1>11. CASE UNCHANGED vars
    BY <1>11 DEF vars
<1> QED
    BY <1>1, <1>2, <1>3, <1>4, <1>5, <1>6, <1>7, <1>8, <1>9, <1>10, <1>11 DEF Next

\* The tables keep the values the code writes to them.
THEOREM TypeCorrect == Spec => []TypeOK
    BY TypeInit, TypeNext, PTL DEF Spec

----------------------------------------------------------------------------
(* The pointer and the registry agree.  TypeOK and PointerMatchesRegistry  *)
(* are inductive together.                                                 *)

PointerInv == TypeOK /\ PointerMatchesRegistry

LEMMA PointerInit == Init => PointerMatchesRegistry
    BY DEF Init, PointerMatchesRegistry, Node

LEMMA PointerNext == PointerInv /\ [Next]_vars => PointerMatchesRegistry'
<1> SUFFICES ASSUME PointerInv, [Next]_vars PROVE PointerMatchesRegistry'
    OBVIOUS
<1> USE DEF PointerInv, TypeOK, PointerMatchesRegistry
<1>1. ASSUME NEW r \in Release, Begin(r) PROVE PointerMatchesRegistry'
  <2>1. CASE active = None
    BY <1>1, <2>1 DEF Begin, HeadAtBegin, Open, PriorOf, Node
  <2>2. CASE active # None
    <3>1. status[active] = "active" /\ active \in Node
      BY <2>2
    <3>2. /\ active' = active
          /\ prior' = prior
          /\ status' = [status EXCEPT ![r] = IF Open(r) THEN @ ELSE "running"]
      BY <1>1, <2>2 DEF Begin, HeadAtBegin
    <3>3. active \in Release => baseline'[active] = baseline[active]
      BY <1>1, <3>1 DEF Begin, Open
    <3>4. {n \in Node : status'[n] = "active"} = {active}
      BY <2>2, <3>2 DEF Open, Node
    <3>5. status'[Bootstrap] = status[Bootstrap]
      BY <3>2 DEF Node
    <3> QED
      BY <2>2, <3>2, <3>3, <3>4, <3>5 DEF PriorOf
  <2> QED
    BY <2>1, <2>2
<1>2. ASSUME NEW r \in Release, NEW object \in Object, NEW stamp \in Stamp,
             Record(r, object, stamp)
      PROVE  PointerMatchesRegistry'
    BY <1>2 DEF Record, pointerVars, registryVars, PriorOf
<1>3. ASSUME NEW r \in Release, Complete(r) PROVE PointerMatchesRegistry'
    BY <1>3 DEF Complete, pointerVars, PriorOf, Node
<1>4. ASSUME NEW r \in Release, Fail(r) PROVE PointerMatchesRegistry'
    BY <1>4 DEF Fail, Failable, pointerVars, PriorOf, Node
<1>5. ASSUME NEW r \in Release, BuildMetrics(r) PROVE PointerMatchesRegistry'
    BY <1>5 DEF BuildMetrics, Judge, MixRules, pointerVars, registryVars, PriorOf
<1>6. ASSUME NEW r \in Release, Evaluate(r) PROVE PointerMatchesRegistry'
    BY <1>6 DEF Evaluate, pointerVars, registryVars, PriorOf
<1>7. ASSUME NEW r \in Release, Promote(r) PROVE PointerMatchesRegistry'
  <2>1. /\ active \in Node /\ active # r /\ r \in Node /\ r # Bootstrap
        /\ status[active] = "active" /\ baseline[r] = active
    BY <1>7 DEF Promote, Promotable, PointerResolves, Node
  <2>2. /\ active' = r
        /\ status' = [status EXCEPT ![r] = "active", ![active] = "inactive"]
        /\ baseline' = baseline
        /\ prior' = PriorOf(r)
    BY <1>7, <2>1 DEF Promote, PriorOf
  <2>3. {n \in Node : status'[n] = "active"} = {r}
    BY <2>1, <2>2
  <2>4. status'[Bootstrap] \in {"absent", "active", "inactive"}
    BY <2>1, <2>2 DEF Node
  <2>5. r # None
    BY DEF Node
  <2> QED
    BY <2>2, <2>3, <2>4, <2>5 DEF PriorOf
<1>8. ASSUME NEW r \in Release, PromoteReplay(r) PROVE PointerMatchesRegistry'
    BY <1>8 DEF PromoteReplay, vars, pointerVars, registryVars, PriorOf
<1>9. ASSUME NEW y \in Year, Rollback(y) PROVE PointerMatchesRegistry'
  <2>1. PICK target \in NearestOf(baseline, active, y) :
          /\ active' = target
          /\ prior' = PriorOf(target)
          /\ status' = [status EXCEPT ![active] = "inactive", ![target] = "active"]
    BY <1>9 DEF Rollback
  <2>2. active \in Release /\ target \in Release /\ baseline' = baseline
    BY <1>9 DEF Rollback, NearestOf, OfYear, Ancestry
  <2>3. {n \in Node : status'[n] = "active"} = {target}
    BY <2>1, <2>2 DEF Node
  <2>4. status'[Bootstrap] = status[Bootstrap]
    BY <2>1, <2>2 DEF Node
  <2> QED
    BY <2>1, <2>2, <2>3, <2>4 DEF PriorOf
<1>10. ASSUME NEW old \in SUBSET Release, Cleanup(old) PROVE PointerMatchesRegistry'
  <2>1. \A n \in old : status[n] \in {"failed", "succeeded"}
    BY <1>10 DEF Cleanup, Deletable
  <2>2. /\ active # None /\ active' = active /\ prior' = prior
        /\ status' = [n \in Node |-> IF n \in old THEN "absent" ELSE status[n]]
        /\ baseline' = [r \in Release |-> IF r \in old THEN None ELSE baseline[r]]
    BY <1>10 DEF Cleanup, pointerVars
  <2>3. status[active] = "active" /\ active \in Node
    BY <2>2
  <2>4. {n \in Node : status'[n] = "active"} = {active}
    BY <2>1, <2>2
  <2>5. status'[Bootstrap] = status[Bootstrap]
    BY <2>2 DEF Node
  <2>6. active \in Release => baseline'[active] = baseline[active]
    BY <2>1, <2>2, <2>3
  <2> QED
    BY <2>2, <2>4, <2>5, <2>6 DEF PriorOf
<1>11. CASE UNCHANGED vars
    BY <1>11 DEF vars, pointerVars, registryVars, PriorOf
<1> QED
    BY <1>1, <1>2, <1>3, <1>4, <1>5, <1>6, <1>7, <1>8, <1>9, <1>10, <1>11 DEF Next

\* One row is active, the pointer names it, and its prior is its baseline.
THEOREM PointerCorrect == Spec => []PointerMatchesRegistry
    BY TypeInit, TypeNext, PointerInit, PointerNext, PTL DEF Spec, PointerInv

----------------------------------------------------------------------------
(* What each step does to the published releases.  Only a promotion adds    *)
(* one, and no step touches the baseline or the files of one.               *)

KeepsPublished ==
    /\ Published' = Published
    /\ \A r \in Published : baseline'[r] = baseline[r] /\ files'[r] = files[r]

\* Every release of an accepted chain but the active one is inactive, so the
\* target of a rollback was published.
LEMMA RollbackKeepsPublished ==
    ASSUME PointerInv, NEW y \in Year, Rollback(y)
    PROVE  KeepsPublished
<1> USE DEF PointerInv, TypeOK, PointerMatchesRegistry
<1>1. PICK target \in NearestOf(baseline, active, y) :
        status' = [status EXCEPT ![active] = "inactive", ![target] = "active"]
    BY DEF Rollback
<1>2. target \in Chain(active)
    BY DEF NearestOf, OfYear, Chain
<1>3. status[target] \in {"active", "inactive"}
    BY <1>2 DEF Rollback, RollbackChecks
<1>4. status[active] = "active" /\ active \in Release
    BY DEF Rollback
<1> QED
    BY <1>1, <1>3, <1>4 DEF KeepsPublished, Published, Rollback, Node

LEMMA StepKeepsPublished ==
    ASSUME PointerInv, [Next]_vars, \A r \in Release : ~ Promote(r)
    PROVE  KeepsPublished
<1> USE DEF PointerInv, TypeOK, KeepsPublished, Published, Node
<1>1. ASSUME NEW r \in Release, Begin(r) PROVE KeepsPublished
    BY <1>1 DEF Begin, Open
<1>2. ASSUME NEW r \in Release, NEW object \in Object, NEW stamp \in Stamp,
             Record(r, object, stamp)
      PROVE  KeepsPublished
    BY <1>2 DEF Record, Recordable, registryVars
<1>3. ASSUME NEW r \in Release, Complete(r) PROVE KeepsPublished
    BY <1>3 DEF Complete
<1>4. ASSUME NEW r \in Release, Fail(r) PROVE KeepsPublished
    BY <1>4 DEF Fail, Failable
<1>5. ASSUME NEW r \in Release, BuildMetrics(r) \/ Evaluate(r) \/ PromoteReplay(r)
      PROVE  KeepsPublished
    BY <1>5 DEF BuildMetrics, Judge, MixRules, Evaluate, PromoteReplay, vars, registryVars
<1>6. ASSUME NEW y \in Year, Rollback(y) PROVE KeepsPublished
    BY <1>6, RollbackKeepsPublished
<1>7. ASSUME NEW old \in SUBSET Release, Cleanup(old) PROVE KeepsPublished
    BY <1>7 DEF Cleanup, Deletable
<1>8. CASE UNCHANGED vars
    BY <1>8 DEF vars
<1> QED
    BY <1>1, <1>2, <1>3, <1>4, <1>5, <1>6, <1>7, <1>8 DEF Next

LEMMA PromoteAddsOne ==
    ASSUME PointerInv, NEW r \in Release, Promote(r)
    PROVE  /\ r \notin Published /\ active # r
           /\ active \in Published \cup {Bootstrap}
           /\ Published' = Published \cup {r}
           /\ baseline' = baseline /\ files' = files /\ baseline[r] = active
           /\ active # Bootstrap => ReleaseYear[active] <= ReleaseYear[r]
    BY DEF PointerInv, TypeOK, PointerMatchesRegistry, Promote, Promotable,
           PointerResolves, Published, Node

\* No reopen, late record, failure or cleanup changes what a published release
\* selects.
THEOREM PublishedStaysFrozen == Spec => PublishedFrozen
<1>1. PointerInv /\ [Next]_vars =>
        [\A r \in Published : r \in Published' /\ files'[r] = files[r]]_vars
  <2> SUFFICES ASSUME PointerInv, [Next]_vars
               PROVE  \A r \in Published : r \in Published' /\ files'[r] = files[r]
    OBVIOUS
  <2>1. CASE \E r \in Release : Promote(r)
    BY <2>1, PromoteAddsOne
  <2>2. CASE \A r \in Release : ~ Promote(r)
    BY <2>2, StepKeepsPublished DEF KeepsPublished
  <2> QED
    BY <2>1, <2>2
<1> QED
    BY <1>1, TypeCorrect, PointerCorrect, PTL DEF Spec, PointerInv, PublishedFrozen

----------------------------------------------------------------------------
(* The lineage of the published releases.                                  *)

LEMMA LineageInit == Init => LineageIntact
    BY DEF Init, LineageIntact, Published, Node

LEMMA LineageNext == PointerInv /\ LineageIntact /\ [Next]_vars => LineageIntact'
<1> SUFFICES ASSUME PointerInv, LineageIntact, [Next]_vars PROVE LineageIntact'
    OBVIOUS
<1>1. CASE \A r \in Release : ~ Promote(r)
    BY <1>1, StepKeepsPublished DEF KeepsPublished, LineageIntact
<1>2. ASSUME NEW r \in Release, Promote(r) PROVE LineageIntact'
  <2> USE <1>2, PromoteAddsOne
  <2>1. \A p \in Published' : baseline'[p] \in Published' \cup {Bootstrap}
    BY DEF LineageIntact
  <2>2. \A p \in Published' : baseline'[p] \in Release =>
          ReleaseYear[baseline'[p]] <= ReleaseYear[p]
    BY DEF LineageIntact
  <2>3. ASSUME NEW S \in SUBSET Published', S # {}
        PROVE  \E p \in S : baseline'[p] \notin S
    <3>1. CASE S = {r}
      BY <3>1
    <3>2. CASE S # {r}
      <4>1. S \ {r} # {} /\ S \ {r} \in SUBSET Published
        BY <2>3, <3>2
      <4>2. PICK p \in S \ {r} : baseline[p] \notin S \ {r}
        BY <4>1 DEF LineageIntact
      <4>3. baseline[p] # r
        BY <4>1 DEF LineageIntact
      <4> QED
        BY <4>2, <4>3
    <3> QED
      BY <3>1, <3>2
  <2> QED
    BY <2>1, <2>2, <2>3 DEF LineageIntact
<1> QED
    BY <1>1, <1>2

\* Baselines of published releases are published and no older year follows a
\* newer one; the recursion over them always ends at the bootstrap.
THEOREM LineageCorrect == Spec => []LineageIntact
    BY TypeCorrect, PointerCorrect, LineageInit, LineageNext, PTL DEF Spec, PointerInv

----------------------------------------------------------------------------
(* The recursion over the baselines, for any column of baselines.          *)

\* The chain holds its head and every baseline it reaches, and nothing else.
LEMMA AncestryIsLeast ==
    ASSUME NEW b, NEW head
    PROVE  /\ Ancestry(b, head) \subseteq Release
           /\ head \in Release => head \in Ancestry(b, head)
           /\ ClosedUnder(b, Ancestry(b, head))
           /\ \A S \in SUBSET Release :
                (head \in Release => head \in S) /\ ClosedUnder(b, S)
                    => Ancestry(b, head) \subseteq S
  BY DEF Ancestry, ClosedUnder

\* The chain of a release is the release and the chain of its baseline.
LEMMA AncestryStep ==
    ASSUME NEW b, NEW head \in Release
    PROVE  Ancestry(b, head) = {head} \cup Ancestry(b, b[head])
<1>1. Ancestry(b, head) \subseteq {head} \cup Ancestry(b, b[head])
  <2>1. ClosedUnder(b, {head} \cup Ancestry(b, b[head]))
    BY AncestryIsLeast DEF ClosedUnder
  <2> QED
    BY <2>1, AncestryIsLeast
<1>2. Ancestry(b, b[head]) \subseteq Ancestry(b, head)
  <2>1. b[head] \in Release => b[head] \in Ancestry(b, head)
    BY AncestryIsLeast DEF ClosedUnder
  <2> QED
    BY <2>1, AncestryIsLeast
<1> QED
    BY <1>1, <1>2, AncestryIsLeast

\* The chain of a member of a chain lies in that chain.
LEMMA AncestryNested ==
    ASSUME NEW b, NEW head, NEW r \in Ancestry(b, head)
    PROVE  Ancestry(b, r) \subseteq Ancestry(b, head)
    BY AncestryIsLeast

\* Where two columns of baselines agree on a closed set of releases, the chains
\* and the nearest releases computed from inside the set agree.
LEMMA AncestryStable ==
    ASSUME NEW b, NEW c, NEW P \in SUBSET Release, NEW head,
           head \in Release => head \in P,
           ClosedUnder(b, P), \A r \in P : b[r] = c[r]
    PROVE  Ancestry(b, head) = Ancestry(c, head) /\ Ancestry(b, head) \subseteq P
<1>1. ClosedUnder(c, P)
    BY DEF ClosedUnder
<1>2. Ancestry(b, head) \subseteq P /\ Ancestry(c, head) \subseteq P
    BY <1>1, AncestryIsLeast
<1>3. ClosedUnder(c, Ancestry(b, head)) /\ ClosedUnder(b, Ancestry(c, head))
    BY <1>2, AncestryIsLeast DEF ClosedUnder
<1>4. Ancestry(c, head) \subseteq Ancestry(b, head)
    BY <1>3, AncestryIsLeast
<1>5. Ancestry(b, head) \subseteq Ancestry(c, head)
    BY <1>3, AncestryIsLeast
<1> QED
    BY <1>2, <1>4, <1>5

LEMMA NearestStable ==
    ASSUME NEW b, NEW c, NEW P \in SUBSET Release, NEW head, NEW y,
           head \in Release => head \in P,
           ClosedUnder(b, P), \A r \in P : b[r] = c[r]
    PROVE  NearestOf(b, head, y) = NearestOf(c, head, y)
<1>1. Ancestry(b, head) = Ancestry(c, head) /\ Ancestry(b, head) \subseteq P
    BY AncestryStable
<1>2. \A t \in P : Ancestry(b, t) = Ancestry(c, t)
    BY AncestryStable
<1>3. OfYear(b, head, y) = OfYear(c, head, y) /\ OfYear(b, head, y) \subseteq P
    BY <1>1 DEF OfYear
<1> QED
    BY <1>2, <1>3 DEF NearestOf

----------------------------------------------------------------------------
(* The active chain.                                                       *)

LEMMA PublishedClosed ==
    LineageIntact => Published \in SUBSET Release /\ ClosedUnder(baseline, Published)
    BY DEF LineageIntact, ClosedUnder, Published

LEMMA ActiveIsPublished ==
    PointerInv /\ active \in Release => active \in Published
    BY DEF PointerInv, TypeOK, PointerMatchesRegistry, Published, Node

LEMMA ActiveChainPublished ==
    PointerInv /\ LineageIntact => Chain(active) \subseteq Published
    BY PublishedClosed, ActiveIsPublished, AncestryIsLeast DEF Chain

\* The asserts of the rollback accept every registry the operations can produce,
\* up to the depth of the recursion.
THEOREM RollbackAccepted == Spec => []RollbackNeverRefused
<1>1. PointerInv /\ LineageIntact => RollbackNeverRefused
  <2> SUFFICES ASSUME PointerInv, LineageIntact, active \in Release,
                      Cardinality(Chain(active)) <= MaxChainLevel + 1
               PROVE  RollbackChecks
    BY DEF RollbackNeverRefused
  <2>1. {n \in Node : status[n] = "active"} = {active} /\ prior = PriorOf(active)
    BY DEF PointerInv, PointerMatchesRegistry
  <2>2. active \in Chain(active) /\ Chain(active) \subseteq Published
    BY AncestryIsLeast, ActiveChainPublished DEF Chain
  <2>3. \E r \in Chain(active) : baseline[r] = Bootstrap
    <3>1. PICK r \in Chain(active) : baseline[r] \notin Chain(active)
      BY <2>2 DEF LineageIntact
    <3>2. baseline[r] \in Release => baseline[r] \in Chain(active)
      BY AncestryIsLeast DEF Chain, ClosedUnder
    <3>3. baseline[r] \in Release \cup {Bootstrap}
      BY <2>2 DEF LineageIntact, Published
    <3> QED
      BY <3>1, <3>2, <3>3
  <2>4. \A r \in Chain(active) \ {active} : status[r] = "inactive"
    BY <2>1, <2>2 DEF Published, Node
  <2>5. \A r \in Chain(active) :
          baseline[r] \in Chain(active) => ReleaseYear[baseline[r]] <= ReleaseYear[r]
    BY <2>2 DEF LineageIntact, Published
  <2> QED
    BY <2>1, <2>3, <2>4, <2>5 DEF RollbackChecks
<1> QED
    BY <1>1, TypeCorrect, PointerCorrect, LineageCorrect, PTL DEF PointerInv

----------------------------------------------------------------------------
(* What readers see.                                                       *)

\* A step that is neither a promotion nor a rollback keeps the active chain.
LEMMA PointerMoves ==
    ASSUME PointerInv, [Next]_vars
    PROVE  \/ \E r \in Release : Promote(r)
           \/ \E y \in Year : Rollback(y)
           \/ active' = active
           \/ active \notin Release /\ active' = Bootstrap
    BY DEF Next, Begin, HeadAtBegin, Record, Complete, Fail, BuildMetrics, Judge, MixRules, Evaluate,
           PromoteReplay, Cleanup, vars, pointerVars

LEMMA NoResurrectionStep ==
    ASSUME PointerInv, LineageIntact, [Next]_vars
    PROVE  \A r \in Published \ Chain(active) : r \notin Chain(active)'
<1>1. Published \in SUBSET Release /\ ClosedUnder(baseline, Published)
    BY PublishedClosed
<1>2. CASE \E p \in Release : Promote(p)
  <2>1. PICK p \in Release : Promote(p)
    BY <1>2
  <2>2. active' = p /\ baseline' = baseline /\ baseline[p] = active /\ p \notin Published
    BY <2>1, PromoteAddsOne DEF Promote
  <2>3. Ancestry(baseline, p) = {p} \cup Ancestry(baseline, active)
    BY <2>2, AncestryStep
  <2> QED
    BY <2>2, <2>3 DEF Chain
<1>3. CASE \E y \in Year : Rollback(y)
  <2>1. PICK y \in Year : Rollback(y)
    BY <1>3
  <2>2. active' \in NearestOf(baseline, active, y) /\ baseline' = baseline
    BY <2>1 DEF Rollback
  <2>3. active' \in Ancestry(baseline, active)
    BY <2>2 DEF NearestOf, OfYear
  <2>4. Ancestry(baseline, active') \subseteq Ancestry(baseline, active)
    BY <2>3, AncestryNested
  <2> QED
    BY <2>2, <2>4 DEF Chain
<1>4. CASE active' = active /\ \A r \in Release : ~ Promote(r)
  <2>1. KeepsPublished /\ (active \in Release => active \in Published)
    BY <1>4, StepKeepsPublished, ActiveIsPublished
  <2>2. Ancestry(baseline, active) = Ancestry(baseline', active)
    BY <1>1, <2>1, AncestryStable DEF KeepsPublished
  <2> QED
    BY <1>4, <2>2 DEF Chain
<1>5. CASE active \notin Release /\ active' = Bootstrap
  <2>1. ClosedUnder(baseline', {}) /\ Bootstrap \notin Release
    BY DEF ClosedUnder
  <2>2. Ancestry(baseline', Bootstrap) = {}
    BY <2>1, AncestryIsLeast
  <2> QED
    BY <1>5, <2>2 DEF Chain
<1> QED
    BY <1>2, <1>3, <1>4, <1>5, PointerMoves

\* A release rolled back out of the active chain never returns to it.
THEOREM RolledBackStaysOut == Spec => NoResurrection
<1>1. PointerInv /\ LineageIntact /\ [Next]_vars =>
        [\A r \in Published \ Chain(active) : r \notin Chain(active)']_vars
    BY NoResurrectionStep
<1> QED
    BY <1>1, TypeCorrect, PointerCorrect, LineageCorrect, PTL
    DEF Spec, PointerInv, NoResurrection

LEMMA PromotionKeepsYears ==
    ASSUME PointerInv, NEW p \in Release, Promote(p), NEW y \in Year \ {ReleaseYear[p]}
    PROVE  PublicView(active)'[y] = PublicView(active)[y]
<1>1. active' = p /\ baseline' = baseline /\ baseline[p] = active
    BY PromoteAddsOne DEF Promote
<1>2. OfYear(baseline, p, y) = OfYear(baseline, active, y)
    BY <1>1, AncestryStep DEF OfYear
<1>3. NearestOf(baseline, p, y) = NearestOf(baseline, active, y)
    BY <1>2 DEF NearestOf
<1> QED
    BY <1>1, <1>3 DEF PublicView

\* A promotion changes the public view of its own year only, so of two concurrent
\* candidates the second cannot hide the first.
THEOREM NothingLost == Spec => PromotionLosesNothing
<1>1. ASSUME PointerInv, [Next]_vars, active' \notin Chain(active) \cup {active, Bootstrap},
             NEW y \in Year \ {ReleaseYear[active']}
      PROVE  PublicView(active)'[y] = PublicView(active)[y]
  <2>1. ASSUME NEW z \in Year, Rollback(z) PROVE FALSE
    BY <1>1, <2>1 DEF Rollback, NearestOf, OfYear, Chain
  <2>2. PICK p \in Release : Promote(p)
    BY <1>1, <2>1, PointerMoves
  <2> QED
    BY <1>1, <2>2, PromotionKeepsYears DEF Promote
<1>2. PointerInv /\ [Next]_vars =>
        [active' \notin Chain(active) \cup {active, Bootstrap} =>
            \A y \in Year \ {ReleaseYear[active']} :
                PublicView(active)'[y] = PublicView(active)[y]]_vars
    BY <1>1
<1> QED
    BY <1>2, TypeCorrect, PointerCorrect, PTL DEF Spec, PointerInv, PromotionLosesNothing

\* The view of every published release is the one recorded at its promotion, the
\* inductive form of RollbackRestoresView.
ShownInv == \A r \in Published : shown[r] = PublicView(r)

LEMMA ShownNext ==
    PointerInv /\ LineageIntact /\ ShownInv /\ [Next]_vars => ShownInv'
<1> SUFFICES ASSUME PointerInv, LineageIntact, ShownInv, [Next]_vars PROVE ShownInv'
    OBVIOUS
<1>1. Published \in SUBSET Release /\ ClosedUnder(baseline, Published)
    BY PublishedClosed
<1>2. ASSUME NEW p \in Release, Promote(p) PROVE ShownInv'
  <2>1. /\ Published' = Published \cup {p} /\ p \notin Published /\ baseline' = baseline
        /\ shown' = [shown EXCEPT ![p] = PublicView(p)]
    BY <1>2, PromoteAddsOne DEF Promote
  <2>2. \A r \in Release : PublicView(r)' = PublicView(r)
    BY <2>1 DEF PublicView
  <2> QED
    BY <2>1, <2>2, <1>1 DEF ShownInv, PointerInv, TypeOK
<1>3. CASE \A p \in Release : ~ Promote(p)
  <2>1. KeepsPublished
    BY <1>3, StepKeepsPublished
  <2>2. shown' = shown
    BY <1>3 DEF Next, Begin, Record, Complete, Fail, BuildMetrics, Judge, MixRules, Evaluate, PromoteReplay,
                Rollback, Cleanup, vars
  <2>3. ASSUME NEW r \in Published PROVE shown'[r] = PublicView(r)'
    <3>1. \A y \in Year : NearestOf(baseline, r, y) = NearestOf(baseline', r, y)
      BY <1>1, <2>1, NearestStable DEF KeepsPublished
    <3>2. PublicView(r)' = PublicView(r)
      BY <3>1 DEF PublicView
    <3> QED
      BY <2>2, <3>2 DEF ShownInv
  <2> QED
    BY <2>1, <2>3 DEF KeepsPublished, ShownInv
<1> QED
    BY <1>2, <1>3

\* Going back to a release shows exactly the view it was promoted with.
THEOREM ViewRestored == Spec => []RollbackRestoresView
<1>1. Init => ShownInv
    BY DEF Init, ShownInv, Published, Node
<1>2. PointerInv /\ ShownInv => RollbackRestoresView
    BY ActiveIsPublished DEF ShownInv, RollbackRestoresView
<1> QED
    BY <1>1, <1>2, ShownNext, TypeCorrect, PointerCorrect, LineageCorrect, PTL
    DEF Spec, PointerInv

----------------------------------------------------------------------------
(* What a published release holds.                                         *)

\* From complete() on a release has every source, and no step but a reopen takes a
\* mapping away or adds one.
CompleteInv ==
    \A r \in Release : status[r] \in {"succeeded", "active", "inactive"} =>
        SourcesOf(files[r]) = Source /\ OneRunPerSource(files[r])

LEMMA CompleteNext == PointerInv /\ CompleteInv /\ [Next]_vars => CompleteInv'
<1> SUFFICES ASSUME PointerInv, CompleteInv, [Next]_vars PROVE CompleteInv'
    OBVIOUS
<1> USE DEF PointerInv, TypeOK, CompleteInv, Node
<1>1. ASSUME NEW r \in Release, Begin(r) PROVE CompleteInv'
    BY <1>1 DEF Begin, Open
<1>2. ASSUME NEW r \in Release, NEW object \in Object, NEW stamp \in Stamp,
             Record(r, object, stamp)
      PROVE  CompleteInv'
  <2>1. status' = status
    BY <1>2 DEF Record, registryVars
  <2>2. \A p \in Release : status[p] # "running" => files'[p] = files[p]
    BY <1>2 DEF Record, Recordable
  <2> QED
    BY <2>1, <2>2
<1>3. ASSUME NEW r \in Release, Complete(r) PROVE CompleteInv'
    BY <1>3 DEF Complete, Completable
<1>4. ASSUME NEW r \in Release, Fail(r) PROVE CompleteInv'
    BY <1>4 DEF Fail
<1>5. ASSUME NEW r \in Release, BuildMetrics(r) \/ Evaluate(r) \/ PromoteReplay(r)
      PROVE  CompleteInv'
    BY <1>5 DEF BuildMetrics, Judge, MixRules, Evaluate, PromoteReplay, vars, registryVars
<1>6. ASSUME NEW r \in Release, Promote(r) PROVE CompleteInv'
    BY <1>6 DEF Promote, PointerResolves, Promotable
<1>7. ASSUME NEW y \in Year, Rollback(y) PROVE CompleteInv'
  <2>1. KeepsPublished /\ files' = files
    BY <1>7, RollbackKeepsPublished DEF Rollback
  <2>2. \A p \in Release : p \notin Published => status'[p] = status[p]
    <3>1. PICK target \in NearestOf(baseline, active, y) :
            status' = [status EXCEPT ![active] = "inactive", ![target] = "active"]
      BY <1>7 DEF Rollback
    <3>2. target \in Release
      BY DEF NearestOf, OfYear, Ancestry
    <3>3. target \in Published' /\ active \in Published
      BY <1>7, <3>1, <3>2, ActiveIsPublished DEF Rollback, Published
    <3>4. target \in Published
      BY <2>1, <3>3 DEF KeepsPublished
    <3>5. ASSUME NEW p \in Release, p \notin Published PROVE status'[p] = status[p]
      BY <3>1, <3>3, <3>4, <3>5
    <3> QED
      BY <3>5
  <2> QED
    BY <2>1, <2>2 DEF KeepsPublished, Published
<1>8. ASSUME NEW old \in SUBSET Release, Cleanup(old) PROVE CompleteInv'
    BY <1>8 DEF Cleanup
<1>9. CASE UNCHANGED vars
    BY <1>9 DEF vars
<1> QED
    BY <1>1, <1>2, <1>3, <1>4, <1>5, <1>6, <1>7, <1>8, <1>9 DEF Next

\* A published release has one run for each source of the catalog.
THEOREM PublishedIsComplete == Spec => []PublishedComplete
<1>1. Init => CompleteInv
    BY DEF Init, CompleteInv, Node
<1>2. CompleteInv => PublishedComplete
    BY DEF CompleteInv, PublishedComplete, Published
<1> QED
    BY <1>1, <1>2, CompleteNext, TypeCorrect, PointerCorrect, PTL DEF Spec, PointerInv

\* A verdict passes only where every source was judged, and the gate of a published
\* release passed.
GateInv ==
    /\ metrics.verdict = "pass" => SourcesOf(metrics.judged) = Source
    /\ \A r \in Release :
        results[r].verdict = "pass" => SourcesOf(results[r].judged) = Source
    /\ \A r \in Published : results[r].verdict = "pass"

LEMMA GateNext == PointerInv /\ GateInv /\ [Next]_vars => GateInv'
<1> SUFFICES ASSUME PointerInv, GateInv, [Next]_vars PROVE GateInv'
    OBVIOUS
<1>1. ASSUME NEW r \in Release, Promote(r) PROVE GateInv'
  <2>1. metrics' = metrics /\ results' = results /\ results[r].verdict = "pass"
    BY <1>1 DEF Promote, Promotable, qualityVars
  <2>2. Published' = Published \cup {r}
    BY <1>1, PromoteAddsOne
  <2> QED
    BY <2>1, <2>2 DEF GateInv
<1>2. CASE \A r \in Release : ~ Promote(r)
  <2>1. Published' = Published
    BY <1>2, StepKeepsPublished DEF KeepsPublished
  <2>2. ASSUME NEW r \in Release, BuildMetrics(r) PROVE GateInv'
    <3>1. /\ results' = results
          /\ metrics'.verdict # "pass" \/ SourcesOf(metrics'.judged) = Source
      <4>1. CASE MixRules
        BY <4>1 DEF MixRules, NoMetrics
      <4>2. ASSUME NEW judged \in MappingsOf(Release), Judge(r, judged)
            PROVE  metrics'.verdict # "pass" \/ SourcesOf(metrics'.judged) = Source
        <5>1. judged \subseteq Mapping
          BY DEF MappingsOf, PointerInv, TypeOK
        <5>2. files[r] \subseteq judged /\ SourcesOf(files[r]) = Source
                => SourcesOf(judged) = Source
          BY <5>1, CatalogAssumption DEF SourcesOf, Mapping
        <5> QED
          BY <4>2, <5>2 DEF Judge
      <4> QED
        BY <2>2, <4>1, <4>2 DEF BuildMetrics, Judge, MixRules
    <3> QED
      BY <2>1, <3>1 DEF GateInv
  <2>3. ASSUME NEW r \in Release, Evaluate(r) PROVE GateInv'
    <3>1. r \notin Published
      BY <2>3 DEF Evaluate, Published
    <3>2. /\ metrics' = metrics
          /\ results' = [results EXCEPT
                ![r] = [verdict |-> metrics.verdict, judged |-> metrics.judged]]
      BY <2>3 DEF Evaluate
    <3>3. \A p \in Release \ {r} : results'[p] = results[p]
      BY <3>2 DEF PointerInv, TypeOK
    <3>4. results'[r] = [verdict |-> metrics.verdict, judged |-> metrics.judged]
      BY <3>2 DEF PointerInv, TypeOK
    <3> QED
      BY <2>1, <3>1, <3>2, <3>3, <3>4 DEF GateInv, Published
  <2>4. CASE UNCHANGED qualityVars
    BY <2>1, <2>4 DEF qualityVars, GateInv
  <2> QED
    BY <1>2, <2>2, <2>3, <2>4 DEF Next, Begin, Record, Complete, Fail, PromoteReplay,
        Rollback, Cleanup, vars, qualityVars
<1> QED
    BY <1>1, <1>2

\* The gate of a published release passed over all the sources, and stays.
THEOREM GatePassed == Spec => []PublishedGatePassed
<1>1. Init => GateInv
    BY DEF Init, GateInv, Published, Node, NoGate, NoMetrics
<1>2. GateInv => PublishedGatePassed
    BY DEF GateInv, PublishedGatePassed, Published
<1> QED
    BY <1>1, <1>2, GateNext, TypeCorrect, PointerCorrect, PTL DEF Spec, PointerInv

==============================================================================
