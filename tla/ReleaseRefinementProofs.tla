------------------------- MODULE ReleaseRefinementProofs -------------------------
(***************************************************************************)
(* ReleaseRegistry implements ReleaseHistory, and the in-memory store of   *)
(* LocalReleases agrees with it, for any sets of releases and years,       *)
(* finite or not.                                                          *)
(***************************************************************************)
EXTENDS ReleaseRefinement, LocalReleases, ReleaseRegistryProofs, FiniteSetTheorems,
    FunctionTheorems, SequenceTheorems

----------------------------------------------------------------------------
(* A chain as a sequence, for any column b of baselines.                   *)

\* h lists the chain of head, oldest first, each release once.
Line(b, head, h) ==
    /\ h \in Seq(Release)
    /\ \A i, j \in 1 .. Len(h) : h[i] = h[j] => i = j
    /\ Ancestry(b, head) = {h[i] : i \in 1 .. Len(h)}
    /\ \A i \in 1 .. Len(h) : Ancestry(b, h[i]) = {h[j] : j \in 1 .. i}

\* The first releases of a sequence without repetition are as many as their positions.
LEMMA PrefixCount ==
    ASSUME NEW h \in Seq(Release), NEW n \in 0 .. Len(h),
           \A i, j \in 1 .. Len(h) : h[i] = h[j] => i = j
    PROVE  Cardinality({h[i] : i \in 1 .. n}) = n
<1> DEFINE S == {h[i] : i \in 1 .. n}
           f == [i \in 1 .. n |-> h[i]]
<1>1. f \in [1 .. n -> S]
    OBVIOUS
<1>2. \A i, j \in 1 .. n : f[i] = f[j] => i = j
    OBVIOUS
<1>3. \A s \in S : \E i \in 1 .. n : f[i] = s
    OBVIOUS
<1> HIDE DEF S, f
<1>4. f \in Bijection(1 .. n, S)
    BY <1>1, <1>2, <1>3, Fun_IsBij
<1>5. n \in Nat /\ ExistsBijection(1 .. n, S)
    BY <1>4 DEF ExistsBijection
<1> QED
    BY <1>5, FS_CountingElements DEF S

\* ChainInOrder for any column of baselines.
OrderOf(b, head) ==
    [i \in 1 .. Cardinality(Ancestry(b, head)) |->
        CHOOSE r \in Ancestry(b, head) : Cardinality(Ancestry(b, r)) = i]

\* A chain listed is a chain listed by rank.
LEMMA LineIsOrder ==
    ASSUME NEW b, NEW head, NEW h, Line(b, head, h)
    PROVE  OrderOf(b, head) = h
<1> USE DEF Line
<1>1. Len(h) \in Nat /\ DOMAIN h = 1 .. Len(h)
    OBVIOUS
<1>2. Cardinality(Ancestry(b, head)) = Len(h)
    BY <1>1, PrefixCount
<1>3. ASSUME NEW i \in 1 .. Len(h)
      PROVE  Cardinality(Ancestry(b, h[i])) = i
  <2>1. i \in 0 .. Len(h) /\ Ancestry(b, h[i]) = {h[j] : j \in 1 .. i}
    BY <1>1
  <2>2. Cardinality({h[j] : j \in 1 .. i}) = i
    BY <2>1, PrefixCount
  <2> QED
    BY <2>1, <2>2
<1>4. ASSUME NEW i \in 1 .. Len(h)
      PROVE  (CHOOSE r \in Ancestry(b, head) : Cardinality(Ancestry(b, r)) = i) = h[i]
  <2>1. h[i] \in Ancestry(b, head) /\ Cardinality(Ancestry(b, h[i])) = i
    BY <1>3
  <2>2. \A r \in Ancestry(b, head) : Cardinality(Ancestry(b, r)) = i => r = h[i]
    BY <1>3
  <2> QED
    BY <2>1, <2>2
<1>5. h = [i \in 1 .. Len(h) |-> h[i]]
    BY <1>1
<1> QED
    BY <1>2, <1>4, <1>5 DEF OrderOf

\* A release that is promoted on a chain comes last.
LEMMA LineAppend ==
    ASSUME NEW b, NEW head, NEW h, Line(b, head, h), NEW p \in Release, b[p] = head,
           p \notin Ancestry(b, head)
    PROVE  Line(b, p, Append(h, p))
<1> DEFINE g == Append(h, p)
           n == Len(h)
<1> USE DEF Line
<1>1. g \in Seq(Release) /\ Len(g) = n + 1 /\ n \in Nat
    OBVIOUS
<1>2. g[n + 1] = p /\ \A i \in 1 .. n : g[i] = h[i]
    OBVIOUS
<1>3. Ancestry(b, p) = {p} \cup Ancestry(b, head)
    BY AncestryStep
<1> HIDE DEF g, n
<1>4. \A i \in 1 .. n : h[i] # p
    BY DEF n
<1>5. \A i, j \in 1 .. n + 1 : g[i] = g[j] => i = j
    BY <1>1, <1>2, <1>4 DEF n
<1>6. Ancestry(b, p) = {g[i] : i \in 1 .. n + 1}
  <2>1. Ancestry(b, head) = {g[i] : i \in 1 .. n}
    BY <1>2 DEF n
  <2>2. {g[i] : i \in 1 .. n + 1} = {g[n + 1]} \cup {g[i] : i \in 1 .. n}
    BY <1>1
  <2> QED
    BY <1>2, <1>3, <2>1, <2>2
<1>7. \A i \in 1 .. n + 1 : Ancestry(b, g[i]) = {g[j] : j \in 1 .. i}
    BY <1>1, <1>2, <1>6 DEF n
<1> QED
    BY <1>1, <1>5, <1>6, <1>7 DEF g

\* The chain of one of the releases of a chain is the part that ends there.
LEMMA LineCut ==
    ASSUME NEW b, NEW head, NEW h, Line(b, head, h), NEW k \in 1 .. Len(h)
    PROVE  Line(b, h[k], SubSeq(h, 1, k))
<1> DEFINE g == SubSeq(h, 1, k)
<1> USE DEF Line
<1>1. k \in Nat /\ Len(h) \in Nat /\ k <= Len(h)
    OBVIOUS
<1>2. g \in Seq(Release) /\ Len(g) = k /\ \A i \in 1 .. k : g[i] = h[i]
  <2>1. /\ h \in Seq(Release) /\ 1 \in 1 .. Len(h) + 1 /\ k \in 1 - 1 .. Len(h)
        /\ k - 1 + 1 = k /\ \A i \in 1 .. k : 1 + i - 1 = i
    BY <1>1
  <2> QED
    BY <2>1, <1>1, SubSeqProperties
<1> HIDE DEF g
<1>3. ASSUME NEW i \in 1 .. k
      PROVE  Ancestry(b, g[i]) = {g[j] : j \in 1 .. i}
  <2>0. i \in 1 .. Len(h)
    BY <1>1
  <2>1. Ancestry(b, h[i]) = {h[j] : j \in 1 .. i}
    BY <2>0
  <2>2. \A j \in 1 .. i : g[j] = h[j]
    BY <1>1, <1>2
  <2>3. {h[j] : j \in 1 .. i} = {g[j] : j \in 1 .. i}
    BY <2>2
  <2> QED
    BY <1>2, <2>1, <2>3
<1>4. Ancestry(b, h[k]) = {g[i] : i \in 1 .. Len(g)}
  <2>1. k \in 1 .. k
    BY <1>1
  <2> QED
    BY <1>2, <1>3, <2>1
<1>5. \A i, j \in 1 .. Len(g) : g[i] = g[j] => i = j
    BY <1>1, <1>2
<1> QED
    BY <1>2, <1>3, <1>4, <1>5 DEF g

\* Where baselines agree on a closed set, so do the lists of its chains.
LEMMA LineStable ==
    ASSUME NEW b, NEW c, NEW P \in SUBSET Release, NEW head, NEW h,
           head \in Release => head \in P,
           ClosedUnder(b, P), \A r \in P : b[r] = c[r], Line(b, head, h)
    PROVE  Line(c, head, h)
<1>1. Ancestry(b, head) = Ancestry(c, head) /\ Ancestry(b, head) \subseteq P
    BY AncestryStable
<1>2. \A r \in P : Ancestry(b, r) = Ancestry(c, r)
    BY AncestryStable
<1> QED
    BY <1>1, <1>2 DEF Line

----------------------------------------------------------------------------
(* The chain of the active release.                                        *)

\* The chain of the active release is finite and can be listed.
Listed == \E h : Line(baseline, active, h)

USE IdentityAssumption, YearAssumption

RefinementInv == PointerInv /\ LineageIntact /\ Listed

\* No release, no chain.
LEMMA NoChain ==
    ASSUME NEW b, NEW head, head \notin Release
    PROVE  Ancestry(b, head) = {} /\ Line(b, head, <<>>)
<1>1. ClosedUnder(b, {})
    BY DEF ClosedUnder
<1>2. Ancestry(b, head) = {}
    BY <1>1, AncestryIsLeast
<1> QED
    BY <1>2 DEF Line

\* A step that keeps the published releases keeps the lists of their chains.
LEMMA KeptLine ==
    ASSUME PointerInv, LineageIntact, KeepsPublished, NEW h, NEW head \in Published,
           Line(baseline, head, h)
    PROVE  Line(baseline', head, h) /\ Ancestry(baseline', head) = Ancestry(baseline, head)
    BY PublishedClosed, LineStable, AncestryStable DEF KeepsPublished

\* No release of a chain is of a later year than one above it.
LEMMA YearsGrow ==
    ASSUME PointerInv, LineageIntact, NEW r \in Published, NEW q \in Ancestry(baseline, r)
    PROVE  ReleaseYear[q] <= ReleaseYear[r]
<1> DEFINE Older == {x \in Published : ReleaseYear[x] <= ReleaseYear[r]}
<1>1. ClosedUnder(baseline, Older)
  <2> SUFFICES ASSUME NEW x \in Older, baseline[x] \in Release PROVE baseline[x] \in Older
    <3> HIDE DEF Older
    <3> QED
      BY DEF ClosedUnder
  <2>1. x \in Published /\ x \in Release /\ r \in Release
    BY DEF Published
  <2>2. baseline[x] \in Published
    BY <2>1 DEF LineageIntact
  <2>3. ReleaseYear[baseline[x]] <= ReleaseYear[x]
    BY <2>1 DEF LineageIntact
  <2>4. ReleaseYear[baseline[x]] \in Nat /\ ReleaseYear[x] \in Nat /\ ReleaseYear[r] \in Nat
    BY <2>1
  <2> QED
    BY <2>2, <2>3, <2>4
<1>2. Older \in SUBSET Release /\ r \in Older
  <2>1. r \in Release
    BY DEF Published
  <2>2. ReleaseYear[r] \in Nat
    BY <2>1
  <2> QED
    BY <2>1, <2>2 DEF Published
<1>3. q \in Older
    BY <1>1, <1>2, AncestryIsLeast
<1> QED
    BY <1>3

\* The history of ReleaseHistory is any list of the chain of the active release.
LEMMA HistoryIsLine ==
    ASSUME NEW h, Line(baseline, active, h)
    PROVE  /\ ChainInOrder = h
           /\ Chain(active) = {h[i] : i \in 1 .. Len(h)}
           /\ h \in Seq(Release) /\ Len(h) \in Nat
<1>1. ChainInOrder = OrderOf(baseline, active)
    BY DEF ChainInOrder, OrderOf, Chain
<1>2. ChainInOrder = h
    BY <1>1, LineIsOrder
<1>3. h \in Seq(Release) /\ Chain(active) = {h[i] : i \in 1 .. Len(h)}
    BY DEF Line, Chain
<1>4. Len(h) \in Nat
    BY <1>3
<1> QED
    BY <1>2, <1>3, <1>4

LEMMA HistoryIsLineNext ==
    ASSUME NEW h, Line(baseline', active', h)
    PROVE  /\ ChainInOrder' = h
           /\ Chain(active)' = {h[i] : i \in 1 .. Len(h)}
<1>1. ChainInOrder' = OrderOf(baseline', active')
    BY DEF ChainInOrder, OrderOf, Chain
<1>2. ChainInOrder' = h
    BY <1>1, LineIsOrder
<1>3. Chain(active)' = {h[i] : i \in 1 .. Len(h)}
    BY DEF Line, Chain
<1> QED
    BY <1>2, <1>3

----------------------------------------------------------------------------
(* The steps.                                                              *)

\* A promotion publishes.
LEMMA PromoteStep ==
    ASSUME PointerInv, LineageIntact, NEW h, Line(baseline, active, h),
           NEW p \in Release, Promote(p)
    PROVE  Line(baseline', active', Append(h, p)) /\ History!Publish(p)
<1>1. /\ p \notin Published /\ active' = p /\ Published' = Published \cup {p}
      /\ baseline' = baseline /\ baseline[p] = active
      /\ active \in Published \cup {Bootstrap}
      /\ active # Bootstrap => ReleaseYear[active] <= ReleaseYear[p]
    BY PromoteAddsOne DEF Promote
<1>2. Ancestry(baseline, active) \subseteq Published
    BY ActiveChainPublished DEF Chain
<1>3. Line(baseline', active', Append(h, p))
    BY <1>1, <1>2, LineAppend
<1>4. /\ ChainInOrder = h /\ h \in Seq(Release)
      /\ Chain(active) = {h[i] : i \in 1 .. Len(h)}
    BY HistoryIsLine DEF Line
<1>5. ChainInOrder' = Append(h, p)
    BY <1>3, HistoryIsLineNext
<1>6. Chain(active)' = {p} \cup Chain(active)
    BY <1>1, AncestryStep DEF Chain
<1>7. Chain(active) \subseteq Published
    BY <1>2 DEF Chain
<1>8. History!InEffect = Chain(active)
    BY <1>4 DEF History!InEffect
<1>9. ASSUME NEW i \in DOMAIN h PROVE ReleaseYear[h[i]] <= ReleaseYear[p]
  <2>1. h[i] \in Ancestry(baseline, active) /\ h[i] \in Release
    BY <1>4 DEF Chain
  <2>2. active \in Release
    BY <2>1, NoChain
  <2>3. active \in Published /\ ReleaseYear[active] <= ReleaseYear[p]
    BY <1>1, <2>2
  <2>4. ReleaseYear[h[i]] <= ReleaseYear[active]
    BY <2>1, <2>3, YearsGrow
  <2>5. ReleaseYear[h[i]] \in Nat /\ ReleaseYear[active] \in Nat /\ ReleaseYear[p] \in Nat
    BY <2>1, <2>2
  <2> QED
    BY <2>3, <2>4, <2>5
<1>10. (Published \ Chain(active))' = Published \ Chain(active)
    BY <1>1, <1>6
<1>11. p \notin History!InEffect \cup (Published \ Chain(active))
    BY <1>1, <1>7, <1>8
<1> QED
    BY <1>3, <1>4, <1>5, <1>9, <1>10, <1>11 DEF History!Publish

HistoryVars == <<ChainInOrder, Published \ Chain(active)>>

\* A rollback goes back to the last release of the year, or stays there.
LEMMA RollbackStep ==
    ASSUME PointerInv, LineageIntact, NEW h, Line(baseline, active, h),
           NEW y \in Year, Rollback(y)
    PROVE  /\ \E g : Line(baseline', active', g)
           /\ History!RollBack(y) \/ UNCHANGED HistoryVars
<1>1. PICK target \in NearestOf(baseline, active, y) : active' = target
    BY DEF Rollback
<1>2. /\ target \in Ancestry(baseline, active) /\ ReleaseYear[target] = y
      /\ OfYear(baseline, active, y) \subseteq Ancestry(baseline, target)
      /\ baseline' = baseline
  <2>1. baseline' = baseline
    BY DEF Rollback
  <2>2. target \in OfYear(baseline, active, y)
    BY DEF NearestOf
  <2>3. OfYear(baseline, active, y) \subseteq Ancestry(baseline, target)
    BY DEF NearestOf
  <2> QED
    BY <2>1, <2>2, <2>3 DEF OfYear
<1>3. /\ ChainInOrder = h /\ h \in Seq(Release) /\ Len(h) \in Nat
      /\ Chain(active) = {h[i] : i \in 1 .. Len(h)}
    BY HistoryIsLine
<1>4. PICK k \in 1 .. Len(h) : target = h[k]
    BY <1>2, <1>3 DEF Chain
<1>5. Line(baseline', active', SubSeq(h, 1, k))
    BY <1>1, <1>2, <1>4, LineCut
<1>6. ChainInOrder' = SubSeq(h, 1, k)
    BY <1>5, HistoryIsLineNext
<1>7. Ancestry(baseline, target) = {h[j] : j \in 1 .. k}
    BY <1>4 DEF Line
<1>8. Chain(active)' = {h[j] : j \in 1 .. k}
    BY <1>1, <1>2, <1>7 DEF Chain
<1>9. Published' = Published /\ Chain(active) \subseteq Published
    BY RollbackKeepsPublished, ActiveChainPublished DEF KeepsPublished
<1>10. CASE k = Len(h)
  <2>1. SubSeq(h, 1, k) = h
    BY <1>3, <1>10, SubSeqFull
  <2>2. UNCHANGED HistoryVars
    BY <1>3, <1>6, <1>8, <1>9, <1>10, <2>1 DEF HistoryVars
  <2> QED
    BY <1>5, <2>2
<1>11. CASE k # Len(h)
  <2>1. k \in 1 .. Len(h) - 1
    BY <1>3, <1>11
  <2>2. ASSUME NEW i \in k + 1 .. Len(h) PROVE ReleaseYear[h[i]] > y
    <3>1. i \in 1 .. Len(h) /\ k \in 1 .. i /\ i \notin 1 .. k
      BY <1>3, <2>1
    <3>2. h[i] \in Release /\ h[i] \in Ancestry(baseline, active) /\ h[i] \in Published
      BY <1>3, <1>9, <3>1 DEF Chain
    <3>3. target \in Ancestry(baseline, h[i])
      BY <1>4, <3>1 DEF Line
    <3>4. ReleaseYear[target] <= ReleaseYear[h[i]]
      BY <3>2, <3>3, YearsGrow
    <3>5. h[i] \notin Ancestry(baseline, target)
      BY <1>3, <1>7, <3>1 DEF Line
    <3>6. ReleaseYear[h[i]] # y
      BY <1>2, <3>2, <3>5 DEF OfYear
    <3>7. ReleaseYear[h[i]] \in Nat /\ y \in Nat
      BY <3>2
    <3> QED
      BY <1>2, <3>4, <3>6, <3>7
  <2>3. {h[i] : i \in k + 1 .. Len(h)} = Chain(active) \ {h[j] : j \in 1 .. k}
    <3>1. \A i \in k + 1 .. Len(h) : \A j \in 1 .. k : h[i] # h[j]
      BY <1>3, <2>1 DEF Line
    <3>2. 1 .. Len(h) = 1 .. k \cup (k + 1 .. Len(h))
      BY <1>3, <2>1
    <3> QED
      BY <1>3, <3>1, <3>2
  <2>4. (Published \ Chain(active))' =
          (Published \ Chain(active)) \cup {h[i] : i \in k + 1 .. Len(h)}
    <3>1. {h[j] : j \in 1 .. k} \subseteq Chain(active)
      BY <1>3, <2>1
    <3> QED
      BY <1>8, <1>9, <2>3, <3>1
  <2>5. ReleaseYear[h[k]] = y
    BY <1>2, <1>4
  <2>6. History!RollBack(y)
    BY <1>3, <1>6, <2>1, <2>2, <2>4, <2>5 DEF History!RollBack
  <2> QED
    BY <1>5, <2>6
<1> QED
    BY <1>10, <1>11

\* Every other step of the registry is invisible.
LEMMA OtherStep ==
    ASSUME PointerInv, LineageIntact, [Next]_vars, NEW h, Line(baseline, active, h),
           \A p \in Release : ~ Promote(p), \A y \in Year : ~ Rollback(y)
    PROVE  Line(baseline', active', h) /\ UNCHANGED HistoryVars
<1>1. KeepsPublished
    BY StepKeepsPublished
<1>2. CASE active' = active /\ active \in Release
  <2>1. active \in Published
    BY <1>2, ActiveIsPublished
  <2>2. Line(baseline', active', h) /\ Ancestry(baseline', active') = Ancestry(baseline, active)
    BY <1>1, <1>2, <2>1, KeptLine
  <2>3. Chain(active)' = Chain(active)
    BY <2>2 DEF Chain
  <2> QED
    BY <1>1, <2>2, <2>3, HistoryIsLine, HistoryIsLineNext DEF KeepsPublished, HistoryVars
<1>3. CASE active \notin Release /\ active' \notin Release
  <2>1. Ancestry(baseline, active) = {} /\ Ancestry(baseline', active') = {}
    BY <1>3, NoChain
  <2>2. Line(baseline, active, <<>>) /\ Line(baseline', active', <<>>)
    BY <1>3, NoChain
  <2>3. ChainInOrder = <<>> /\ ChainInOrder = h /\ ChainInOrder' = <<>>
    BY <2>2, HistoryIsLine, HistoryIsLineNext
  <2> QED
    BY <1>1, <2>1, <2>2, <2>3 DEF KeepsPublished, HistoryVars, Chain
<1> QED
    BY <1>2, <1>3, PointerMoves

LEMMA RefinementInit == Init => Listed /\ History!Init
<1> SUFFICES ASSUME Init PROVE Listed /\ History!Init
    OBVIOUS
<1>1. active \notin Release /\ Published = {}
    BY DEF Init, Published, Node
<1>2. Line(baseline, active, <<>>)
    BY <1>1, NoChain
<1>3. ChainInOrder = <<>>
    BY <1>2, HistoryIsLine
<1> QED
    BY <1>1, <1>2, <1>3 DEF Listed, History!Init

LEMMA RefinementNext ==
    RefinementInv /\ [Next]_vars => Listed' /\ [History!Next]_HistoryVars
<1> SUFFICES ASSUME RefinementInv, [Next]_vars
             PROVE  Listed' /\ [History!Next]_HistoryVars
    OBVIOUS
<1>1. PICK h : Line(baseline, active, h)
    BY DEF RefinementInv, Listed
<1>2. PointerInv /\ LineageIntact
    BY DEF RefinementInv
<1>3. ASSUME NEW p \in Release, Promote(p) PROVE Listed' /\ History!Next
    BY <1>1, <1>2, <1>3, PromoteStep DEF Listed, History!Next
<1>4. ASSUME NEW y \in Year, Rollback(y) PROVE Listed' /\ [History!Next]_HistoryVars
    BY <1>1, <1>2, <1>4, RollbackStep DEF Listed, History!Next
<1>5. CASE (\A p \in Release : ~ Promote(p)) /\ (\A y \in Year : ~ Rollback(y))
    BY <1>1, <1>2, <1>5, OtherStep DEF Listed
<1> QED
    BY <1>3, <1>4, <1>5

\* The registry, its pointer and the baselines implement the history readers are
\* promised: it grows by a release of the same or a later year, and shrinks to the
\* last release of a year.
THEOREM RegistryImplementsHistory == Spec => ImplementsHistory
<1>1. Init => RefinementInv /\ History!Init
    BY RefinementInit, TypeInit, PointerInit, LineageInit DEF RefinementInv, PointerInv
<1>2. RefinementInv /\ [Next]_vars => RefinementInv' /\ [History!Next]_HistoryVars
    BY RefinementNext, TypeNext, PointerNext, LineageNext DEF RefinementInv, PointerInv
<1> QED
    BY <1>1, <1>2, PTL DEF Spec, ImplementsHistory, History!Spec, HistoryVars

----------------------------------------------------------------------------
(* The in-memory release store.                                            *)

\* What the local store holds of a release that is not published.
Agrees(r) == local[r] \in {Removed, Snapshot(status[r], files[r])}

\* The two stores agree, and a release neither has was given no mapping.
LocalInv ==
    /\ local \in [Release -> [status : Status \cup {"removed"}, files : SUBSET Mapping]]
    /\ \A r \in Release \ Published :
        Agrees(r) /\ (status[r] = "absent" => files[r] = {} \/ local[r] = Removed)

\* A call about one release leaves the others.
LEMMA LocalOthers ==
    ASSUME LocalInv, NEW r \in Release, NEW answer, Keeps(r, answer),
           \/ answer = Conflict
           \/ answer \in [status : Status \cup {"removed"}, files : SUBSET Mapping],
           \A q \in Release \ {r} : status'[q] = status[q] /\ files'[q] = files[q],
           r \notin Published' => /\ Agrees(r)'
                                  /\ status'[r] = "absent" => files'[r] = {} \/ local'[r] = Removed
    PROVE  LocalInv'
<1>1. /\ \A q \in Release \ {r} : local'[q] = local[q]
      /\ local' \in [Release -> [status : Status \cup {"removed"}, files : SUBSET Mapping]]
    BY DEF LocalInv, Keeps
<1>2. \A q \in Release \ {r} : q \notin Published' => q \notin Published
    BY DEF Published
<1> QED
    BY <1>1, <1>2 DEF LocalInv, Agrees

LEMMA LocalStarts == LocalInit => LocalInv
<1> SUFFICES ASSUME LocalInit PROVE LocalInv
    OBVIOUS
<1>1. \A r \in Release : status[r] = "absent" /\ files[r] = {} /\ local[r] = NotBegun
    BY DEF LocalInit, Init, Node
<1>2. local \in [Release -> [status : Status \cup {"removed"}, files : SUBSET Mapping]]
    BY DEF LocalInit, NotBegun, Snapshot, Status
<1> QED
    BY <1>1, <1>2 DEF LocalInv, Agrees, NotBegun

\* The answer of the local store to a call is what the call leaves in the registry.
LEMMA CallAgrees ==
    ASSUME PointerInv, Published \subseteq Published', LocalInv, NEW r \in Release, Call(r)
    PROVE  LocalInv'
<1> DEFINE Shape == [status : Status \cup {"removed"}, files : SUBSET Mapping]
<1>1. /\ local[r] \in Shape /\ status[r] \in Status /\ files[r] \in SUBSET Mapping
      /\ r # Bootstrap /\ r \in Node
    BY DEF LocalInv, PointerInv, TypeOK, Node
<1>2. ASSUME r \notin Published, local[r] # Removed
      PROVE  /\ local[r] = Snapshot(status[r], files[r])
             /\ status[r] = "absent" => files[r] = {}
             /\ status[r] \in {"absent", "running", "succeeded", "failed"}
    BY <1>1, <1>2 DEF LocalInv, Agrees, Published, Status
<1>3. r \notin Published' => r \notin Published
    OBVIOUS
<1> HIDE DEF Shape
<1>4. CASE Begin(r) /\ Keeps(r, LocalBegin(local[r]))
  <2>1. /\ status' = [status EXCEPT
                        ![Bootstrap] = IF active = None THEN "active" ELSE status[Bootstrap],
                        ![r] = IF Open(r) THEN status[r] ELSE "running"]
        /\ files' = [files EXCEPT ![r] = IF status[r] = "failed" THEN {} ELSE files[r]]
    BY <1>4 DEF Begin
  <2>2. /\ \A q \in Release \ {r} : status'[q] = status[q] /\ files'[q] = files[q]
        /\ status'[r] = IF Open(r) THEN status[r] ELSE "running"
        /\ files'[r] = IF status[r] = "failed" THEN {} ELSE files[r]
    BY <1>1, <2>1 DEF PointerInv, TypeOK, Node
  <2>3. status'[r] # "absent"
    BY <2>2 DEF Open
  <2>4. LocalBegin(local[r]) \in Shape /\ LocalBegin(local[r]) # Conflict
    BY <1>1 DEF LocalBegin, Snapshot, Conflict, Status, Shape
  <2>5. local'[r] = IF local[r] = Removed THEN Removed ELSE LocalBegin(local[r])
    BY <1>4, <2>4 DEF Keeps, LocalInv
  <2>6. ASSUME r \notin Published' PROVE Agrees(r)'
    <3>1. CASE local[r] # Removed
      BY <1>2, <1>3, <2>2, <2>5, <2>6, <3>1 DEF Agrees, LocalBegin, Snapshot, Open
    <3> QED
      BY <2>5, <3>1 DEF Agrees, Removed, Snapshot
  <2> QED
    BY <1>4, <2>2, <2>3, <2>4, <2>6, LocalOthers DEF Shape
<1>5. ASSUME NEW object \in Object, NEW stamp \in Stamp,
             \/ Record(r, object, stamp)
             \/ ~Recordable(r, object, stamp) /\ UNCHANGED vars,
             Keeps(r, LocalRecord(local[r], <<object, stamp>>))
      PROVE  LocalInv'
  <2> DEFINE mapping == <<object, stamp>>
             answer == LocalRecord(local[r], mapping)
  <2>1. mapping \in Mapping /\ mapping[1] = object
    BY DEF Mapping
  <2>2. \A m \in Mapping : m[1] = object /\ m # mapping <=>
          \E v \in Stamp : v # stamp /\ m = <<object, v>>
    BY DEF Mapping
  <2>3. /\ status' = status
        /\ files' = IF Recordable(r, object, stamp)
                    THEN [files EXCEPT ![r] = files[r] \cup {mapping}] ELSE files
    BY <1>5 DEF Record, registryVars, vars
  <2> HIDE DEF mapping
  <2>4. /\ \A q \in Release \ {r} : status'[q] = status[q] /\ files'[q] = files[q]
        /\ status'[r] = status[r]
        /\ files'[r] = IF Recordable(r, object, stamp) THEN files[r] \cup {mapping} ELSE files[r]
    BY <2>3 DEF PointerInv, TypeOK
  <2>5. answer = Conflict \/ answer \in Shape
    BY <1>1, <2>1 DEF LocalRecord, Shape
  <2>6. ASSUME r \notin Published, local[r] # Removed
        PROVE  answer = IF Recordable(r, object, stamp)
                        THEN Snapshot(status[r], files[r] \cup {mapping}) ELSE Conflict
    <3>1. local[r].status = status[r] /\ local[r].files = files[r]
      BY <1>2, <2>6 DEF Snapshot
    <3>2. (\E m \in files[r] : m[1] = mapping[1] /\ m # mapping) <=>
            ~ \A v \in Stamp : <<object, v>> \in files[r] => v = stamp
      BY <1>1, <2>1, <2>2
    <3>3. Recordable(r, object, stamp) <=>
            ~ (\/ local[r].status \in {"absent", "failed"}
               \/ \E m \in local[r].files : m[1] = mapping[1] /\ m # mapping
               \/ local[r].status # "running" /\ mapping \notin local[r].files)
      BY <1>2, <2>6, <3>1, <3>2 DEF Recordable, Open, mapping
    <3>4. [local[r] EXCEPT !.files = local[r].files \cup {mapping}]
            = Snapshot(status[r], files[r] \cup {mapping})
      BY <1>2, <2>6 DEF Snapshot
    <3> QED
      BY <3>3, <3>4 DEF LocalRecord
  <2>7. local'[r] = IF Conflict = answer \/ local[r] = Removed THEN local[r] ELSE answer
    BY <1>5 DEF Keeps, LocalInv, mapping
  <2> HIDE DEF answer
  <2>8. ASSUME r \notin Published'
        PROVE  Agrees(r)' /\ (status'[r] = "absent" => files'[r] = {} \/ local'[r] = Removed)
    <3>1. CASE local[r] = Removed
      BY <2>7, <3>1 DEF Agrees, Removed, Snapshot
    <3>2. CASE local[r] # Removed /\ Recordable(r, object, stamp)
      <4>1. answer = Snapshot(status[r], files[r] \cup {mapping})
        BY <1>3, <2>6, <2>8, <3>2
      <4>2. answer # Conflict /\ status[r] # "absent"
        BY <1>1, <3>2, <4>1 DEF Snapshot, Conflict, Status, Recordable, Open
      <4> QED
        BY <2>4, <2>7, <3>2, <4>1, <4>2 DEF Agrees, Snapshot
    <3>3. CASE local[r] # Removed /\ ~Recordable(r, object, stamp)
      <4>1. answer = Conflict
        BY <1>3, <2>6, <2>8, <3>3
      <4> QED
        BY <1>2, <1>3, <2>4, <2>7, <2>8, <3>3, <4>1 DEF Agrees, Snapshot
    <3> QED
      BY <3>1, <3>2, <3>3
  <2>9. Keeps(r, answer)
    BY <1>5 DEF answer, mapping
  <2> QED
    BY <2>4, <2>5, <2>8, <2>9, LocalOthers DEF Shape
<1>6. ASSUME NEW next \in Status, NEW answer \in Shape \cup {Conflict}, NEW allowed \in BOOLEAN,
             status' = IF allowed THEN [status EXCEPT ![r] = next] ELSE status,
             files' = files, allowed => status[r] # "absent" /\ next # "absent",
             Keeps(r, answer),
             r \notin Published /\ local[r] # Removed =>
                answer = IF allowed THEN Snapshot(next, files[r]) ELSE Conflict
      PROVE  LocalInv'
  <2>1. /\ \A q \in Release \ {r} : status'[q] = status[q] /\ files'[q] = files[q]
        /\ status'[r] = IF allowed THEN next ELSE status[r]
        /\ files'[r] = files[r]
    BY <1>1, <1>6 DEF PointerInv, TypeOK
  <2>2. local'[r] = IF Conflict = answer \/ local[r] = Removed THEN local[r] ELSE answer
    BY <1>6 DEF Keeps, LocalInv
  <2>3. ASSUME r \notin Published'
        PROVE  Agrees(r)' /\ (status'[r] = "absent" => files'[r] = {} \/ local'[r] = Removed)
    <3>1. CASE local[r] = Removed
      BY <2>2, <3>1 DEF Agrees, Removed, Snapshot
    <3>2. CASE local[r] # Removed /\ allowed
      <4>1. answer = Snapshot(next, files[r])
        BY <1>3, <1>6, <2>3, <3>2
      <4>2. answer # Conflict
        BY <4>1 DEF Snapshot, Conflict, Status
      <4> QED
        BY <1>6, <2>1, <2>2, <3>2, <4>1, <4>2 DEF Agrees, Snapshot
    <3>3. CASE local[r] # Removed /\ ~allowed
      <4>1. answer = Conflict
        BY <1>3, <1>6, <2>3, <3>3
      <4> QED
        BY <1>2, <1>3, <2>1, <2>2, <2>3, <3>3, <4>1 DEF Agrees, Snapshot
    <3> QED
      BY <3>1, <3>2, <3>3
  <2> QED
    BY <1>6, <2>1, <2>3, LocalOthers DEF Shape
<1>7. CASE /\ Complete(r) \/ (~Completable(r) /\ UNCHANGED vars)
           /\ Keeps(r, LocalComplete(local[r]))
  <2> DEFINE next == IF status[r] = "running" THEN "succeeded" ELSE status[r]
  <2>1. next \in Status
    BY <1>1 DEF Status
  <2>2. /\ status' = IF Completable(r) THEN [status EXCEPT ![r] = next] ELSE status
        /\ files' = files
    BY <1>7 DEF Complete, vars
  <2>3. LocalComplete(local[r]) \in Shape \cup {Conflict}
    BY <1>1 DEF LocalComplete, Shape, Status
  <2>4. Completable(r) => status[r] # "absent" /\ next # "absent"
    BY DEF Completable, Open
  <2>5. ASSUME r \notin Published, local[r] # Removed
        PROVE  LocalComplete(local[r]) =
                    IF Completable(r) THEN Snapshot(next, files[r]) ELSE Conflict
    <3>1. local[r].status = status[r] /\ local[r].files = files[r]
      BY <1>2, <2>5 DEF Snapshot
    <3>2. Completable(r) <=> ~ (\/ local[r].status \in {"absent", "failed"}
                                \/ SourcesOf(local[r].files) # Source
                                \/ ~OneRunPerSource(local[r].files))
      BY <1>2, <2>5, <3>1 DEF Completable, Open
    <3>3. Completable(r) => next = "succeeded"
      BY <1>2, <2>5 DEF Completable, Open
    <3>4. [local[r] EXCEPT !.status = "succeeded"] = Snapshot("succeeded", files[r])
      BY <1>2, <2>5 DEF Snapshot
    <3> QED
      BY <3>2, <3>3, <3>4 DEF LocalComplete
  <2>6. Completable(r) \in BOOLEAN
    BY DEF Completable, Open, OneRunPerSource
  <2> HIDE DEF next
  <2> QED
    BY <1>6, <1>7, <2>1, <2>2, <2>3, <2>4, <2>5, <2>6
<1>8. CASE /\ Fail(r) \/ (~Failable(r) /\ UNCHANGED vars)
           /\ Keeps(r, LocalFail(local[r]))
  <2>1. /\ status' = IF Failable(r) THEN [status EXCEPT ![r] = "failed"] ELSE status
        /\ files' = files
    BY <1>8 DEF Fail, vars
  <2>2. LocalFail(local[r]) \in Shape \cup {Conflict}
    BY <1>1 DEF LocalFail, Shape, Status
  <2>3. ASSUME r \notin Published, local[r] # Removed
        PROVE  LocalFail(local[r]) =
                    IF Failable(r) THEN Snapshot("failed", files[r]) ELSE Conflict
    BY <1>2, <2>3 DEF LocalFail, Failable, Snapshot
  <2>4. Failable(r) \in BOOLEAN /\ (Failable(r) => status[r] # "absent") /\ "failed" \in Status
    BY DEF Failable, Status
  <2> QED
    BY <1>6, <1>8, <2>1, <2>2, <2>3, <2>4
<1> QED
    BY <1>4, <1>5, <1>7, <1>8 DEF Call

\* What the local store knows nothing of.
LEMMA ElsewhereAgrees ==
    ASSUME PointerInv, Published \subseteq Published', LocalInv, Elsewhere \/ UNCHANGED vars,
           UNCHANGED local
    PROVE  LocalInv'
<1>1. \A r \in Release : r \notin Published' => r \notin Published
    OBVIOUS
<1>2. files' = files
    BY DEF Elsewhere, BuildMetrics, Judge, MixRules, Evaluate, Promote, Rollback, vars
<1>3. ASSUME NEW r \in Release, r \notin Published' PROVE status'[r] = status[r]
  <2>1. CASE status' = status
    BY <2>1
  <2>2. ASSUME NEW p \in Release, Promote(p) PROVE status'[r] = status[r]
    BY <1>3, <2>2, PromoteAddsOne DEF Promote, Published, PointerInv, TypeOK, Node
  <2>3. ASSUME NEW y \in Year, Rollback(y) PROVE status'[r] = status[r]
    <3>1. PICK target \in NearestOf(baseline, active, y) :
            status' = [status EXCEPT ![active] = "inactive", ![target] = "active"]
      BY <2>3 DEF Rollback
    <3> QED
      BY <1>3, <3>1 DEF Published, PointerInv, TypeOK, Node
  <2> QED
    BY <2>1, <2>2, <2>3 DEF Elsewhere, BuildMetrics, Judge, MixRules, Evaluate, registryVars, vars
<1> QED
    BY <1>1, <1>2, <1>3 DEF LocalInv, Agrees

LEMMA CleanupAgrees ==
    ASSUME PointerInv, LocalInv, NEW old \in SUBSET Release, LocalCleanup(old) PROVE LocalInv'
<1>1. /\ \A r \in Release : local'[r] = IF r \in old THEN Removed ELSE local[r]
      /\ \A r \in Release \ old : status'[r] = status[r] /\ files'[r] = files[r]
    BY DEF LocalCleanup, Cleanup, Node
<1>2. local' \in [Release -> [status : Status \cup {"removed"}, files : SUBSET Mapping]]
    BY DEF LocalCleanup, LocalInv, Removed, Snapshot
<1> QED
    BY <1>1, <1>2 DEF LocalInv, Agrees, Published, Removed, Snapshot

\* A step of the two stores is a step of the registry, or changes nothing in it.
LEMMA LocalIsNext == [LocalNext]_localVars => [Next]_vars
<1> SUFFICES ASSUME LocalNext PROVE [Next]_vars
    BY DEF localVars
<1> QED
    BY DEF LocalNext, Call, Elsewhere, LocalCleanup, Next

LEMMA LocalAgreesNext ==
    PointerInv /\ LineageIntact /\ LocalInv /\ [LocalNext]_localVars => LocalInv'
<1> SUFFICES ASSUME PointerInv, LineageIntact, LocalInv, [LocalNext]_localVars PROVE LocalInv'
    OBVIOUS
<1>1. Published \subseteq Published'
    BY LocalIsNext, StepKeepsPublished, PromoteAddsOne DEF KeepsPublished
<1> QED
    BY <1>1, CallAgrees, ElsewhereAgrees, CleanupAgrees DEF LocalNext, localVars

\* Until a release is published, the store of the tests accepts, refuses and keeps what
\* the registry does, call by call, whatever is promoted, rolled back or removed.
THEOREM LocalStoreCorrect == LocalSpec => []LocalStoreAgrees
<1>1. LocalInit => PointerInv /\ LineageIntact /\ LocalInv
    BY LocalStarts, TypeInit, PointerInit, LineageInit DEF LocalInit, PointerInv
<1>2. PointerInv /\ LineageIntact /\ LocalInv /\ [LocalNext]_localVars =>
        (PointerInv /\ LineageIntact /\ LocalInv)'
    BY LocalIsNext, LocalAgreesNext, TypeNext, PointerNext, LineageNext DEF PointerInv
<1>3. LocalInv => LocalStoreAgrees
    BY DEF LocalInv, Agrees, LocalStoreAgrees
<1> QED
    BY <1>1, <1>2, <1>3, PTL DEF LocalSpec

================================================================================
