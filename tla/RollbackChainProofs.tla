--------------------------- MODULE RollbackChainProofs ---------------------------
(***************************************************************************)
(* The recursive query of the rollback computes what ReleaseRegistry says  *)
(* the rollback is, for any registry, sound or damaged, any number of      *)
(* releases and any depth of the recursion.                                *)
(***************************************************************************)
EXTENDS RollbackChain, ReleaseRegistryProofs, FiniteSetTheorems, FunctionTheorems, WellFoundedInduction

----------------------------------------------------------------------------
(* Induction over levels, for sets of numbers.                             *)

\* A set of numbers that is not empty has a least one.
LEMMA LeastNat ==
    ASSUME NEW T \in SUBSET Nat, T # {}
    PROVE  \E n \in T : \A m \in T : n <= m
<1> DEFINE R == OpToRel(<, Nat)
<1>1. IsWellFoundedOn(R, Nat)
    BY NatLessThanWellFounded, Zenon
<1>2. \A m, n \in Nat : <<m, n>> \in R <=> m < n
    BY DEF OpToRel
<1> HIDE DEF R
<1>3. PICK n \in T : \A m \in T : ~ (<<m, n>> \in R)
    BY <1>1, WFMin
<1>4. ASSUME NEW m \in T PROVE n <= m
  <2>1. m \in Nat /\ n \in Nat /\ ~ (m < n)
    BY <1>2, <1>3
  <2> QED
    BY <2>1
<1> QED
    BY <1>4

\* A set with zero and every successor holds every number.
LEMMA EveryNat ==
    ASSUME NEW S, 0 \in S, \A n \in Nat : n \in S => n + 1 \in S
    PROVE  Nat \subseteq S
<1> SUFFICES ASSUME Nat \ S # {} PROVE FALSE
    OBVIOUS
<1>1. PICK n \in Nat \ S : \A m \in Nat \ S : n <= m
    BY LeastNat
<1>2. n - 1 \in Nat /\ n - 1 + 1 = n
    BY <1>1
<1>3. n - 1 \in S
    BY <1>1, <1>2
<1> QED
    BY <1>2, <1>3

----------------------------------------------------------------------------
(* The rows of the recursive query.                                        *)

Start(head) == [release |-> head, path |-> {head}, has_cycle |-> FALSE]

Follow(child) ==
    LET parent == baseline[child.release]
    IN  IF child = NoRow \/ child.has_cycle \/ parent = Bootstrap \/ ~ HasRow(parent)
        THEN NoRow
        ELSE [release |-> parent, path |-> child.path \cup {parent},
              has_cycle |-> parent \in child.path]

\* The recursive common table expression has the rows it describes: the walk is a
\* function, and each level follows from the one below.
LEMMA WalkIsRecursive ==
    ASSUME NEW head
    PROVE  Walk(head) = [level \in 0 .. MaxChainLevel |->
                            IF level = 0 THEN Start(head) ELSE Follow(Walk(head)[level - 1])]
<1> DEFINE Rows(f, n) ==
        f = [level \in 0 .. n |-> IF level = 0 THEN Start(head) ELSE Follow(f[level - 1])]
           S == {n \in Nat : \E f : Rows(f, n)}
<1>1. 0 \in S
  <2> HIDE DEF Start, Follow
  <2>1. Rows([level \in 0 .. 0 |-> Start(head)], 0)
    OBVIOUS
  <2> QED
    BY <2>1
<1>2. ASSUME NEW n \in Nat, n \in S PROVE n + 1 \in S
  <2> HIDE DEF Start, Follow
  <2>1. PICK f : Rows(f, n)
    BY <1>2
  <2> DEFINE g == [level \in 0 .. n + 1 |->
                      IF level = 0 THEN Start(head) ELSE Follow(f[level - 1])]
  <2>2. \A level \in 0 .. n : g[level] = f[level]
    BY <2>1
  <2>3. g = [level \in 0 .. n + 1 |->
                IF level = 0 THEN Start(head) ELSE Follow(f[level - 1])]
    OBVIOUS
  <2>4. \A level \in 0 .. n + 1 : level # 0 => level - 1 \in 0 .. n
    OBVIOUS
  <2> HIDE DEF g
  <2>5. \A level \in 0 .. n + 1 : level # 0 => Follow(f[level - 1]) = Follow(g[level - 1])
    BY <2>2, <2>4
  <2>6. Rows(g, n + 1)
    BY <2>3, <2>5
  <2> QED
    BY <2>6
<1>3. \E f : Rows(f, MaxChainLevel)
  <2> HIDE DEF S
  <2>1. MaxChainLevel \in S
    BY <1>1, <1>2, EveryNat, LevelAssumption
  <2> QED
    BY <2>1 DEF S
<1>4. Walk(head) = CHOOSE f : Rows(f, MaxChainLevel)
    BY DEF Walk, Start, Follow
<1> HIDE DEF Start, Follow
<1> QED
    BY <1>3, <1>4

----------------------------------------------------------------------------
(* The levels of the walk.                                                 *)

\* The registry of a behaviour of SqlSpec.
SqlType ==
    /\ active \in Release
    /\ status \in [Node -> {"absent", "active", "inactive"}]
    /\ baseline \in [Release -> Node]

\* a lists the releases of the levels 0 .. k, and there is no other level.
Walked(k, a) ==
    /\ k \in 0 .. MaxChainLevel
    /\ LevelsOf(Walk(active)) = 0 .. k
    /\ \A i \in 0 .. k : a[i] = Walk(active)[i].release /\ a[i] \in Release
    /\ a[0] = active
    /\ \A i \in 0 .. k : i < k => baseline[a[i]] = a[i + 1]
    /\ \A i \in 0 .. k : Walk(active)[i].has_cycle <=> \E j \in 0 .. i - 1 : a[j] = a[i]
    /\ \A i \in 0 .. k : i < k => ~ Walk(active)[i].has_cycle
    /\ \/ k = MaxChainLevel
       \/ Walk(active)[k].has_cycle
       \/ baseline[a[k]] = Bootstrap
       \/ ~ HasRow(baseline[a[k]])

\* The row of one level, as the rows below it determine it.
RowOf(w, i) ==
    /\ w[i].release \in Release
    /\ w[i].path = {w[j].release : j \in 0 .. i}
    /\ w[i].has_cycle <=> \E j \in 0 .. i - 1 : w[j].release = w[i].release

\* A level above another carries the path on.
LEMMA FollowRow ==
    ASSUME SqlType, NEW w, NEW i \in Nat, w[i + 1] = Follow(w[i]), w[i + 1] # NoRow,
           RowOf(w, i)
    PROVE  RowOf(w, i + 1)
<1> DEFINE parent == baseline[w[i].release]
<1>1. /\ w[i + 1] = [release |-> parent, path |-> w[i].path \cup {parent},
                     has_cycle |-> parent \in w[i].path]
      /\ parent # Bootstrap
    BY DEF Follow
<1>2. parent \in Release
    BY <1>1 DEF SqlType, Node, RowOf
<1>3. /\ w[i + 1].release = parent /\ w[i + 1].path = w[i].path \cup {parent}
      /\ w[i + 1].has_cycle = (parent \in w[i].path)
    BY <1>1
<1> HIDE DEF parent
<1>4. {w[j].release : j \in 0 .. i + 1} = {w[j].release : j \in 0 .. i} \cup {parent}
  <2>1. 0 .. i + 1 = 0 .. i \cup {i + 1}
    OBVIOUS
  <2> QED
    BY <2>1, <1>3
<1>5. w[i + 1].path = {w[j].release : j \in 0 .. i + 1}
    BY <1>3, <1>4 DEF RowOf
<1>6. w[i + 1].has_cycle <=> \E j \in 0 .. i + 1 - 1 : w[j].release = w[i + 1].release
  <2>1. i + 1 - 1 = i
    OBVIOUS
  <2>2. w[i + 1].has_cycle <=> parent \in {w[j].release : j \in 0 .. i}
    BY <1>3 DEF RowOf
  <2>3. parent \in {w[j].release : j \in 0 .. i} <=> \E j \in 0 .. i : w[j].release = parent
    OBVIOUS
  <2> QED
    BY <1>3, <2>1, <2>2, <2>3
<1> QED
    BY <1>2, <1>3, <1>5, <1>6 DEF RowOf

LEMMA WalkSteps ==
    /\ DOMAIN Walk(active) = 0 .. MaxChainLevel
    /\ Walk(active)[0] = Start(active)
    /\ \A i \in Nat : i + 1 <= MaxChainLevel => Walk(active)[i + 1] = Follow(Walk(active)[i])
<1> USE LevelAssumption
<1> DEFINE w == Walk(active)
<1>1. w = [level \in 0 .. MaxChainLevel |->
             IF level = 0 THEN Start(active) ELSE Follow(w[level - 1])]
    BY WalkIsRecursive
<1> HIDE DEF w, Start, Follow
<1>2. DOMAIN w = 0 .. MaxChainLevel /\ w[0] = Start(active)
    BY <1>1
<1>3. ASSUME NEW i \in Nat, i + 1 <= MaxChainLevel PROVE w[i + 1] = Follow(w[i])
  <2>1. i + 1 \in 0 .. MaxChainLevel /\ i + 1 # 0 /\ i + 1 - 1 = i
    BY <1>3
  <2> QED
    BY <1>1, <2>1
<1> QED
    BY <1>2, <1>3 DEF w

\* Whatever the registry holds, the walk is a path up the baselines that ends at the
\* bound, at a cycle, at the bootstrap or at a missing row.
LEMMA WalkLevels ==
    ASSUME SqlType
    PROVE  \E k, a : Walked(k, a)
<1> USE LevelAssumption
<1> DEFINE w == Walk(active)
<1>1. /\ DOMAIN w = 0 .. MaxChainLevel /\ w[0] = Start(active)
      /\ \A i \in Nat : i + 1 <= MaxChainLevel => w[i + 1] = Follow(w[i])
    BY WalkSteps
<1> HIDE DEF w
<1>2. w[0] # NoRow /\ RowOf(w, 0) /\ w[0].release = active
  <2>1. w[0] # NoRow /\ w[0].release = active /\ w[0].path = {active} /\ ~ w[0].has_cycle
    BY <1>1, IdentityAssumption DEF Start, NoRow, SqlType
  <2>2. 0 .. 0 = {0} /\ 0 .. 0 - 1 = {}
    OBVIOUS
  <2> QED
    BY <2>1, <2>2 DEF RowOf, SqlType
<1>3. ASSUME NEW i \in Nat, i + 1 <= MaxChainLevel, w[i + 1] # NoRow
      PROVE  /\ w[i] # NoRow /\ ~ w[i].has_cycle
             /\ w[i + 1].release = baseline[w[i].release]
  <2>1. w[i + 1] = Follow(w[i])
    BY <1>1, <1>3
  <2> QED
    BY <1>3, <2>1 DEF Follow
<1>4. ASSUME NEW i \in 0 .. MaxChainLevel, w[i] # NoRow PROVE RowOf(w, i)
  <2> DEFINE S == {n \in Nat : n <= MaxChainLevel /\ w[n] # NoRow => RowOf(w, n)}
  <2>1. 0 \in S
    BY <1>2
  <2>2. ASSUME NEW n \in Nat, n \in S PROVE n + 1 \in S
    <3> SUFFICES ASSUME n + 1 <= MaxChainLevel, w[n + 1] # NoRow PROVE RowOf(w, n + 1)
      OBVIOUS
    <3>1. n <= MaxChainLevel /\ w[n] # NoRow /\ w[n + 1] = Follow(w[n])
      BY <1>1, <1>3
    <3>2. RowOf(w, n)
      BY <2>2, <3>1
    <3> QED
      BY <3>1, <3>2, FollowRow
  <2> HIDE DEF S
  <2>3. i \in S
    BY <2>1, <2>2, EveryNat
  <2> QED
    BY <1>4, <2>3 DEF S
<1>5. PICK k \in 0 .. MaxChainLevel :
        /\ \A i \in 0 .. MaxChainLevel : w[i] # NoRow <=> i <= k
        /\ k = MaxChainLevel \/ w[k + 1] = NoRow
  <2> DEFINE Missing == {i \in 0 .. MaxChainLevel : w[i] = NoRow}
  <2>1. CASE Missing = {}
    <3>1. MaxChainLevel \in 0 .. MaxChainLevel
      OBVIOUS
    <3>2. \A i \in 0 .. MaxChainLevel : w[i] # NoRow <=> i <= MaxChainLevel
      BY <2>1
    <3> WITNESS MaxChainLevel \in 0 .. MaxChainLevel
    <3> QED
      BY <3>2
  <2>2. CASE Missing # {}
    <3>1. PICK n \in Missing : \A m \in Missing : n <= m
      <4>1. Missing \in SUBSET Nat
        OBVIOUS
      <4> HIDE DEF Missing
      <4> QED
        BY <2>2, <4>1, LeastNat
    <3>2. n \in 0 .. MaxChainLevel /\ n # 0 /\ n - 1 \in 0 .. MaxChainLevel /\ n - 1 + 1 = n
      BY <1>2, <3>1
    <3>3. ASSUME NEW i \in 0 .. MaxChainLevel, n <= i PROVE w[i] = NoRow
      <4> DEFINE S == {d \in Nat : n + d <= MaxChainLevel => w[n + d] = NoRow}
      <4>1. 0 \in S
        BY <3>1, <3>2
      <4>2. ASSUME NEW d \in Nat, d \in S PROVE d + 1 \in S
        <5>1. n + (d + 1) = (n + d) + 1 /\ n + d \in Nat
          BY <3>2
        <5>2. n + d + 1 <= MaxChainLevel => n + d <= MaxChainLevel
          BY <3>2
        <5> QED
          BY <1>3, <4>2, <5>1, <5>2
      <4> HIDE DEF S
      <4>3. i - n \in S
        BY <3>2, <3>3, <4>1, <4>2, EveryNat
      <4>4. n + (i - n) = i
        BY <3>2
      <4> QED
        BY <4>3, <4>4 DEF S
    <3>4. ASSUME NEW i \in 0 .. MaxChainLevel, ~ (n <= i) PROVE w[i] # NoRow
      BY <3>1, <3>4
    <3>5. \A i \in 0 .. MaxChainLevel : n <= i <=> ~ (i <= n - 1)
      BY <3>2
    <3> QED
      BY <3>1, <3>2, <3>3, <3>4, <3>5
  <2> QED
    BY <2>1, <2>2
<1> DEFINE a == [i \in 0 .. k |-> w[i].release]
<1>6. \A i \in 0 .. k : i \in 0 .. MaxChainLevel /\ w[i] # NoRow /\ RowOf(w, i)
    BY <1>4, <1>5
<1>7. \A i \in 0 .. k : i < k =>
        i \in Nat /\ i + 1 \in 0 .. k /\ i + 1 <= MaxChainLevel /\ w[i + 1] # NoRow
    BY <1>5
<1>8. \A i \in 0 .. k : a[i] = w[i].release
    OBVIOUS
<1> HIDE DEF a
<1>9. LevelsOf(w) = 0 .. k
    BY <1>1, <1>5 DEF LevelsOf
<1>10. \A i \in 0 .. k : a[i] \in Release
    BY <1>6, <1>8 DEF RowOf
<1>11. \A i \in 0 .. k : i < k => baseline[a[i]] = a[i + 1] /\ ~ w[i].has_cycle
    BY <1>3, <1>7, <1>8
<1>12. ASSUME NEW i \in 0 .. k PROVE w[i].has_cycle <=> \E j \in 0 .. i - 1 : a[j] = a[i]
  <2>1. \A j \in 0 .. i - 1 : a[j] = w[j].release
    BY <1>8
  <2> QED
    BY <1>6, <1>8, <2>1 DEF RowOf
<1>13. k < MaxChainLevel =>
         w[k].has_cycle \/ baseline[a[k]] = Bootstrap \/ ~ HasRow(baseline[a[k]])
  <2> SUFFICES ASSUME k < MaxChainLevel, ~ w[k].has_cycle, baseline[a[k]] # Bootstrap,
                      HasRow(baseline[a[k]])
               PROVE  FALSE
    OBVIOUS
  <2>1. k \in 0 .. k /\ k \in Nat /\ k + 1 <= MaxChainLevel
    OBVIOUS
  <2>2. w[k + 1] = Follow(w[k]) /\ w[k] # NoRow /\ a[k] = w[k].release /\ w[k + 1] = NoRow
    BY <1>1, <1>5, <1>6, <1>8, <2>1
  <2>3. w[k + 1].release = baseline[a[k]]
    BY <2>2 DEF Follow
  <2>4. baseline[a[k]] \in Release
    BY <1>10, <2>1 DEF SqlType, Node
  <2> QED
    BY <2>2, <2>3, <2>4, IdentityAssumption DEF NoRow
<1>14. Walked(k, a)
  <2>1. 0 \in 0 .. k
    OBVIOUS
  <2>2. a[0] = active
    BY <1>2, <1>8, <2>1
  <2> QED
    BY <1>5, <1>8, <1>9, <1>10, <1>11, <1>12, <1>13, <2>2 DEF Walked, w
<1> QED
    BY <1>14

----------------------------------------------------------------------------
(* The chain and the path the walk takes.                                  *)

\* The releases of the levels 0 .. k of a path.
OnPath(a, k) == {a[i] : i \in 0 .. k}

IsPath(b, a, k) ==
    /\ \A i \in 0 .. k : a[i] \in Release
    /\ \A i \in 0 .. k : i < k => b[a[i]] = a[i + 1]

\* Nothing follows the last level, or something the path has already been to.
IsWhole(b, a, k) == b[a[k]] \in Release => \E i \in 0 .. k : b[a[k]] = a[i]

\* A path from the head of a chain stays in the chain, and each of its releases is an
\* ancestor of those before it.
LEMMA PathInChain ==
    ASSUME NEW b, NEW a, NEW k \in Nat, IsPath(b, a, k), NEW j \in 0 .. k, NEW i \in j .. k
    PROVE  a[i] \in Ancestry(b, a[j])
<1> USE DEF IsPath
<1> DEFINE S == {d \in Nat : j + d <= k => a[j + d] \in Ancestry(b, a[j])}
<1>1. 0 \in S
    BY AncestryIsLeast
<1>2. ASSUME NEW d \in Nat, d \in S PROVE d + 1 \in S
  <2> SUFFICES ASSUME j + (d + 1) <= k PROVE a[j + (d + 1)] \in Ancestry(b, a[j])
    OBVIOUS
  <2>1. j + d \in 0 .. k /\ j + d < k /\ j + d + 1 = j + (d + 1) /\ j + (d + 1) \in 0 .. k
    OBVIOUS
  <2>2. a[j + d] \in Ancestry(b, a[j]) /\ b[a[j + d]] = a[j + (d + 1)]
    BY <1>2, <2>1
  <2>3. a[j + (d + 1)] \in Release
    BY <2>1
  <2> QED
    BY <2>2, <2>3, AncestryIsLeast DEF ClosedUnder
<1> HIDE DEF S
<1>3. i - j \in Nat /\ j + (i - j) = i /\ j + (i - j) <= k
    OBVIOUS
<1>4. i - j \in S
    BY <1>1, <1>2, <1>3, EveryNat
<1> QED
    BY <1>3, <1>4 DEF S

\* A path whose last release leads nowhere, or back into the path, is the whole chain.
LEMMA PathIsChain ==
    ASSUME NEW b, NEW a, NEW k \in Nat, IsPath(b, a, k), IsWhole(b, a, k)
    PROVE  Ancestry(b, a[0]) = OnPath(a, k)
<1> USE DEF IsPath, IsWhole
<1> DEFINE P == OnPath(a, k)
<1>1. P \in SUBSET Release /\ a[0] \in P
    BY DEF OnPath
<1>2. ClosedUnder(b, P)
  <2> SUFFICES ASSUME NEW i \in 0 .. k, b[a[i]] \in Release PROVE b[a[i]] \in P
    BY DEF ClosedUnder, OnPath
  <2>1. CASE i = k
    BY <2>1 DEF OnPath
  <2>2. CASE i # k
    <3>1. i < k /\ i + 1 \in 0 .. k
      BY <2>2
    <3> QED
      BY <3>1 DEF OnPath
  <2> QED
    BY <2>1, <2>2
<1>3. Ancestry(b, a[0]) \subseteq P
    BY <1>1, <1>2, AncestryIsLeast
<1>4. \A i \in 0 .. k : i \in 0 .. k /\ 0 \in 0 .. k
    OBVIOUS
<1>5. P \subseteq Ancestry(b, a[0])
    BY <1>4, PathInChain DEF OnPath
<1> QED
    BY <1>3, <1>5

\* A chain that reaches the bootstrap is finite: every release of it lies on a finite
\* path from its head.
LEMMA BootstrapBoundsChain ==
    ASSUME NEW b, NEW head \in Release, NEW r \in Ancestry(b, head), b[r] \notin Release
    PROVE  IsFiniteSet(Ancestry(b, head))
<1> DEFINE Leads(F, x) == /\ F \in SUBSET Release /\ IsFiniteSet(F)
                          /\ head \in F /\ x \in F
                          /\ \A y \in F \ {x} : b[y] \in Release => b[y] \in F
           D == {x \in Release : \E F : Leads(F, x)}
<1>1. head \in D
  <2>1. Leads({head}, head)
    BY FS_Singleton
  <2> QED
    BY <2>1
<1>2. ClosedUnder(b, D)
  <2> SUFFICES ASSUME NEW x \in D, b[x] \in Release PROVE b[x] \in D
    <3> HIDE DEF D
    <3> QED
      BY DEF ClosedUnder
  <2>1. PICK F : Leads(F, x)
    OBVIOUS
  <2>2. IsFiniteSet(F \cup {b[x]})
    BY <2>1, FS_AddElement
  <2>3. Leads(F \cup {b[x]}, b[x])
    BY <2>1, <2>2
  <2> HIDE DEF Leads
  <2> QED
    BY <2>3
<1>3. r \in D
  <2> HIDE DEF D
  <2>1. D \in SUBSET Release
    BY DEF D
  <2> QED
    BY <1>1, <1>2, <2>1, AncestryIsLeast
<1>4. PICK F : Leads(F, r)
    BY <1>3
<1>5. ClosedUnder(b, F)
    BY <1>4 DEF ClosedUnder
<1>6. Ancestry(b, head) \subseteq F
    BY <1>4, <1>5, AncestryIsLeast
<1> QED
    BY <1>4, <1>6, FS_Subset

\* The releases of a path without repetition are as many as its levels.
LEMMA PathCount ==
    ASSUME NEW a, NEW k \in Nat, \A i, j \in 0 .. k : a[i] = a[j] => i = j
    PROVE  IsFiniteSet(OnPath(a, k)) /\ Cardinality(OnPath(a, k)) = k + 1
<1> DEFINE P == OnPath(a, k)
           f == [n \in 1 .. k + 1 |-> a[n - 1]]
<1>1. \A n \in 1 .. k + 1 : n - 1 \in 0 .. k
    OBVIOUS
<1>2. \A i \in 0 .. k : i + 1 \in 1 .. k + 1 /\ i + 1 - 1 = i
    OBVIOUS
<1>3. f \in [1 .. k + 1 -> P]
    BY <1>1 DEF OnPath
<1>4. \A m, n \in 1 .. k + 1 : f[m] = f[n] => m = n
    BY <1>1
<1>5. \A p \in P : \E n \in 1 .. k + 1 : f[n] = p
    BY <1>2 DEF OnPath
<1> HIDE DEF P, f
<1>6. f \in Bijection(1 .. k + 1, P)
    BY <1>3, <1>4, <1>5, Fun_IsBij
<1>7. k + 1 \in Nat /\ ExistsBijection(1 .. k + 1, P)
    BY <1>6 DEF ExistsBijection
<1> QED
    BY <1>7, FS_CountingElements, FS_NatBijection DEF P

----------------------------------------------------------------------------
(* The asserts on the walk, and the checks of the rollback.                *)

\* What the asserts say of the path.
PathAsserts(k, a) ==
    /\ \A i, j \in 0 .. k : a[i] = a[j] => i = j
    /\ k = MaxChainLevel => baseline[a[k]] = Bootstrap
    /\ Cardinality({i \in 0 .. k : baseline[a[i]] = Bootstrap}) = 1
    /\ \A i \in 0 .. k : status[a[i]] = IF i = 0 THEN "active" ELSE "inactive"
    /\ \A i, j \in 0 .. k : baseline[a[i]] = a[j] => ReleaseYear[a[j]] <= ReleaseYear[a[i]]

\* A release that comes twice closes a cycle at one level.
LEMMA RepeatIsCycle ==
    ASSUME NEW k, NEW a, Walked(k, a),
           NEW i \in 0 .. k, NEW j \in 0 .. k, a[i] = a[j], i # j
    PROVE  Walk(active)[k].has_cycle
<1>1. ASSUME NEW m \in 0 .. k, NEW n \in 0 .. k, m < n, a[m] = a[n]
      PROVE  Walk(active)[k].has_cycle
  <2>1. m \in 0 .. n - 1
    BY <1>1 DEF Walked
  <2>2. Walk(active)[n].has_cycle
    BY <1>1, <2>1 DEF Walked
  <2>3. n = k
    BY <2>2 DEF Walked
  <2> QED
    BY <2>2, <2>3
<1>2. k \in Nat
    BY LevelAssumption DEF Walked
<1>3. i < j \/ j < i
    BY <1>2
<1> QED
    BY <1>1, <1>3

LEMMA AssertsOnPath ==
    ASSUME NEW k, NEW a, Walked(k, a)
    PROVE  WalkAsserts(Walk(active)) <=> PathAsserts(k, a)
<1> DEFINE w == Walk(active)
<1>1. LevelsOf(w) = 0 .. k /\ \A i \in 0 .. k : w[i].release = a[i]
    BY DEF Walked
<1>2. MaxChainLevel \in 0 .. k <=> k = MaxChainLevel
    BY LevelAssumption DEF Walked
<1>3. (\A i, j \in 0 .. k : a[i] = a[j] => i = j) => \A i \in 0 .. k : ~ w[i].has_cycle
  <2>1. ASSUME \A i, j \in 0 .. k : a[i] = a[j] => i = j, NEW i \in 0 .. k, w[i].has_cycle
        PROVE  FALSE
    <3>1. PICK j \in 0 .. i - 1 : a[j] = a[i]
      BY <2>1 DEF Walked
    <3>2. j \in 0 .. k /\ j # i
      BY LevelAssumption DEF Walked
    <3> QED
      BY <2>1, <3>1, <3>2
  <2> QED
    BY <2>1
<1>4. {i \in LevelsOf(w) : baseline[w[i].release] = Bootstrap}
        = {i \in 0 .. k : baseline[a[i]] = Bootstrap}
    BY <1>1
<1> HIDE DEF w
<1>5. WalkAsserts(w) <=>
        /\ \A i, j \in 0 .. k : a[i] = a[j] => i = j
        /\ \A i \in 0 .. k : ~ w[i].has_cycle
        /\ k = MaxChainLevel => baseline[w[MaxChainLevel].release] = Bootstrap
        /\ Cardinality({i \in LevelsOf(w) : baseline[w[i].release] = Bootstrap}) = 1
        /\ \A i \in 0 .. k : status[a[i]] = IF i = 0 THEN "active" ELSE "inactive"
        /\ \A i, j \in 0 .. k :
            baseline[a[i]] = a[j] => ReleaseYear[a[j]] <= ReleaseYear[a[i]]
    BY <1>1, <1>2 DEF WalkAsserts
<1>6. k = MaxChainLevel =>
        (baseline[w[MaxChainLevel].release] = Bootstrap <=> baseline[a[k]] = Bootstrap)
    BY <1>1, <1>2
<1>7. WalkAsserts(w) <=> PathAsserts(k, a)
    BY <1>3, <1>4, <1>5, <1>6, Zenon DEF PathAsserts
<1> QED
    BY <1>7 DEF w

\* The asserts admit no chain but one that reaches the bootstrap within the bound.
LEMMA AssertsAreSound ==
    ASSUME SqlType, PointerAsserts, WalkAsserts(Walk(active))
    PROVE  RollbackChecks
<1>1. PICK k, a : Walked(k, a)
    BY WalkLevels
<1>2. PathAsserts(k, a)
    BY <1>1, AssertsOnPath
<1>3. k \in Nat /\ k <= MaxChainLevel /\ k \in 0 .. k /\ 0 \in 0 .. k
    BY <1>1, LevelAssumption DEF Walked
<1>4. IsPath(baseline, a, k) /\ a[0] = active
    BY <1>1 DEF Walked, IsPath
<1>5. baseline[a[k]] = Bootstrap
  <2> DEFINE B == {i \in 0 .. k : baseline[a[i]] = Bootstrap}
  <2>1. B # {}
    BY <1>2, FS_EmptySet DEF PathAsserts
  <2>2. PICK i \in 0 .. k : baseline[a[i]] = Bootstrap
    BY <2>1
  <2>3. ASSUME i < k PROVE FALSE
    <3>1. i + 1 \in 0 .. k
      BY <1>3, <2>3
    <3>2. a[i + 1] = Bootstrap /\ a[i + 1] \in Release
      BY <1>4, <2>2, <2>3, <3>1 DEF IsPath
    <3> QED
      BY <3>2, IdentityAssumption
  <2>4. i = k
    BY <1>3, <2>3
  <2> QED
    BY <2>2, <2>4
<1>6. Chain(active) = OnPath(a, k)
  <2>1. IsWhole(baseline, a, k)
    BY <1>5, IdentityAssumption DEF IsWhole
  <2>2. Ancestry(baseline, a[0]) = OnPath(a, k)
    BY <1>3, <1>4, <2>1, PathIsChain
  <2> QED
    BY <1>4, <2>2 DEF Chain
<1>7. Cardinality(Chain(active)) <= MaxChainLevel + 1
  <2>1. Cardinality(Chain(active)) = k + 1
    <3>1. \A i, j \in 0 .. k : a[i] = a[j] => i = j
      BY <1>2 DEF PathAsserts
    <3> QED
      BY <1>3, <1>6, <3>1, PathCount
  <2> QED
    BY <1>3, <2>1, LevelAssumption
<1>8. \E r \in Chain(active) : baseline[r] = Bootstrap
  <2>1. a[k] \in Chain(active)
    BY <1>3, <1>6 DEF OnPath
  <2> QED
    BY <1>5, <2>1
<1>9. \A r \in Chain(active) \ {active} : status[r] = "inactive"
  <2> SUFFICES ASSUME NEW i \in 0 .. k, a[i] # active PROVE status[a[i]] = "inactive"
    BY <1>6 DEF OnPath
  <2>1. i # 0
    BY <1>4
  <2> QED
    BY <1>2, <2>1 DEF PathAsserts
<1>10. \A r \in Chain(active) :
         baseline[r] \in Chain(active) => ReleaseYear[baseline[r]] <= ReleaseYear[r]
    BY <1>2, <1>6 DEF PathAsserts, OnPath
<1> QED
    BY <1>7, <1>8, <1>9, <1>10 DEF RollbackChecks, PointerAsserts

\* A chain the rollback accepts is the path of the walk, which ends at the bootstrap.
LEMMA WalkOfSoundChain ==
    ASSUME SqlType, RollbackChecks, NEW k, NEW a, Walked(k, a)
    PROVE  /\ Chain(active) = OnPath(a, k)
           /\ baseline[a[k]] = Bootstrap
           /\ \A i, j \in 0 .. k : a[i] = a[j] => i = j
<1> USE LevelAssumption
<1> DEFINE P == OnPath(a, k)
<1>1. k \in Nat /\ k <= MaxChainLevel /\ k \in 0 .. k /\ 0 \in 0 .. k
    BY DEF Walked
<1>2. IsPath(baseline, a, k) /\ a[0] = active
    BY DEF Walked, IsPath
<1>3. \A i \in 0 .. k : a[i] \in Chain(active)
    BY <1>1, <1>2, PathInChain DEF Chain
<1>4. PICK r \in Chain(active) : baseline[r] = Bootstrap
    BY DEF RollbackChecks
<1>5. ~ Walk(active)[k].has_cycle
  <2> SUFFICES ASSUME NEW j \in 0 .. k - 1, a[j] = a[k] PROVE FALSE
    BY <1>1 DEF Walked
  <2>1. k - 1 \in Nat /\ k - 1 + 1 = k /\ 0 .. k - 1 \subseteq 0 .. k
    BY <1>1
  <2>2. \A i \in 0 .. k - 1 : i < k /\ i + 1 \in 0 .. k
    BY <1>1
  <2>3. \A i \in 0 .. k - 1 : a[i] \in Release /\ baseline[a[i]] = a[i + 1]
    BY <1>2, <2>1, <2>2 DEF IsPath
  <2>4. baseline[a[k - 1]] = a[j]
    BY <2>1, <2>3
  <2>5. IsPath(baseline, a, k - 1)
    BY <2>3 DEF IsPath
  <2>6. IsWhole(baseline, a, k - 1)
    BY <2>4 DEF IsWhole
  <2>7. Chain(active) = OnPath(a, k - 1)
    BY <1>2, <2>1, <2>5, <2>6, PathIsChain DEF Chain
  <2>8. baseline[r] \in Release
    BY <1>2, <1>4, <2>2, <2>3, <2>7 DEF OnPath, IsPath
  <2> QED
    BY <1>4, <2>8, IdentityAssumption
<1>6. \A i, j \in 0 .. k : a[i] = a[j] => i = j
    BY <1>5, RepeatIsCycle
<1>7. baseline[a[k]] = Bootstrap
  <2>1. CASE k # MaxChainLevel
    <3>1. baseline[a[k]] = Bootstrap \/ ~ HasRow(baseline[a[k]])
      BY <1>5, <2>1 DEF Walked
    <3>2. SUFFICES ASSUME baseline[a[k]] \in Release PROVE HasRow(baseline[a[k]])
      BY <1>1, <1>2, <3>1 DEF SqlType, Node, IsPath
    <3>3. baseline[a[k]] \in Chain(active)
      BY <1>1, <1>3, <3>2, AncestryIsLeast DEF Chain, ClosedUnder
    <3>4. status[baseline[a[k]]] \in {"active", "inactive"}
      BY <3>3 DEF RollbackChecks
    <3> QED
      BY <3>4 DEF HasRow
  <2>2. CASE k = MaxChainLevel
    <3>1. IsFiniteSet(Chain(active))
      BY <1>4, BootstrapBoundsChain, IdentityAssumption DEF Chain, SqlType
    <3>2. P \in SUBSET Chain(active)
      BY <1>3 DEF OnPath
    <3>3. IsFiniteSet(P) /\ Cardinality(P) = MaxChainLevel + 1
      BY <1>1, <1>6, <2>2, PathCount
    <3> HIDE DEF P
    <3>4. Cardinality(Chain(active)) <= Cardinality(P)
      BY <3>3 DEF RollbackChecks
    <3>5. Cardinality(Chain(active)) = Cardinality(P)
      BY <3>1, <3>2, <3>3, <3>4, FS_Subset, FS_CardinalityType
    <3>6. Chain(active) = P
      BY <3>1, <3>2, <3>5, FS_Subset
    <3>7. PICK i \in 0 .. k : a[i] = r
      BY <1>4, <3>6 DEF P, OnPath
    <3>8. ~ (i < k)
      <4> SUFFICES ASSUME i < k PROVE FALSE
        OBVIOUS
      <4>1. i + 1 \in 0 .. k
        BY <1>1
      <4>2. a[i + 1] = Bootstrap /\ a[i + 1] \in Release
        BY <1>2, <1>4, <3>7, <4>1 DEF IsPath
      <4> QED
        BY <4>2, IdentityAssumption
    <3>9. i = k
      BY <1>1, <3>8
    <3> QED
      BY <1>4, <3>7, <3>9
  <2> QED
    BY <2>1, <2>2
<1>8. Chain(active) = OnPath(a, k)
  <2>1. IsWhole(baseline, a, k)
    BY <1>7, IdentityAssumption DEF IsWhole
  <2>2. Ancestry(baseline, a[0]) = OnPath(a, k)
    BY <1>1, <1>2, <2>1, PathIsChain
  <2> QED
    BY <1>2, <2>2 DEF Chain
<1> QED
    BY <1>6, <1>7, <1>8

\* The asserts refuse no chain the rollback accepts.
LEMMA AssertsAdmitSound ==
    ASSUME SqlType, RollbackChecks
    PROVE  WalkAsserts(Walk(active))
<1>1. PICK k, a : Walked(k, a)
    BY WalkLevels
<1>2. /\ Chain(active) = OnPath(a, k)
      /\ baseline[a[k]] = Bootstrap
      /\ \A i, j \in 0 .. k : a[i] = a[j] => i = j
    BY <1>1, WalkOfSoundChain
<1>3. k \in Nat /\ k \in 0 .. k /\ 0 \in 0 .. k
    BY <1>1, LevelAssumption DEF Walked
<1>4. a[0] = active
    BY <1>1 DEF Walked
<1>5. Cardinality({i \in 0 .. k : baseline[a[i]] = Bootstrap}) = 1
  <2>1. ASSUME NEW i \in 0 .. k, baseline[a[i]] = Bootstrap, i < k PROVE FALSE
    <3>1. i + 1 \in 0 .. k
      BY <1>3, <2>1
    <3>2. a[i + 1] = Bootstrap /\ a[i + 1] \in Release
      BY <1>1, <2>1, <3>1 DEF Walked
    <3> QED
      BY <3>2, IdentityAssumption
  <2>2. \A i \in 0 .. k : i < k \/ i = k
    BY <1>3
  <2>3. {i \in 0 .. k : baseline[a[i]] = Bootstrap} = {k}
    BY <1>2, <1>3, <2>1, <2>2
  <2> QED
    BY <2>3, FS_Singleton
<1>6. ASSUME NEW i \in 0 .. k
      PROVE  status[a[i]] = IF i = 0 THEN "active" ELSE "inactive"
  <2>1. CASE i = 0
    BY <1>4, <2>1 DEF RollbackChecks
  <2>2. CASE i # 0
    <3>1. a[i] # active /\ a[i] \in Chain(active)
      BY <1>2, <1>3, <1>4, <2>2 DEF OnPath
    <3> QED
      BY <2>2, <3>1 DEF RollbackChecks
  <2> QED
    BY <2>1, <2>2
<1>7. ASSUME NEW i \in 0 .. k, NEW j \in 0 .. k, baseline[a[i]] = a[j]
      PROVE  ReleaseYear[a[j]] <= ReleaseYear[a[i]]
  <2>1. a[i] \in Chain(active) /\ baseline[a[i]] \in Chain(active)
    BY <1>2, <1>7 DEF OnPath
  <2>2. ReleaseYear[baseline[a[i]]] <= ReleaseYear[a[i]]
    BY <2>1 DEF RollbackChecks
  <2> QED
    BY <1>7, <2>2
<1>8. PathAsserts(k, a)
    BY <1>2, <1>5, <1>6, <1>7 DEF PathAsserts
<1> QED
    BY <1>1, <1>8, AssertsOnPath

\* On every registry the asserts accept exactly what the rollback accepts, and then
\* the walk lists the whole chain.
LEMMA AssertsComplete ==
    ASSUME SqlType
    PROVE  AssertsAreComplete
<1>1. PointerAsserts /\ WalkAsserts(Walk(active)) <=> RollbackChecks
  <2>1. RollbackChecks => PointerAsserts
    BY DEF RollbackChecks, PointerAsserts
  <2> QED
    BY <2>1, AssertsAreSound, AssertsAdmitSound
<1>2. ASSUME RollbackChecks
      PROVE  {Walk(active)[i].release : i \in LevelsOf(Walk(active))} = Chain(active)
  <2>1. PICK k, a : Walked(k, a)
    BY WalkLevels
  <2>2. Chain(active) = OnPath(a, k)
    BY <1>2, <2>1, WalkOfSoundChain
  <2>3. LevelsOf(Walk(active)) = 0 .. k /\ \A i \in 0 .. k : a[i] = Walk(active)[i].release
    BY <2>1 DEF Walked
  <2> QED
    BY <2>2, <2>3 DEF OnPath
<1> QED
    BY <1>1, <1>2 DEF AssertsAreComplete

----------------------------------------------------------------------------
(* The target.                                                             *)

\* The row with the smallest chain_level of the year is the nearest release of the year:
\* every other one lies further along the path, so it is an ancestor of the target.
LEMMA TargetIsNearest ==
    ASSUME SqlType, RollbackChecks, NEW y, LevelsOfYear(Walk(active), y) # {}
    PROVE  /\ Walk(active)[TargetLevel(Walk(active), y)].release
                \in NearestOf(baseline, active, y)
           /\ Walk(active)[TargetLevel(Walk(active), y)].release \in Release
<1> DEFINE w == Walk(active)
           L == LevelsOfYear(w, y)
           t == TargetLevel(w, y)
<1>1. PICK k, a : Walked(k, a)
    BY WalkLevels
<1>2. k \in Nat /\ \A i \in 0 .. k : a[i] = w[i].release /\ a[i] \in Release
    BY <1>1, LevelAssumption DEF Walked
<1>3. L = {i \in 0 .. k : ReleaseYear[a[i]] = y}
  <2>1. LevelsOf(w) = 0 .. k
    BY <1>1 DEF Walked
  <2> QED
    BY <1>2, <2>1 DEF LevelsOfYear
<1> HIDE DEF w
<1>4. t \in L /\ \A i \in L : t <= i
  <2>1. L \in SUBSET Nat /\ L # {}
    BY <1>3 DEF w
  <2> HIDE DEF L
  <2>2. \E n \in L : \A i \in L : n <= i
    BY <2>1, LeastNat
  <2> QED
    BY <2>2 DEF TargetLevel, L
<1>5. IsPath(baseline, a, k) /\ a[0] = active
    BY <1>1 DEF Walked, IsPath
<1>6. Chain(active) = OnPath(a, k)
    BY <1>1, WalkOfSoundChain
<1>7. t \in 0 .. k /\ ReleaseYear[a[t]] = y
    BY <1>3, <1>4
<1>8. OfYear(baseline, active, y) = {a[i] : i \in L}
  <2> HIDE DEF L, t
  <2>1. OfYear(baseline, active, y) = {r \in OnPath(a, k) : ReleaseYear[r] = y}
    BY <1>6 DEF OfYear, Chain
  <2> QED
    BY <1>3, <2>1 DEF OnPath
<1>9. ASSUME NEW i \in L PROVE a[i] \in Ancestry(baseline, a[t])
  <2>1. i \in t .. k
    BY <1>3, <1>4, <1>7
  <2> HIDE DEF t, L
  <2> QED
    BY <1>2, <1>5, <1>7, <2>1, PathInChain
<1> HIDE DEF L, t
<1>10. a[t] \in NearestOf(baseline, active, y)
    BY <1>4, <1>8, <1>9 DEF NearestOf
<1> QED
    BY <1>2, <1>7, <1>10 DEF t, w

\* A step of the query is the rollback of its year, and leaves a registry the next one
\* can start from.
LEMMA SqlStepIsRollback ==
    ASSUME SqlType, NEW y \in Year, SqlRollback(y)
    PROVE  Rollback(y) /\ SqlType'
<1> DEFINE target == Walk(active)[TargetLevel(Walk(active), y)].release
<1>1. RollbackChecks
    BY AssertsAreSound DEF SqlRollback
<1>2. target \in NearestOf(baseline, active, y) /\ target \in Release
    BY <1>1, TargetIsNearest DEF SqlRollback
<1>3. /\ y <= ReleaseYear[active]
      /\ active' = target
      /\ prior' = PriorOf(target)
      /\ status' = [status EXCEPT ![active] = "inactive", ![target] = "active"]
      /\ UNCHANGED <<baseline, files, qualityVars, shown>>
    BY DEF SqlRollback
<1> HIDE DEF target
<1>4. Rollback(y)
    BY <1>1, <1>2, <1>3 DEF Rollback, SqlType
<1>5. SqlType'
    BY <1>2, <1>3 DEF SqlType
<1> QED
    BY <1>4, <1>5

LEMMA SqlTypeNext == SqlType /\ [SqlNext]_vars => SqlType'
<1> SUFFICES ASSUME SqlType, [SqlNext]_vars PROVE SqlType'
    OBVIOUS
<1>1. CASE SqlNext
    BY <1>1, SqlStepIsRollback DEF SqlNext
<1>2. CASE UNCHANGED vars
    BY <1>2 DEF vars, SqlType
<1> QED
    BY <1>1, <1>2

LEMMA SqlTypeCorrect == SqlSpec => []SqlType
<1>1. DamagedInit => SqlType
    BY DEF DamagedInit, SqlType
<1> QED
    BY <1>1, SqlTypeNext, PTL DEF SqlSpec

\* Whatever the registry holds, the asserts over the walked rows accept exactly the
\* chains RollbackChecks describes (macros release_assertions, rollback_release), for
\* any number of releases and any depth of the recursion.
THEOREM AssertsCompleteAlways == SqlSpec => []AssertsAreComplete
    BY SqlTypeCorrect, AssertsComplete, PTL

\* Every step of the query, from any registry, is the rollback ReleaseRegistry states:
\* the pointer goes to the effective version of the year.
THEOREM QueryIsRollback == SqlSpec => SqlRollbackIsRollback
<1>1. SqlType /\ [SqlNext]_vars => [\E y \in Year : Rollback(y)]_vars
  <2> SUFFICES ASSUME SqlType, SqlNext PROVE \E y \in Year : Rollback(y)
    OBVIOUS
  <2> QED
    BY SqlStepIsRollback DEF SqlNext
<1> QED
    BY <1>1, SqlTypeCorrect, PTL DEF SqlSpec, SqlRollbackIsRollback

==============================================================================
