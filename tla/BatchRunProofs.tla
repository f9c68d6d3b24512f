----------------------------- MODULE BatchRunProofs -----------------------------
(***************************************************************************)
(* Theorems about BatchRun for any number of attempts, any contents, any   *)
(* digests and any number of tries.                                        *)
(***************************************************************************)
EXTENDS BatchRun, FiniteSetTheorems, FunctionTheorems, WellFoundedInduction, TLAPS

----------------------------------------------------------------------------
(* Numbers: a set that starts and goes on is everything, and recursion.    *)

\* A set of numbers that is not empty has a least one.
LEMMA LeastNumber ==
    ASSUME NEW T \in SUBSET Nat, T # {}
    PROVE  \E n \in T : \A m \in T : n <= m
<1> DEFINE R == OpToRel(<, Nat)
<1>1. IsWellFoundedOn(R, Nat)
    BY NatLessThanWellFounded, Zenon
<1>2. \A m, n \in Nat : <<m, n>> \in R <=> m < n
    BY DEF OpToRel
<1> HIDE DEF R
<1>3. PICK n \in T : \A m \in T : ~ (<<m, n>> \in R)
    BY <1>1, WFMin
<1>4. ASSUME NEW m \in T PROVE n <= m
  <2>1. m \in Nat /\ n \in Nat /\ ~ (m < n)
    BY <1>2, <1>3
  <2> QED
    BY <2>1
<1> QED
    BY <1>4

\* A set with zero and every successor up to n holds all of 0 .. n.
LEMMA Upward ==
    ASSUME NEW n \in Nat, NEW S, 0 \in S, \A i \in 1 .. n : i - 1 \in S => i \in S
    PROVE  0 .. n \subseteq S
<1> SUFFICES ASSUME (0 .. n) \ S # {} PROVE FALSE
    OBVIOUS
<1>1. PICK m \in (0 .. n) \ S : \A k \in (0 .. n) \ S : m <= k
  <2>1. (0 .. n) \ S \in SUBSET Nat
    OBVIOUS
  <2> QED
    BY <2>1, LeastNumber
<1>2. m \in 1 .. n /\ m - 1 \in 0 .. n /\ ~ (m <= m - 1)
    BY <1>1
<1> QED
    BY <1>1, <1>2

\* g is the function that starts at base and takes step k at k.
Recursion(g, n, base, step) ==
    g = [k \in 0 .. n |-> IF k = 0 THEN base ELSE step[<<k, g[k - 1]>>]]

\* There is such a function, with values where the steps keep them.
LEMMA RecursionExists ==
    ASSUME NEW n \in Nat, NEW V, NEW base \in V, NEW step \in [(1 .. n) \X V -> V]
    PROVE  \E g \in [0 .. n -> V] : Recursion(g, n, base, step)
<1> DEFINE S == {m \in 0 .. n : \E g \in [0 .. m -> V] : Recursion(g, m, base, step)}
<1>1. 0 \in S
  <2> DEFINE g == [k \in 0 .. 0 |-> base]
  <2>1. g \in [0 .. 0 -> V] /\ Recursion(g, 0, base, step)
    BY DEF Recursion
  <2> QED
    BY <2>1
<1>2. ASSUME NEW m \in 1 .. n, m - 1 \in S PROVE m \in S
  <2>1. PICK f \in [0 .. m - 1 -> V] : Recursion(f, m - 1, base, step)
    BY <1>2
  <2> DEFINE g == [k \in 0 .. m |-> IF k = 0 THEN base ELSE step[<<k, f[k - 1]>>]]
  <2>2. \A k \in 0 .. m : k # 0 => k - 1 \in 0 .. m - 1 /\ k \in 1 .. n
    OBVIOUS
  <2>3. \A k \in 0 .. m - 1 : k \in 0 .. m /\ g[k] = f[k]
    BY <2>1 DEF Recursion
  <2>4. \A k \in 0 .. m : k # 0 => step[<<k, f[k - 1]>>] \in V
    BY <2>2
  <2>5. g \in [0 .. m -> V]
    BY <2>4
  <2>6. g = [k \in 0 .. m |-> IF k = 0 THEN base ELSE step[<<k, f[k - 1]>>]]
    OBVIOUS
  <2> HIDE DEF g
  <2>7. \A k \in 0 .. m : k # 0 => step[<<k, f[k - 1]>>] = step[<<k, g[k - 1]>>]
    BY <2>2, <2>3
  <2>8. Recursion(g, m, base, step)
    BY <2>6, <2>7 DEF Recursion
  <2> QED
    BY <2>5, <2>8
<1> HIDE DEF S
<1>3. n \in S
    BY <1>1, <1>2, Upward
<1> QED
    BY <1>3 DEF S

\* Division with remainder, which is the only one.
LEMMA Division ==
    ASSUME NEW a \in Nat, NEW m \in Nat \ {0}
    PROVE  /\ a % m \in 0 .. m - 1 /\ a \div m \in Nat
           /\ a = m * (a \div m) + (a % m)
    OBVIOUS

LEMMA ModuloNat == ASSUME NEW a \in Nat, NEW m \in Nat \ {0} PROVE a % m \in Nat
    BY Division

LEMMA OneRemainder ==
    ASSUME NEW a \in Nat, NEW q \in Nat, NEW r \in Nat, NEW m \in Nat \ {0},
           a = m * q + r, r < m
    PROVE  a % m = r
    OBVIOUS

LEMMA Multiples ==
    ASSUME NEW p \in Nat, NEW q \in Nat, NEW m \in Nat
    PROVE  m * (p + q) = m * p + m * q /\ m * p \in Nat /\ m * q \in Nat
    OBVIOUS

\* A sum may be reduced on the way.
LEMMA ModuloPlus ==
    ASSUME NEW a \in Nat, NEW b \in Nat, NEW m \in Nat \ {0}
    PROVE  ((a % m) + b) % m = (a + b) % m
<1> DEFINE r == a % m
           q == a \div m
           s == (r + b) % m
           p == (r + b) \div m
           mq == m * q
           mp == m * p
           mm == m * (q + p)
<1>1. r \in 0 .. m - 1 /\ q \in Nat /\ a = mq + r
    BY Division
<1> HIDE DEF r, q
<1>2. r + b \in Nat
    BY <1>1
<1>3. s \in 0 .. m - 1 /\ p \in Nat /\ r + b = mp + s
    BY <1>2, Division
<1> HIDE DEF s, p
<1>4. mm = mq + mp /\ mq \in Nat /\ mp \in Nat
    BY <1>1, <1>3, Multiples
<1> HIDE DEF mm, mq, mp
<1>5. a + b = mm + s
    BY <1>1, <1>3, <1>4
<1>6. a + b \in Nat /\ q + p \in Nat /\ s \in Nat /\ s < m
    BY <1>1, <1>3
<1>7. (a + b) % m = s
    BY <1>5, <1>6, OneRemainder DEF mm
<1> QED
    BY <1>7 DEF s, r

\* And so may what is added.
LEMMA ModuloBoth ==
    ASSUME NEW a \in Nat, NEW b \in Nat, NEW m \in Nat \ {0}
    PROVE  ((a % m) + (b % m)) % m = (a + b) % m
<1>1. a % m \in Nat /\ b % m \in Nat
    BY Division
<1>2. ((a % m) + (b % m)) % m = (a + (b % m)) % m
    BY <1>1, ModuloPlus
<1>3. ((b % m) + a) % m = (b + a) % m
    BY ModuloPlus
<1>4. (b % m) + a = a + (b % m) /\ b + a = a + b
    BY <1>1
<1> QED
    BY <1>2, <1>3, <1>4

----------------------------------------------------------------------------
(* Counting at places.                                                     *)

\* The units at the places S, of which there are W[p] at p.
Units(W, S) == {u \in S \X Nat : u[2] \in 1 .. W[u[1]]}

LEMMA UnitsNone == ASSUME NEW W PROVE IsFiniteSet(Units(W, {})) /\ Cardinality(Units(W, {})) = 0
<1>1. Units(W, {}) = {}
    BY DEF Units
<1> QED
    BY <1>1, FS_EmptySet

LEMMA UnitsOne ==
    ASSUME NEW W, NEW p, W[p] \in Nat
    PROVE  IsFiniteSet(Units(W, {p})) /\ Cardinality(Units(W, {p})) = W[p]
<1> DEFINE n == W[p]
           A == {p}
           B == 1 .. n
<1>1. Units(W, {p}) = A \X B
    BY DEF Units
<1>2. 1 \in Int /\ n \in Int /\ n >= 0
    OBVIOUS
<1> HIDE DEF n
<1>3. IsFiniteSet(B) /\ Cardinality(B) = IF 1 > n THEN 0 ELSE n - 1 + 1
    BY <1>2, FS_Interval
<1>4. IsFiniteSet(A) /\ Cardinality(A) = 1
    BY FS_Singleton
<1> HIDE DEF A, B
<1>5. Cardinality(B) = n
    BY <1>2, <1>3
<1>6. IsFiniteSet(A \X B) /\ Cardinality(A \X B) = Cardinality(A) * Cardinality(B)
    BY <1>3, <1>4, FS_Product
<1>7. 1 * n = n
    BY <1>2
<1>8. Cardinality(A \X B) = n
    BY <1>4, <1>5, <1>6, <1>7
<1> QED
    BY <1>1, <1>6, <1>8 DEF n

LEMMA UnitsBoth ==
    ASSUME NEW W, NEW S, NEW T, S \cap T = {},
           IsFiniteSet(Units(W, S)), IsFiniteSet(Units(W, T))
    PROVE  /\ IsFiniteSet(Units(W, S \cup T))
           /\ Cardinality(Units(W, S \cup T)) = Cardinality(Units(W, S)) + Cardinality(Units(W, T))
<1>1. Units(W, S \cup T) = Units(W, S) \cup Units(W, T)
    BY DEF Units
<1>2. Units(W, S) \cap Units(W, T) = {}
    BY DEF Units
<1>3. Cardinality({}) = 0
    BY FS_EmptySet
<1> DEFINE A == Units(W, S)
           B == Units(W, T)
           C == A \cap B
<1>5. C = {} /\ IsFiniteSet(A) /\ IsFiniteSet(B)
    BY <1>2
<1>6. /\ IsFiniteSet(A \cup B)
      /\ Cardinality(A \cup B) = Cardinality(A) + Cardinality(B) - Cardinality(C)
  <2> HIDE DEF A, B
  <2> QED
    BY <1>5, FS_Union
<1> HIDE DEF C
<1>7. Cardinality(C) = 0
    BY <1>3, <1>5
<1>8. Cardinality(A) \in Nat /\ Cardinality(B) \in Nat
    BY <1>5, FS_CardinalityType
<1>9. Units(W, S \cup T) = A \cup B
    BY <1>1
<1> HIDE DEF A, B
<1>10. Cardinality(A \cup B) = Cardinality(A) + Cardinality(B)
    BY <1>6, <1>7, <1>8
<1> QED
    BY <1>6, <1>9, <1>10 DEF A, B

----------------------------------------------------------------------------
(* What a fingerprint is: the number of the rows, and the sum of their     *)
(* digests up to the modulus.                                              *)

\* The identity of a part counts its rows, and the units of their digests.
LEMMA IdentityCounts ==
    ASSUME NEW part \in Seq(Row), NEW k, NEW W,
           \A i \in DOMAIN part : W[<<k, i>>] = Digest[part[i]]
    PROVE  /\ IsFiniteSet(Units(W, {k} \X DOMAIN part))
           /\ PartIdentity(part) =
                [rows |-> Len(part),
                 sum |-> Cardinality(Units(W, {k} \X DOMAIN part)) % Modulus]
<1> DEFINE n == Len(part)
           IsSum(f) == f = [i \in 0 .. n |->
                              IF i = 0 THEN 0 ELSE (f[i - 1] + Digest[part[i]]) % Modulus]
           s == CHOOSE f : IsSum(f)
           step == [x \in (1 .. n) \X Nat |-> (x[2] + Digest[part[x[1]]]) % Modulus]
<1>1. n \in Nat /\ DOMAIN part = 1 .. n /\ Modulus \in Nat \ {0}
    BY DigestAssumption
<1>2. \A i \in 1 .. n : Digest[part[i]] \in Nat
    BY DigestAssumption
<1>3. \E f : IsSum(f)
  <2>1. \A x \in (1 .. n) \X Nat : (x[2] + Digest[part[x[1]]]) % Modulus \in Nat
    <3> SUFFICES ASSUME NEW i \in 1 .. n, NEW y \in Nat
                 PROVE  (y + Digest[part[i]]) % Modulus \in Nat
      OBVIOUS
    <3>1. y + Digest[part[i]] \in Nat
      BY <1>2
    <3> QED
      BY <1>1, <3>1, ModuloNat
  <2>2. step \in [(1 .. n) \X Nat -> Nat]
    BY <2>1
  <2>3. \A i \in 1 .. n, y \in Nat : step[<<i, y>>] = (y + Digest[part[i]]) % Modulus
    OBVIOUS
  <2> HIDE DEF step, n
  <2>4. PICK g \in [0 .. n -> Nat] : Recursion(g, n, 0, step)
    BY <1>1, <2>2, RecursionExists
  <2>5. \A i \in 0 .. n : i # 0 => i \in 1 .. n /\ i - 1 \in 0 .. n
    BY <1>1
  <2>6. \A i \in 0 .. n : i # 0 => step[<<i, g[i - 1]>>] = (g[i - 1] + Digest[part[i]]) % Modulus
    BY <2>3, <2>4, <2>5
  <2>7. IsSum(g)
    BY <2>4, <2>6 DEF Recursion
  <2> QED
    BY <2>7
<1>4. PartIdentity(part) = [rows |-> n, sum |-> s[n]]
    BY DEF PartIdentity
<1> DEFINE Counted(i) ==
        /\ IsFiniteSet(Units(W, {k} \X (1 .. i)))
        /\ s[i] = Cardinality(Units(W, {k} \X (1 .. i))) % Modulus
<1>5. IsSum(s)
    BY <1>3
<1>6. s[0] = 0 /\ \A i \in 1 .. n : s[i] = (s[i - 1] + Digest[part[i]]) % Modulus
  <2> HIDE DEF s, n
  <2>1. 0 \in 0 .. n /\ \A i \in 1 .. n : i \in 0 .. n /\ i # 0
    BY <1>1
  <2> QED
    BY <1>5, <2>1
<1> HIDE DEF s, n, IsSum
<1>7. Counted(0)
  <2>1. {k} \X (1 .. 0) = {}
    OBVIOUS
  <2>2. 0 % Modulus = 0
    BY <1>1
  <2> QED
    BY <1>6, <2>1, <2>2, UnitsNone
<1>8. ASSUME NEW i \in 1 .. n, Counted(i - 1) PROVE Counted(i)
  <2> DEFINE S == {k} \X (1 .. i - 1)
             p == <<k, i>>
             c == Cardinality(Units(W, S))
             d == Digest[part[i]]
  <2>1. {k} \X (1 .. i) = S \cup {p} /\ S \cap {p} = {}
    BY <1>1
  <2>2. W[p] = d /\ d \in Nat
    BY <1>1, <1>2
  <2>3. c \in Nat /\ IsFiniteSet(Units(W, S))
    BY <1>8, FS_CardinalityType
  <2>4. s[i] = ((c % Modulus) + d) % Modulus
    BY <1>6, <1>8
  <2> HIDE DEF S, p, c, d
  <2>5. IsFiniteSet(Units(W, {p})) /\ Cardinality(Units(W, {p})) = d
    BY <2>2, UnitsOne
  <2>6. IsFiniteSet(Units(W, S \cup {p})) /\ Cardinality(Units(W, S \cup {p})) = c + d
    BY <2>1, <2>3, <2>5, UnitsBoth DEF c
  <2>7. s[i] = (c + d) % Modulus
    BY <1>1, <2>2, <2>3, <2>4, ModuloPlus
  <2> QED
    BY <2>1, <2>6, <2>7
<1>9. Counted(n)
  <2> DEFINE T == {i \in 0 .. n : Counted(i)}
  <2> HIDE DEF Counted
  <2>1. 0 \in T
    BY <1>1, <1>7
  <2>2. \A i \in 1 .. n : i - 1 \in T => i \in T
    BY <1>1, <1>8
  <2> HIDE DEF T
  <2>3. n \in T
    BY <1>1, <2>1, <2>2, Upward
  <2> QED
    BY <2>3 DEF T
<1> QED
    BY <1>1, <1>4, <1>9 DEF n

\* The digest of the row at each place.
Weights(parts) == [p \in Places(parts) |-> Digest[parts[p[1]][p[2]]]]

UnitsOf(parts) == Units(Weights(parts), Places(parts))

LEMMA FingerprintCounts ==
    ASSUME NEW parts \in Seq(Seq(Row))
    PROVE  /\ IsFiniteSet(Places(parts)) /\ IsFiniteSet(UnitsOf(parts))
           /\ Fingerprint(parts) = [rows |-> Cardinality(Places(parts)),
                                    sum |-> Cardinality(UnitsOf(parts)) % Modulus]
<1> DEFINE n == Len(parts)
           W == Weights(parts)
           Id(k) == PartIdentity(parts[k])
           IsTotal(f) == f = [k \in 0 .. n |->
                                IF k = 0 THEN [rows |-> 0, sum |-> 0]
                                ELSE [rows |-> f[k - 1].rows + Id(k).rows,
                                      sum  |-> (f[k - 1].sum + Id(k).sum) % Modulus]]
           t == CHOOSE f : IsTotal(f)
           V == [rows : Nat, sum : Nat]
           step == [x \in (1 .. n) \X V |->
                       [rows |-> x[2].rows + Id(x[1]).rows,
                        sum  |-> (x[2].sum + Id(x[1]).sum) % Modulus]]
           Slice(k) == {k} \X DOMAIN parts[k]
           Upto(k) == {p \in Places(parts) : p[1] <= k}
<1>1. n \in Nat /\ DOMAIN parts = 1 .. n /\ Modulus \in Nat \ {0}
    BY DigestAssumption
<1>2. ASSUME NEW k \in 1 .. n
      PROVE  /\ IsFiniteSet(Slice(k)) /\ Cardinality(Slice(k)) = Id(k).rows
             /\ IsFiniteSet(Units(W, Slice(k)))
             /\ Id(k).rows \in Nat /\ Id(k).sum = Cardinality(Units(W, Slice(k))) % Modulus
  <2> DEFINE part == parts[k]
  <2>1. part \in Seq(Row)
    BY <1>1
  <2>2. \A i \in DOMAIN part : W[<<k, i>>] = Digest[part[i]]
    BY <1>1 DEF Weights, Places
  <2> HIDE DEF part, W
  <2>3. /\ IsFiniteSet(Units(W, {k} \X DOMAIN part))
        /\ PartIdentity(part) =
             [rows |-> Len(part), sum |-> Cardinality(Units(W, {k} \X DOMAIN part)) % Modulus]
    BY <2>1, <2>2, IdentityCounts
  <2>4. IsFiniteSet(Slice(k)) /\ Cardinality(Slice(k)) = Len(part)
    <3> DEFINE A == {k}
               B == 1 .. Len(part)
    <3>1. Slice(k) = A \X B /\ Len(part) \in Nat /\ 1 \in Int /\ Len(part) \in Int
      BY <2>1 DEF part
    <3>2. IsFiniteSet(B) /\ Cardinality(B) = IF 1 > Len(part) THEN 0 ELSE Len(part) - 1 + 1
      BY <3>1, FS_Interval
    <3>3. IsFiniteSet(A) /\ Cardinality(A) = 1
      BY FS_Singleton
    <3> HIDE DEF A, B
    <3>4. Cardinality(B) = Len(part) /\ 1 * Len(part) = Len(part)
      BY <3>1, <3>2
    <3>5. IsFiniteSet(A \X B) /\ Cardinality(A \X B) = Cardinality(A) * Cardinality(B)
      BY <3>2, <3>3, FS_Product
    <3>6. Cardinality(A \X B) = Len(part)
      BY <3>3, <3>4, <3>5
    <3> QED
      BY <3>1, <3>5, <3>6
  <2>5. Len(part) \in Nat
    BY <2>1
  <2>6. Slice(k) = {k} \X DOMAIN part /\ Id(k) = PartIdentity(part)
    BY DEF part
  <2> HIDE DEF Slice, Id
  <2> QED
    BY <2>3, <2>4, <2>5, <2>6
<1>3. Fingerprint(parts) = t[n]
    BY DEF Fingerprint
<1> HIDE DEF W
<1>4. \A k \in 1 .. n : Id(k).sum \in Nat
  <2> SUFFICES ASSUME NEW k \in 1 .. n PROVE Id(k).sum \in Nat
    OBVIOUS
  <2> DEFINE c == Cardinality(Units(W, Slice(k)))
  <2>1. c \in Nat /\ Id(k).sum = c % Modulus
    BY <1>2, FS_CardinalityType
  <2> HIDE DEF c, Id
  <2> QED
    BY <1>1, <2>1, ModuloNat
<1> HIDE DEF Id
<1>5. \E f : IsTotal(f)
  <2>1. ASSUME NEW k \in 1 .. n, NEW y \in V
        PROVE  [rows |-> y.rows + Id(k).rows, sum |-> (y.sum + Id(k).sum) % Modulus] \in V
    <3>1. Id(k).rows \in Nat /\ Id(k).sum \in Nat
      BY <1>2, <1>4
    <3>2. y.sum \in Nat /\ y.rows \in Nat
      BY <2>1
    <3>3. y.sum + Id(k).sum \in Nat /\ y.rows + Id(k).rows \in Nat
      BY <3>1, <3>2
    <3>4. (y.sum + Id(k).sum) % Modulus \in Nat
      BY <1>1, <3>3, ModuloNat
    <3> QED
      BY <3>3, <3>4
  <2>2. step \in [(1 .. n) \X V -> V]
    <3>1. ASSUME NEW x \in (1 .. n) \X V PROVE step[x] \in V
      <4>1. x[1] \in 1 .. n /\ x[2] \in V
        OBVIOUS
      <4> HIDE DEF V, n
      <4> QED
        BY <2>1, <4>1
    <3> QED
      BY <3>1
  <2>3. \A k \in 1 .. n, y \in V :
            step[<<k, y>>] = [rows |-> y.rows + Id(k).rows, sum |-> (y.sum + Id(k).sum) % Modulus]
    <3> HIDE DEF V, n
    <3> QED
      OBVIOUS
  <2>4. [rows |-> 0, sum |-> 0] \in V
    OBVIOUS
  <2> HIDE DEF step, n, V
  <2>5. PICK g \in [0 .. n -> V] : Recursion(g, n, [rows |-> 0, sum |-> 0], step)
    BY <1>1, <2>2, <2>4, RecursionExists
  <2>6. \A k \in 0 .. n : k # 0 => k \in 1 .. n /\ k - 1 \in 0 .. n
    BY <1>1
  <2>7. \A k \in 0 .. n : k # 0 =>
            step[<<k, g[k - 1]>>] = [rows |-> g[k - 1].rows + Id(k).rows,
                                     sum |-> (g[k - 1].sum + Id(k).sum) % Modulus]
    BY <2>3, <2>5, <2>6
  <2>8. IsTotal(g)
    BY <2>5, <2>7 DEF Recursion
  <2> QED
    BY <2>8
<1>6. IsTotal(t)
    BY <1>5
<1>7. /\ t[0] = [rows |-> 0, sum |-> 0]
      /\ \A k \in 1 .. n : t[k] = [rows |-> t[k - 1].rows + Id(k).rows,
                                   sum  |-> (t[k - 1].sum + Id(k).sum) % Modulus]
  <2> HIDE DEF t, n
  <2>1. 0 \in 0 .. n /\ \A k \in 1 .. n : k \in 0 .. n /\ k # 0
    BY <1>1
  <2> QED
    BY <1>6, <2>1
<1> HIDE DEF t, IsTotal, V, step
<1>8. /\ Upto(0) = {} /\ Upto(n) = Places(parts)
      /\ \A k \in 1 .. n : Upto(k) = Upto(k - 1) \cup Slice(k) /\ Upto(k - 1) \cap Slice(k) = {}
  <2>1. \A p \in Places(parts) : p[1] \in 1 .. n
    BY <1>1 DEF Places
  <2>2. \A k \in 1 .. n : \A p : p \in Slice(k) <=> p \in Places(parts) /\ p[1] = k
    BY <1>1 DEF Places
  <2> HIDE DEF Slice
  <2>3. Upto(0) = {} /\ Upto(n) = Places(parts)
    BY <1>1, <2>1
  <2>4. ASSUME NEW k \in 1 .. n
        PROVE  Upto(k) = Upto(k - 1) \cup Slice(k) /\ Upto(k - 1) \cap Slice(k) = {}
    <3>1. \A p \in Places(parts) : p[1] <= k <=> p[1] <= k - 1 \/ p[1] = k
      BY <1>1, <2>1
    <3>2. \A p \in Places(parts) : ~ (p[1] <= k - 1 /\ p[1] = k)
      BY <1>1, <2>1
    <3> QED
      BY <2>2, <3>1, <3>2
  <2> QED
    BY <2>3, <2>4
<1> HIDE DEF Upto, Slice
<1> DEFINE Counted(k) ==
        /\ IsFiniteSet(Upto(k)) /\ IsFiniteSet(Units(W, Upto(k)))
        /\ t[k] = [rows |-> Cardinality(Upto(k)), sum |-> Cardinality(Units(W, Upto(k))) % Modulus]
<1>9. Counted(0)
  <2>1. 0 % Modulus = 0
    BY <1>1
  <2>2. IsFiniteSet(Units(W, {})) /\ Cardinality(Units(W, {})) = 0
    BY UnitsNone
  <2>3. t[0] = [rows |-> Cardinality({}), sum |-> Cardinality(Units(W, {})) % Modulus]
    BY <1>7, <2>1, <2>2, FS_EmptySet
  <2> QED
    BY <1>8, <2>2, <2>3, FS_EmptySet
<1>10. ASSUME NEW k \in 1 .. n, Counted(k - 1) PROVE Counted(k)
  <2> DEFINE S == Upto(k - 1)
             T == Slice(k)
             c == Cardinality(Units(W, S))
             d == Cardinality(Units(W, T))
  <2>1. Upto(k) = S \cup T /\ S \cap T = {}
    BY <1>8
  <2>2. IsFiniteSet(S) /\ IsFiniteSet(T) /\ IsFiniteSet(Units(W, S)) /\ IsFiniteSet(Units(W, T))
    BY <1>2, <1>10
  <2>3. t[k] = [rows |-> Cardinality(S) + Cardinality(T),
                sum  |-> ((c % Modulus) + (d % Modulus)) % Modulus]
    <3>1. t[k - 1].rows = Cardinality(S) /\ t[k - 1].sum = c % Modulus
      BY <1>10
    <3>2. Id(k).rows = Cardinality(T) /\ Id(k).sum = d % Modulus
      BY <1>2
    <3>3. t[k] = [rows |-> t[k - 1].rows + Id(k).rows,
                  sum  |-> (t[k - 1].sum + Id(k).sum) % Modulus]
      BY <1>7
    <3> QED
      BY <3>1, <3>2, <3>3
  <2> HIDE DEF S, T
  <2>4. c \in Nat /\ d \in Nat /\ Cardinality(S) \in Nat /\ Cardinality(T) \in Nat
    BY <2>2, FS_CardinalityType
  <2>5. IsFiniteSet(Units(W, S \cup T)) /\ Cardinality(Units(W, S \cup T)) = c + d
    BY <2>1, <2>2, UnitsBoth
  <2> HIDE DEF c, d
  <2>6. ((c % Modulus) + (d % Modulus)) % Modulus = (c + d) % Modulus
    BY <1>1, <2>4, ModuloBoth
  <2>7. IsFiniteSet(S \cup T) /\ Cardinality(S \cup T) = Cardinality(S) + Cardinality(T)
    <3> DEFINE E == S \cap T
    <3>1. /\ IsFiniteSet(S \cup T)
          /\ Cardinality(S \cup T) = Cardinality(S) + Cardinality(T) - Cardinality(E)
      BY <2>2, FS_Union
    <3>2. E = {}
      BY <2>1
    <3> HIDE DEF E
    <3>3. Cardinality(E) = 0
      BY <3>2, FS_EmptySet
    <3> QED
      BY <2>4, <3>1, <3>3
  <2> QED
    BY <2>1, <2>3, <2>5, <2>6, <2>7
<1>11. Counted(n)
  <2> DEFINE Q == {k \in 0 .. n : Counted(k)}
  <2> HIDE DEF Counted, n
  <2>1. 0 \in Q
    BY <1>1, <1>9
  <2>2. \A k \in 1 .. n : k - 1 \in Q => k \in Q
    BY <1>1, <1>10
  <2> HIDE DEF Q
  <2>3. n \in Nat /\ n \in 0 .. n
    BY <1>1
  <2>4. 0 .. n \subseteq Q
    BY <2>1, <2>2, <2>3, Upward
  <2> QED
    BY <2>3, <2>4 DEF Q
<1> HIDE DEF n
<1> QED
    BY <1>3, <1>8, <1>11 DEF UnitsOf, W

----------------------------------------------------------------------------
(* The order of the rows and the cut into parts do not matter.             *)

\* h pairs the places of two snapshots up, row by row.
Pairs(h, parts, other) ==
    /\ h \in Bijection(Places(parts), Places(other))
    /\ \A p \in Places(parts) : parts[p[1]][p[2]] = other[h[p][1]][h[p][2]]

\* Two snapshots whose places pair up have the same fingerprint.
LEMMA PairedPrint ==
    ASSUME NEW parts \in Seq(Seq(Row)), NEW other \in Seq(Seq(Row)), NEW h, Pairs(h, parts, other)
    PROVE  Fingerprint(parts) = Fingerprint(other)
<1> DEFINE P == Places(parts)
           O == Places(other)
           V == Weights(parts)
           W == Weights(other)
           f == [u \in Units(V, P) |-> <<h[u[1]], u[2]>>]
<1> USE DEF Pairs
<1>1. /\ h \in [P -> O] /\ \A p, q \in P : h[p] = h[q] => p = q
      /\ \A o \in O : \E p \in P : h[p] = o
    BY Fun_BijectionProperties
<1>2. \A p \in P : V[p] = W[h[p]]
    BY <1>1 DEF Weights
<1> HIDE DEF P, O, V, W
<1>3. f \in [Units(V, P) -> Units(W, O)]
    BY <1>1, <1>2 DEF Units
<1>4. \A u, v \in Units(V, P) : f[u] = f[v] => u = v
    BY <1>1 DEF Units
<1>5. ASSUME NEW w \in Units(W, O) PROVE \E u \in Units(V, P) : f[u] = w
  <2>1. PICK p \in P : h[p] = w[1]
    BY <1>1 DEF Units
  <2>2. <<p, w[2]>> \in Units(V, P) /\ w = <<w[1], w[2]>>
    BY <1>2, <2>1 DEF Units
  <2>3. f[<<p, w[2]>>] = w
    BY <2>1, <2>2
  <2> QED
    BY <2>2, <2>3
<1> HIDE DEF f
<1>6. f \in Bijection(Units(V, P), Units(W, O))
    BY <1>3, <1>4, <1>5, Fun_IsBij
<1>7. /\ IsFiniteSet(P) /\ IsFiniteSet(Units(V, P))
      /\ Fingerprint(parts) = [rows |-> Cardinality(P), sum |-> Cardinality(Units(V, P)) % Modulus]
      /\ Fingerprint(other) = [rows |-> Cardinality(O), sum |-> Cardinality(Units(W, O)) % Modulus]
    BY FingerprintCounts DEF UnitsOf, P, O, V, W
<1>8. Cardinality(P) = Cardinality(O)
  <2>1. ExistsBijection(P, O)
    BY DEF ExistsBijection, P, O
  <2> QED
    BY <1>7, <2>1, FS_Bijection
<1>9. Cardinality(Units(V, P)) = Cardinality(Units(W, O))
  <2>1. ExistsBijection(Units(V, P), Units(W, O))
    BY <1>6 DEF ExistsBijection
  <2> QED
    BY <1>7, <2>1, FS_Bijection
<1> QED
    BY <1>7, <1>8, <1>9

\* Where a row is.
At(parts, r) == {p \in Places(parts) : parts[p[1]][p[2]] = r}

\* As many of each row give the same fingerprint.
LEMMA ContentPrint ==
    ASSUME NEW parts \in Seq(Seq(Row)), NEW other \in Seq(Seq(Row)),
           ContentOf(parts) = ContentOf(other)
    PROVE  Fingerprint(parts) = Fingerprint(other)
<1> DEFINE B(r) == CHOOSE b : b \in Bijection(At(parts, r), At(other, r))
           RowAt(p) == parts[p[1]][p[2]]
           h == [p \in Places(parts) |-> B(RowAt(p))[p]]
<1>1. ASSUME NEW r \in Row
      PROVE  B(r) \in Bijection(At(parts, r), At(other, r))
  <2>1. IsFiniteSet(Places(parts)) /\ IsFiniteSet(Places(other))
    BY FingerprintCounts
  <2>2. At(parts, r) \in SUBSET Places(parts) /\ At(other, r) \in SUBSET Places(other)
    BY DEF At
  <2>3. IsFiniteSet(At(parts, r)) /\ IsFiniteSet(At(other, r))
    BY <2>1, <2>2, FS_Subset
  <2>4. \A q : ContentOf(q)[r] = Cardinality(At(q, r))
    BY DEF ContentOf, At
  <2>5. Cardinality(At(parts, r)) = Cardinality(At(other, r))
    BY <2>4
  <2>6. ExistsBijection(At(parts, r), At(other, r))
    BY <2>3, <2>5, FS_SameCardinalityBij
  <2> QED
    BY <2>6 DEF ExistsBijection
<1>2. /\ \A p \in Places(parts) : RowAt(p) \in Row /\ p \in At(parts, RowAt(p))
      /\ \A p \in Places(other) : other[p[1]][p[2]] \in Row /\ p \in At(other, other[p[1]][p[2]])
    BY DEF Places, At
<1> HIDE DEF B
<1>3. \A r \in Row :
        /\ B(r) \in [At(parts, r) -> At(other, r)]
        /\ \A p, q \in At(parts, r) : B(r)[p] = B(r)[q] => p = q
        /\ \A o \in At(other, r) : \E p \in At(parts, r) : B(r)[p] = o
    BY <1>1, Fun_BijectionProperties
<1>4. \A p \in Places(parts) : h[p] \in At(other, RowAt(p))
    BY <1>2, <1>3
<1>5. \A r : \A p \in At(other, r) : p \in Places(other) /\ other[p[1]][p[2]] = r
    BY DEF At
<1>6. \A r : \A p \in At(parts, r) : p \in Places(parts) /\ RowAt(p) = r
    BY DEF At
<1>7. h \in [Places(parts) -> Places(other)]
    BY <1>4, <1>5
<1>8. ASSUME NEW p \in Places(parts), NEW q \in Places(parts), h[p] = h[q] PROVE p = q
  <2>1. RowAt(p) = RowAt(q)
    BY <1>4, <1>5, <1>8
  <2> HIDE DEF RowAt
  <2>2. B(RowAt(p))[p] = B(RowAt(p))[q]
    BY <1>8, <2>1
  <2> QED
    BY <1>2, <1>3, <2>1, <2>2
<1>9. ASSUME NEW o \in Places(other) PROVE \E p \in Places(parts) : h[p] = o
  <2> DEFINE r == other[o[1]][o[2]]
  <2>1. r \in Row /\ o \in At(other, r)
    BY <1>2
  <2> HIDE DEF r
  <2>2. PICK p \in At(parts, r) : B(r)[p] = o
    BY <1>3, <2>1
  <2>3. p \in Places(parts) /\ RowAt(p) = r
    BY <1>6
  <2> HIDE DEF RowAt
  <2>4. h[p] = o
    BY <2>2, <2>3
  <2> QED
    BY <2>3, <2>4
<1>10. \A p \in Places(parts) : parts[p[1]][p[2]] = other[h[p][1]][h[p][2]]
    BY <1>4, <1>5
<1> HIDE DEF h
<1>11. h \in Bijection(Places(parts), Places(other))
    BY <1>7, <1>8, <1>9, Fun_IsBij
<1>12. Pairs(h, parts, other)
    BY <1>10, <1>11 DEF Pairs
<1> QED
    BY <1>12, PairedPrint

\* Parts whose places stand for the positions of s, row by row, have its fingerprint.
LEMMA ArrangedPrint ==
    ASSUME NEW s \in Seq(Row), NEW parts \in Seq(Seq(Row)),
           NEW at \in [Places(parts) -> 1 .. Len(s)],
           \A p, q \in Places(parts) : at[p] = at[q] => p = q,
           \A i \in 1 .. Len(s) : \E p \in Places(parts) : at[p] = i,
           \A p \in Places(parts) : parts[p[1]][p[2]] = s[at[p]],
           NEW whole \in Seq(Seq(Row)), DOMAIN whole = {1}, whole[1] = s
    PROVE  Fingerprint(parts) = Fingerprint(whole)
<1> DEFINE D == 1 .. Len(s)
           P == Places(parts)
           O == Places(whole)
           h == [p \in P |-> <<1, at[p]>>]
<1>1. whole[1] = s /\ DOMAIN whole = {1} /\ DOMAIN s = D
    OBVIOUS
<1> HIDE DEF D, P
<1>2. O = {1} \X D
    BY <1>1 DEF Places
<1> HIDE DEF O
<1>3. \A i \in D : <<1, i>> \in O
    BY <1>2
<1>4. \A x \in O : \E i \in D : x = <<1, i>>
    BY <1>2
<1>5. at \in [P -> D] /\ \A i \in D : \E p \in P : at[p] = i
    BY DEF P, D
<1>6. h \in [P -> O]
    BY <1>3, <1>5
<1>7. \A x, y \in P : h[x] = h[y] => x = y
    BY DEF P
<1>8. \A x \in O : \E y \in P : h[y] = x
    BY <1>4, <1>5
<1>9. ASSUME NEW p \in P PROVE parts[p[1]][p[2]] = whole[h[p][1]][h[p][2]]
  <2>1. h[p][1] = 1 /\ h[p][2] = at[p]
    OBVIOUS
  <2>2. parts[p[1]][p[2]] = s[at[p]]
    BY DEF P
  <2> HIDE DEF h
  <2> QED
    BY <1>1, <2>1, <2>2
<1> HIDE DEF h
<1>10. h \in Bijection(P, O)
    BY <1>6, <1>7, <1>8, Fun_IsBij
<1>11. h \in Bijection(Places(parts), Places(whole))
    BY <1>10 DEF P, O
<1>12. \A p \in Places(parts) : parts[p[1]][p[2]] = whole[h[p][1]][h[p][2]]
    BY <1>9 DEF P
<1>13. Pairs(h, parts, whole)
    BY <1>11, <1>12 DEF Pairs
<1> QED
    BY <1>13, PairedPrint

\* A permutation of a finite set of positions meets each.
LEMMA OrdersAll ==
    ASSUME NEW n \in Nat, NEW q \in [1 .. n -> 1 .. n], IsInjective(q)
    PROVE  /\ \A i, j \in 1 .. n : q[i] = q[j] => i = j
           /\ \A j \in 1 .. n : \E i \in 1 .. n : q[i] = j
<1> DEFINE D == 1 .. n
<1>1. \A i, j \in D : q[i] = q[j] => i = j
    BY DEF IsInjective
<1>2. IsFiniteSet(D)
    BY FS_Interval
<1>3. q \in [D -> D]
    OBVIOUS
<1> HIDE DEF D
<1>4. q \in Injection(D, D)
    BY <1>1, <1>3, Fun_IsInj
<1>5. q \in Surjection(D, D)
    BY <1>2, <1>4, FS_Injection
<1>6. \A j \in D : \E i \in D : q[i] = j
    BY <1>5, Fun_SurjectionProperties
<1> QED
    BY <1>1, <1>6 DEF D

\* An export of a snapshot has the fingerprint of the snapshot.
LEMMA ExportPrint ==
    ASSUME NEW s \in Snapshot, NEW parts \in Exports(s)
    PROVE  /\ parts \in Seq(Seq(Row)) /\ parts # <<>>
           /\ Fingerprint(parts) = Fingerprint(<<s>>)
<1> DEFINE n == Len(s)
           D == 1 .. n
<1>1. /\ s \in Seq(Row) /\ n \in Nat /\ DOMAIN s = D
      /\ <<s>> \in Seq(Seq(Row)) /\ DOMAIN <<s>> = {1} /\ <<s>>[1] = s
    BY DigestAssumption
<1>2. PICK o \in Orders(s) :
        \/ parts = <<o>>
        \/ \E m \in 1 .. n - 1 : parts = <<SubSeq(o, 1, m), SubSeq(o, m + 1, Len(o))>>
    BY DEF Exports
<1>3. PICK q \in [D -> D] : IsInjective(q) /\ o = [i \in D |-> s[q[i]]]
    BY <1>1 DEF Orders
<1>4. /\ o \in Seq(Row) /\ Len(o) = n /\ DOMAIN o = D
      /\ \A i \in D : o[i] = s[q[i]]
  <2>1. \A i \in D : s[q[i]] \in Row
    BY <1>1
  <2>2. o \in [D -> Row]
    BY <1>3, <2>1
  <2>3. o \in Seq(Row) /\ Len(o) = n
    BY <1>1, <2>2
  <2> QED
    BY <1>3, <2>2, <2>3
<1>5. /\ \A i, j \in D : q[i] = q[j] => i = j
      /\ \A j \in D : \E i \in D : q[i] = j
    BY <1>1, <1>3, OrdersAll
<1>6. CASE parts = <<o>>
  <2> DEFINE at == [p \in Places(parts) |-> q[p[2]]]
  <2>1. parts \in Seq(Seq(Row)) /\ parts # <<>> /\ parts[1] = o /\ DOMAIN parts = {1}
    BY <1>4, <1>6
  <2>2. DOMAIN o = D
    BY <1>4
  <2> HIDE DEF D
  <2>3. Places(parts) = {1} \X D
    BY <2>1, <2>2 DEF Places
  <2>4. at \in [Places(parts) -> D]
    BY <2>3
  <2>5. \A x, y \in Places(parts) : at[x] = at[y] => x = y
    BY <1>5, <2>3
  <2>6. \A j \in D : \E p \in Places(parts) : at[p] = j
    <3> SUFFICES ASSUME NEW j \in D PROVE \E p \in Places(parts) : at[p] = j
      OBVIOUS
    <3>1. PICK i \in D : q[i] = j
      BY <1>5
    <3>2. <<1, i>> \in Places(parts) /\ at[<<1, i>>] = j
      BY <2>3, <3>1
    <3> QED
      BY <3>2
  <2>7. \A p \in Places(parts) : parts[p[1]][p[2]] = s[at[p]]
    BY <1>4, <2>1, <2>3
  <2> HIDE DEF at
  <2>8. Fingerprint(parts) = Fingerprint(<<s>>)
    BY <1>1, <2>1, <2>4, <2>5, <2>6, <2>7, ArrangedPrint DEF D
  <2> QED
    BY <2>1, <2>8
<1>7. ASSUME NEW m \in 1 .. n - 1, parts = <<SubSeq(o, 1, m), SubSeq(o, m + 1, n)>>
      PROVE  parts \in Seq(Seq(Row)) /\ parts # <<>> /\ Fingerprint(parts) = Fingerprint(<<s>>)
  <2> DEFINE Place(p) == IF p[1] = 1 THEN p[2] ELSE m + p[2]
             at == [p \in Places(parts) |-> q[Place(p)]]
             low == SubSeq(o, 1, m)
             high == SubSeq(o, m + 1, n)
  <2>1. m \in Nat /\ n \in Nat /\ 1 <= m /\ m <= n - 1
    BY <1>1
  <2>2. low \in Seq(Row) /\ DOMAIN low = 1 .. m /\ \A i \in 1 .. m : low[i] = o[i]
    BY <1>4, <2>1
  <2>3. high \in Seq(Row) /\ DOMAIN high = 1 .. n - m /\ \A i \in 1 .. n - m : high[i] = o[m + i]
    BY <1>4, <2>1
  <2> HIDE DEF low, high
  <2>4. /\ parts \in Seq(Seq(Row)) /\ parts # <<>> /\ DOMAIN parts = {1, 2}
        /\ parts[1] = low /\ parts[2] = high
    <3> DEFINE both == <<low, high>>
    <3>1. parts = both
      BY <1>7 DEF low, high
    <3>2. both \in Seq(Seq(Row)) /\ both # <<>> /\ DOMAIN both = {1, 2}
      BY <2>2, <2>3
    <3>3. both[1] = low /\ both[2] = high
      OBVIOUS
    <3> HIDE DEF both
    <3> QED
      BY <3>1, <3>2, <3>3
  <2>5. Places(parts) = ({1} \X (1 .. m)) \cup ({2} \X (1 .. n - m))
    <3> DEFINE A == 1 .. m
               B == 1 .. n - m
    <3>1. DOMAIN parts[1] = A /\ DOMAIN parts[2] = B
      BY <2>2, <2>3, <2>4
    <3> HIDE DEF A, B
    <3>2. Places(parts) = ({1} \X A) \cup ({2} \X B)
      BY <2>4, <3>1 DEF Places
    <3> QED
      BY <3>2 DEF A, B
  <2>6. \A p \in Places(parts) : Place(p) \in D
    BY <2>1, <2>5
  <2>7. \A x, y \in Places(parts) : Place(x) = Place(y) => x = y
    BY <2>1, <2>5
  <2>8. \A i \in D : \E p \in Places(parts) : Place(p) = i
    <3> SUFFICES ASSUME NEW i \in D PROVE \E p \in Places(parts) : Place(p) = i
      OBVIOUS
    <3>1. CASE i <= m
      <4>1. <<1, i>> \in Places(parts) /\ Place(<<1, i>>) = i
        BY <2>1, <2>5, <3>1
      <4> QED
        BY <4>1
    <3>2. CASE ~ (i <= m)
      <4>1. <<2, i - m>> \in Places(parts)
        BY <2>1, <2>5, <3>2
      <4>2. Place(<<2, i - m>>) = i
        BY <2>1, <3>2
      <4> QED
        BY <4>1, <4>2
    <3> QED
      BY <3>1, <3>2
  <2>9. \A p \in Places(parts) : parts[p[1]][p[2]] = o[Place(p)]
    <3> SUFFICES ASSUME NEW p \in Places(parts) PROVE parts[p[1]][p[2]] = o[Place(p)]
      OBVIOUS
    <3>1. CASE p[1] = 1 /\ p[2] \in 1 .. m
      BY <2>2, <2>4, <3>1
    <3>2. CASE p[1] = 2 /\ p[2] \in 1 .. n - m
      BY <2>3, <2>4, <3>2
    <3> QED
      BY <2>5, <3>1, <3>2
  <2> HIDE DEF Place, D
  <2>10. at \in [Places(parts) -> D]
    BY <2>6
  <2>11. \A x, y \in Places(parts) : at[x] = at[y] => x = y
    BY <1>5, <2>6, <2>7
  <2>12. \A j \in D : \E p \in Places(parts) : at[p] = j
    BY <1>5, <2>8
  <2>13. \A p \in Places(parts) : parts[p[1]][p[2]] = s[at[p]]
    BY <1>4, <2>6, <2>9
  <2> HIDE DEF at
  <2>14. Fingerprint(parts) = Fingerprint(<<s>>)
    BY <1>1, <2>4, <2>10, <2>11, <2>12, <2>13, ArrangedPrint DEF D
  <2> QED
    BY <2>4, <2>14
<1> QED
    BY <1>2, <1>4, <1>6, <1>7

----------------------------------------------------------------------------
(* The inductive invariant.                                                *)

\* The progress of an attempt, as far as the proofs look at it.
Shape ==
    /\ DOMAIN landing = Attempt
    /\ \A a \in Attempt : Len(landing[a].parts) \in Nat
    /\ DOMAIN attempt = Attempt
    /\ \A a \in Attempt :
        /\ DOMAIN attempt[a] = {"pc", "tries", "run", "copied", "completedAt", "returned"}
        /\ attempt[a].copied \in Nat
        /\ attempt[a].completedAt \in Nat
    /\ clock \in Nat

\* The object CopyImmutable writes for a part of an attempt.
ObjectOf(a, i) ==
    [run |-> attempt[a].run, attempt |-> a, part |-> i, payload |-> landing[a].parts[i]]

\* The manifest an attempt persists.
ManifestOf(a, status) ==
    Manifest(a, status, IF status = "completed" THEN attempt[a].completedAt ELSE 0)

\* Where an attempt may have written to Bronze, and where it may have completed.
Writing == Ended \cup {"copy", "complete"}
Completing == Ended \cup {"complete"}

\* Every object is one that its attempt writes, from the landing it still has.
BronzeNamed ==
    \A o \in bronze :
        /\ o.attempt \in Attempt
        /\ attempt[o.attempt].pc \in Writing
        /\ o = ObjectOf(o.attempt, o.part)

\* Every checkpoint is the one its attempt persists.
CheckpointNamed ==
    \A m \in checkpoints :
        /\ m.attempt \in Attempt
        /\ m.status \in {"incomplete", "completed"}
        /\ attempt[m.attempt].pc \in Writing \cup {"incomplete"}
        /\ m.status = "completed" => attempt[m.attempt].pc \in Completing
        /\ m = ManifestOf(m.attempt, m.status)

\* An attempt that copies has the run id of its landing and what it copied is there.
ProgressTrue ==
    \A a \in Attempt :
        /\ attempt[a].pc \in {"incomplete", "copy", "complete"} =>
            landing[a].conforms /\ attempt[a].run = Fingerprint(landing[a].parts)
        /\ attempt[a].pc \in {"new", "export", "plan", "incomplete"} => attempt[a].copied = 0
        /\ attempt[a].pc \in {"copy", "complete"} =>
            \A i \in 1 .. attempt[a].copied : ObjectOf(a, i) \in bronze
        /\ attempt[a].pc = "complete" => Len(landing[a].parts) <= attempt[a].copied

\* The parts of the attempt that persisted a completed checkpoint are in Bronze.
Backed(a) ==
    /\ attempt[a].run = Fingerprint(landing[a].parts)
    /\ landing[a].conforms
    /\ \A i \in 1 .. Len(landing[a].parts) : ObjectOf(a, i) \in bronze

AllBacked == \A m \in Completed : Backed(m.attempt)

OneUri == \A m, n \in checkpoints : CheckpointUri(m) = CheckpointUri(n) => m = n

\* The completed manifests have a latest one.
HasLatest ==
    Completed # {} => \E m \in Completed : \A n \in Completed : n.completedAt <= m.completedAt

HasRival(a) == \E m \in Completed : m.run = attempt[a].run /\ m.attempt # a

Rivals == \A a \in Attempt : attempt[a].pc = "conflict" => HasRival(a)

\* Attempts start in order, and without overlap each after the one before has ended.
InOrder ==
    \A a, b \in Attempt : b < a /\ attempt[a].pc # "new" =>
        /\ attempt[b].pc # "new"
        /\ mode.overlap \/ ~Running(b)

\* What a skip will return is, without overlap, what it compared with.
Returns ==
    \A a \in Attempt :
        /\ attempt[a].pc = "skip" =>
            /\ Completed # {}
            /\ ~mode.overlap => LatestCompleted.run = Fingerprint(landing[a].parts)
        /\ attempt[a].pc = "returned" =>
            /\ attempt[a].returned \in Completed
            /\ ~mode.overlap => attempt[a].returned.run = Fingerprint(landing[a].parts)

BatchInv ==
    /\ Shape
    /\ BronzeNamed
    /\ CheckpointNamed
    /\ ProgressTrue
    /\ AllBacked
    /\ OneUri
    /\ HasLatest
    /\ Rivals
    /\ InOrder
    /\ Returns

LEMMA BatchInit == Init => BatchInv
<1> SUFFICES ASSUME Init PROVE BatchInv
    OBVIOUS
<1>1. Shape
    BY DEF Init, Shape, NoLanding
<1>2. \A a \in Attempt : attempt[a].pc = "new" /\ attempt[a].copied = 0
    BY DEF Init
<1> QED
    BY <1>1, <1>2
    DEF Init, BatchInv, BronzeNamed, CheckpointNamed, ProgressTrue, AllBacked, OneUri,
        HasLatest, Rivals, InOrder, Returns, Completed

----------------------------------------------------------------------------
(* The frame: what every step of an attempt leaves alone.                  *)

\* An export writes one part or two.
LEMMA ExportsParts ==
    ASSUME NEW content, NEW parts \in Exports(content)
    PROVE  Len(parts) \in Nat
    BY DEF Exports

\* A step of a that moves its pc and changes nothing the invariant reads besides.
Moves(a, next) ==
    /\ DOMAIN attempt' = Attempt
    /\ DOMAIN attempt'[a] = DOMAIN attempt[a]
    /\ attempt'[a].pc = next
    /\ attempt'[a].run = attempt[a].run
    /\ attempt'[a].copied = attempt[a].copied
    /\ attempt'[a].completedAt = attempt[a].completedAt
    /\ attempt'[a].returned = attempt[a].returned
    /\ \A b \in Attempt \ {a} : attempt'[b] = attempt[b]

LEMMA GotoMoves ==
    ASSUME Shape, NEW a \in Attempt, NEW next, Goto(a, next)
    PROVE  Moves(a, next)
    BY DEF Goto, Shape, Moves

LEMMA LostMoves ==
    ASSUME Shape, NEW a \in Attempt, Lost(a)
    PROVE  Moves(a, "failed") \/ Moves(a, attempt[a].pc)
<1>1. CASE Goto(a, "failed")
    BY <1>1, GotoMoves
<1>2. CASE attempt' = [attempt EXCEPT ![a].tries = attempt[a].tries + 1]
    BY <1>2 DEF Shape, Moves
<1> QED
    BY <1>1, <1>2 DEF Lost

\* The latest of a set of manifests.
LatestOf(S) ==
    IF S = {} THEN None
    ELSE CHOOSE m \in S : \A n \in S : n.completedAt <= m.completedAt

LEMMA LatestSame == UNCHANGED Completed => UNCHANGED LatestCompleted
<1>1. LatestCompleted = LatestOf(Completed)
    BY DEF LatestCompleted, LatestOf
<1>2. LatestCompleted' = LatestOf(Completed')
    BY DEF LatestCompleted, LatestOf
<1> QED
    BY <1>1, <1>2

\* When there is one, it is one of the set.
LEMMA LatestChosen ==
    ASSUME HasLatest, Completed # {}
    PROVE  LatestCompleted \in Completed
    BY DEF HasLatest, LatestCompleted

----------------------------------------------------------------------------
(* Steps that write nothing.                                               *)

\* A step that writes nothing keeps what the invariant says of the stored values.
LEMMA MoveKeeps ==
    ASSUME BatchInv, NEW a \in Attempt, NEW next, Moves(a, next),
           UNCHANGED <<storage, clock, mode>>,
           \/ next = attempt[a].pc
           \/ next = "failed" /\ attempt[a].pc # "new"
           \/ next = "plan" /\ attempt[a].pc = "export"
    PROVE  BatchInv'
<1> USE DEF BatchInv, storage, Moves
<1>1. Shape'
    BY DEF Shape
<1>2. \A b \in Attempt : \A i : ObjectOf(b, i)' = ObjectOf(b, i)
    BY DEF ObjectOf
<1>3. \A b \in Attempt : \A status : ManifestOf(b, status)' = ManifestOf(b, status)
    BY DEF ManifestOf, Manifest
<1>4. BronzeNamed'
    BY <1>2 DEF BronzeNamed, Writing, Ended
<1>5. CheckpointNamed'
    BY <1>3 DEF CheckpointNamed, Writing, Completing, Ended
<1>6. ProgressTrue'
    BY <1>2 DEF ProgressTrue
<1>7. UNCHANGED <<Completed, LatestCompleted>>
    BY LatestSame DEF Completed
<1>8. (AllBacked /\ OneUri /\ HasLatest)'
    BY <1>2, <1>7 DEF AllBacked, OneUri, HasLatest, Backed, CheckpointNamed, Completed,
        CheckpointUri
<1>9. Rivals'
    BY <1>7 DEF Rivals, HasRival
<1>10. InOrder'
    BY DEF InOrder, Running, Ended
<1>11. Returns'
    BY <1>7 DEF Returns
<1> QED
    BY <1>1, <1>4, <1>5, <1>6, <1>8, <1>9, <1>10, <1>11

\* The invariant is about these variables and the mode's overlap alone.
LEMMA StutterKeeps == BatchInv /\ UNCHANGED <<storage, attempt, clock, mode>> => BatchInv'
<1> SUFFICES ASSUME BatchInv, UNCHANGED <<storage, attempt, clock, mode>> PROVE BatchInv'
    OBVIOUS
<1> USE DEF BatchInv, storage
<1>1. UNCHANGED <<Completed, LatestCompleted>>
    BY LatestSame DEF Completed
<1>2. (Shape /\ BronzeNamed /\ CheckpointNamed /\ ProgressTrue)'
    BY DEF Shape, BronzeNamed, CheckpointNamed, ProgressTrue, ObjectOf, ManifestOf, Manifest
<1>3. (AllBacked /\ OneUri /\ HasLatest /\ Rivals /\ InOrder /\ Returns)'
    BY <1>1
    DEF AllBacked, Backed, ObjectOf, OneUri, CheckpointUri, HasLatest, Rivals, HasRival,
        InOrder, Running, Returns
<1> QED
    BY <1>2, <1>3

\* An attempt starts when those before it have.
LEMMA EstimateKeeps ==
    ASSUME BatchInv, NEW a \in Attempt, Estimate(a)
    PROVE  BatchInv'
<1> USE DEF BatchInv, storage, environment
<1>1. PICK next \in {"export", "failed"} : Moves(a, next)
    BY GotoMoves DEF Estimate
<1>2. attempt[a].pc = "new" /\ UNCHANGED <<storage, clock, environment>>
    BY DEF Estimate
<1> USE <1>1, <1>2 DEF Moves
<1>3. Shape'
    BY DEF Shape
<1>4. \A b \in Attempt : \A i : ObjectOf(b, i)' = ObjectOf(b, i)
    BY DEF ObjectOf
<1>5. \A b \in Attempt : \A status : ManifestOf(b, status)' = ManifestOf(b, status)
    BY DEF ManifestOf, Manifest
<1>6. BronzeNamed'
    BY <1>4 DEF BronzeNamed, Writing, Ended
<1>7. CheckpointNamed'
    BY <1>5 DEF CheckpointNamed, Writing, Completing, Ended
<1>8. ProgressTrue'
    BY <1>4 DEF ProgressTrue
<1>9. UNCHANGED <<Completed, LatestCompleted>>
    BY LatestSame DEF Completed
<1>10. (AllBacked /\ OneUri /\ HasLatest)'
    BY <1>4, <1>9 DEF AllBacked, OneUri, HasLatest, Backed, CheckpointNamed, Completed,
        CheckpointUri
<1>11. Rivals'
    BY <1>9 DEF Rivals, HasRival
<1>12. InOrder'
  <2>1. \A b \in Attempt : b < a => attempt[b].pc # "new" /\ (mode.overlap \/ ~Running(b))
    BY DEF Estimate, Attempt
  <2>2. \A b \in Attempt : a < b => attempt[b].pc = "new"
    BY DEF InOrder
  <2> QED
    BY <2>1, <2>2 DEF InOrder, Running, Attempt
<1>13. Returns'
    BY <1>9 DEF Returns
<1> QED
    BY <1>3, <1>6, <1>7, <1>8, <1>10, <1>11, <1>12, <1>13

\* A step of the attempt that only goes on, is lost or dies.
LEMMA QuietKeeps ==
    ASSUME BatchInv, NEW a \in Attempt,
           RecoverExport(a) \/ RejectLanding(a) \/ RequestLost(a) \/ Crash(a)
    PROVE  BatchInv'
<1>1. Shape
    BY DEF BatchInv
<1>2. UNCHANGED <<storage, clock, mode>> /\ attempt[a].pc # "new"
    BY DEF RecoverExport, RejectLanding, RequestLost, Crash, environment, Running
<1>3. \/ Moves(a, "failed") \/ Moves(a, attempt[a].pc)
      \/ attempt[a].pc = "export" /\ Moves(a, "plan")
    BY <1>1, GotoMoves, LostMoves DEF RecoverExport, RejectLanding, RequestLost, Crash
<1> QED
    BY <1>2, <1>3, MoveKeeps

\* The table the export reads is not read again.
LEMMA SourceKeeps == BatchInv /\ SourceChanges => BatchInv'
<1> SUFFICES ASSUME BatchInv, SourceChanges PROVE BatchInv'
    OBVIOUS
<1>1. UNCHANGED <<storage, attempt, clock, mode>>
    BY DEF SourceChanges
<1> QED
    BY <1>1, StutterKeeps

----------------------------------------------------------------------------
(* The export and the plan.                                                *)

\* An attempt that exports has written nothing yet.
LEMMA ExportKeeps ==
    ASSUME BatchInv, NEW a \in Attempt, SubmitExport(a)
    PROVE  BatchInv'
<1> USE DEF BatchInv
<1>1. PICK next \in {"plan", "failed", "export"} : Moves(a, next)
    BY GotoMoves, LostMoves DEF SubmitExport
<1>2. attempt[a].pc = "export" /\ UNCHANGED <<bronze, checkpoints, clock, mode>>
    BY DEF SubmitExport, environment
<1>3. /\ DOMAIN landing' = Attempt
      /\ Len(landing'[a].parts) \in Nat
      /\ \A b \in Attempt \ {a} : landing'[b] = landing[b]
    BY ExportsParts DEF SubmitExport, SnapshotExport, Shape
<1> USE <1>1, <1>2, <1>3 DEF Moves
<1>4. Shape'
    BY DEF Shape
<1>5. \A b \in Attempt \ {a} : \A i : ObjectOf(b, i)' = ObjectOf(b, i)
    BY DEF ObjectOf
<1>6. \A b \in Attempt \ {a} : \A status : ManifestOf(b, status)' = ManifestOf(b, status)
    BY DEF ManifestOf, Manifest
<1>7. BronzeNamed'
    BY <1>5 DEF BronzeNamed, Writing, Ended
<1>8. CheckpointNamed'
    BY <1>6 DEF CheckpointNamed, Writing, Completing, Ended
<1>9. ProgressTrue'
    BY <1>5 DEF ProgressTrue
<1>10. UNCHANGED <<Completed, LatestCompleted>>
    BY LatestSame DEF Completed
<1>11. \A m \in Completed : m.attempt \in Attempt \ {a}
    BY DEF CheckpointNamed, Completed, Writing, Ended
<1>12. (AllBacked /\ OneUri /\ HasLatest)'
    BY <1>5, <1>10, <1>11 DEF AllBacked, OneUri, HasLatest, Backed, CheckpointUri
<1>13. Rivals'
    BY <1>10 DEF Rivals, HasRival
<1>14. InOrder'
    BY DEF InOrder, Running, Ended
<1>15. Returns'
    BY <1>10 DEF Returns
<1> QED
    BY <1>4, <1>7, <1>8, <1>9, <1>12, <1>13, <1>14, <1>15

\* A plan that skips has found its own run the latest; one that goes on copied nothing.
LEMMA PlanKeeps ==
    ASSUME BatchInv, NEW a \in Attempt, Plan(a)
    PROVE  BatchInv'
<1> DEFINE run == Fingerprint(landing[a].parts)
<1> HIDE DEF run
<1> USE DEF BatchInv, storage
<1>1. /\ attempt[a].pc = "plan" /\ landing[a].conforms
      /\ UNCHANGED <<storage, clock, mode>>
      /\ attempt' = [attempt EXCEPT ![a].run = run,
                        ![a].pc = IF Matches(LatestCompleted, run) THEN "skip" ELSE "incomplete"]
    BY DEF Plan, BatchPlan, environment, run
<1>2. /\ DOMAIN attempt' = Attempt
      /\ DOMAIN attempt'[a] = DOMAIN attempt[a]
      /\ attempt'[a].run = run
      /\ attempt'[a].copied = attempt[a].copied
      /\ attempt'[a].completedAt = attempt[a].completedAt
      /\ attempt'[a].pc = IF Matches(LatestCompleted, run) THEN "skip" ELSE "incomplete"
      /\ \A b \in Attempt \ {a} : attempt'[b] = attempt[b]
    BY <1>1 DEF Shape
<1> USE <1>1, <1>2
<1>4. Shape'
    BY DEF Shape
<1>5. \A b \in Attempt \ {a} : \A i : ObjectOf(b, i)' = ObjectOf(b, i)
    BY DEF ObjectOf
<1>6. \A b \in Attempt \ {a} : \A status : ManifestOf(b, status)' = ManifestOf(b, status)
    BY DEF ManifestOf, Manifest
<1>7. BronzeNamed'
    BY <1>5 DEF BronzeNamed, Writing, Ended
<1>8. CheckpointNamed'
    BY <1>6 DEF CheckpointNamed, Writing, Completing, Ended
<1>9. ProgressTrue'
    BY <1>5 DEF ProgressTrue, run
<1>10. UNCHANGED <<Completed, LatestCompleted>>
    BY LatestSame DEF Completed
<1>11. \A m \in Completed : m.attempt \in Attempt \ {a}
    BY DEF CheckpointNamed, Completed, Writing, Ended
<1>12. (AllBacked /\ OneUri /\ HasLatest)'
    BY <1>5, <1>10, <1>11 DEF AllBacked, OneUri, HasLatest, Backed, CheckpointUri
<1>13. Rivals'
    BY <1>10 DEF Rivals, HasRival
<1>14. InOrder'
    BY DEF InOrder, Running, Ended
<1>15. Returns'
  <2>1. attempt'[a].pc = "skip" => Completed # {} /\ LatestCompleted.run = run
    BY DEF Matches, LatestCompleted
  <2> QED
    BY <1>10, <2>1 DEF Returns, run
<1> QED
    BY <1>4, <1>7, <1>8, <1>9, <1>12, <1>13, <1>14, <1>15

\* Nothing has completed since the plan unless another attempt overlapped.
LEMMA SkipKeeps ==
    ASSUME BatchInv, NEW a \in Attempt, Skip(a)
    PROVE  BatchInv'
<1> USE DEF BatchInv, storage
<1>1. attempt[a].pc = "skip" /\ UNCHANGED <<storage, clock, mode>>
    BY DEF Skip, environment
<1>2. /\ DOMAIN attempt' = Attempt
      /\ DOMAIN attempt'[a] = DOMAIN attempt[a]
      /\ attempt'[a].run = attempt[a].run
      /\ attempt'[a].copied = attempt[a].copied
      /\ attempt'[a].completedAt = attempt[a].completedAt
      /\ attempt'[a].pc = "returned"
      /\ attempt'[a].returned = LatestCompleted
      /\ \A b \in Attempt \ {a} : attempt'[b] = attempt[b]
    BY DEF Skip, Shape
<1> USE <1>1, <1>2
<1>4. Shape'
    BY DEF Shape
<1>5. \A b \in Attempt : \A i : ObjectOf(b, i)' = ObjectOf(b, i)
    BY DEF ObjectOf
<1>6. \A b \in Attempt : \A status : ManifestOf(b, status)' = ManifestOf(b, status)
    BY DEF ManifestOf, Manifest
<1>7. BronzeNamed'
    BY <1>5 DEF BronzeNamed, Writing, Ended
<1>8. CheckpointNamed'
    BY <1>6 DEF CheckpointNamed, Writing, Completing, Ended
<1>9. ProgressTrue'
    BY <1>5 DEF ProgressTrue
<1>10. UNCHANGED <<Completed, LatestCompleted>>
    BY LatestSame DEF Completed
<1>12. (AllBacked /\ OneUri /\ HasLatest)'
    BY <1>5, <1>10 DEF AllBacked, OneUri, HasLatest, Backed, CheckpointNamed, Completed,
        CheckpointUri
<1>13. Rivals'
    BY <1>10 DEF Rivals, HasRival
<1>14. InOrder'
    BY DEF InOrder, Running, Ended
<1>15. Returns'
    BY <1>10, LatestChosen DEF Returns
<1> QED
    BY <1>4, <1>7, <1>8, <1>9, <1>12, <1>13, <1>14, <1>15

----------------------------------------------------------------------------
(* The writes.                                                             *)

\* An attempt has one incomplete manifest, so it meets none but its own.
LEMMA IncompleteKeeps ==
    ASSUME BatchInv, NEW a \in Attempt, PersistIncomplete(a)
    PROVE  BatchInv'
<1> DEFINE manifest == ManifestOf(a, "incomplete")
           stored == {m \in checkpoints : CheckpointUri(m) = CheckpointUri(manifest)}
<1> USE DEF BatchInv, storage
<1>1. /\ attempt[a].pc = "incomplete" /\ UNCHANGED <<landing, bronze, clock, mode>>
      /\ manifest = Manifest(a, "incomplete", 0)
    BY DEF PersistIncomplete, environment, ManifestOf
<1>2. stored \subseteq {manifest}
    BY DEF CheckpointNamed, CheckpointUri, ManifestOf, Manifest
<1>3. \/ checkpoints' = checkpoints
      \/ stored = {} /\ checkpoints' = checkpoints \cup {manifest}
    BY <1>1 DEF PersistIncomplete, Persist
<1>4. PICK next \in {"copy", "failed", "incomplete"} : Moves(a, next)
  <2>1. CASE attempt' = [attempt EXCEPT ![a] = [attempt[a] EXCEPT !.pc = "copy", !.tries = 0]]
    BY <2>1 DEF Moves, Shape
  <2>2. CASE Lost(a)
    BY <1>1, <2>2, LostMoves
  <2> QED
    BY <1>1, <1>2, <2>1, <2>2 DEF PersistIncomplete, Persist
<1> HIDE DEF manifest, stored
<1> USE <1>1, <1>4 DEF Moves
<1>5. Shape'
    BY DEF Shape
<1>6. \A b \in Attempt : \A i : ObjectOf(b, i)' = ObjectOf(b, i)
    BY DEF ObjectOf
<1>7. \A b \in Attempt : \A status : ManifestOf(b, status)' = ManifestOf(b, status)
    BY DEF ManifestOf, Manifest
<1>8. /\ manifest.attempt = a /\ manifest.status = "incomplete"
      /\ manifest = ManifestOf(a, "incomplete")
    BY DEF manifest, ManifestOf, Manifest
<1>9. BronzeNamed'
    BY <1>6 DEF BronzeNamed, Writing, Ended
<1>10. CheckpointNamed'
    BY <1>3, <1>7, <1>8 DEF CheckpointNamed, Writing, Completing, Ended
<1>11. ProgressTrue'
    BY <1>6 DEF ProgressTrue
<1>12. UNCHANGED <<Completed, LatestCompleted>>
  <2>1. UNCHANGED Completed
    BY <1>3, <1>8 DEF Completed
  <2> QED
    BY <2>1, LatestSame
<1>13. OneUri'
    BY <1>3 DEF OneUri, CheckpointUri, stored
<1>14. (AllBacked /\ HasLatest)'
    BY <1>6, <1>12 DEF AllBacked, HasLatest, Backed, CheckpointNamed, Completed
<1>15. Rivals'
    BY <1>12 DEF Rivals, HasRival
<1>16. InOrder'
    BY DEF InOrder, Running, Ended
<1>17. Returns'
    BY <1>12 DEF Returns
<1> QED
    BY <1>5, <1>9, <1>10, <1>11, <1>13, <1>14, <1>15, <1>16, <1>17

\* A copy writes the next part under its own name, and goes on once the part is there.
LEMMA CopyKeeps ==
    ASSUME BatchInv, NEW a \in Attempt, CopyImmutable(a)
    PROVE  BatchInv'
<1> DEFINE part == attempt[a].copied + 1
           object == ObjectOf(a, part)
<1> USE DEF BatchInv, storage
<1>1. attempt[a].pc = "copy" /\ UNCHANGED <<landing, checkpoints, mode>>
    BY DEF CopyImmutable, environment
<1>2. /\ bronze' \in {bronze, bronze \cup {object}}
      /\ \/ Copied(a, part) /\ object \in bronze'
         \/ Lost(a) /\ UNCHANGED clock
    BY DEF CopyImmutable, ObjectOf
<1>3. /\ DOMAIN attempt' = Attempt
      /\ DOMAIN attempt'[a] = DOMAIN attempt[a]
      /\ attempt'[a].run = attempt[a].run
      /\ attempt'[a].completedAt \in Nat
      /\ \A b \in Attempt \ {a} : attempt'[b] = attempt[b]
      /\ clock' \in Nat
      /\ \/ attempt'[a].pc = "failed" /\ attempt'[a].copied = attempt[a].copied
         \/ attempt'[a].pc = "copy" /\ attempt'[a].copied = attempt[a].copied
         \/ attempt'[a].pc = "copy" /\ attempt'[a].copied = part /\ object \in bronze'
         \/ /\ attempt'[a].pc = "complete" /\ attempt'[a].copied = part /\ object \in bronze'
            /\ Len(landing[a].parts) <= part
  <2>1. CASE Copied(a, part) /\ object \in bronze'
    BY <1>1, <2>1 DEF Copied, Shape
  <2>2. CASE Lost(a) /\ UNCHANGED clock
    BY <1>1, <2>2, LostMoves DEF Moves, Shape
  <2> QED
    BY <1>2, <2>1, <2>2
<1>4. object = ObjectOf(a, part) /\ part = attempt[a].copied + 1
    OBVIOUS
<1> HIDE DEF part, object
<1> USE <1>1, <1>3
<1>5. Shape'
    BY <1>4 DEF Shape
<1>6. \A b \in Attempt : \A i : ObjectOf(b, i)' = ObjectOf(b, i)
    BY DEF ObjectOf
<1>7. \A b \in Attempt : \A status :
          b # a \/ status = "incomplete" => ManifestOf(b, status)' = ManifestOf(b, status)
    BY DEF ManifestOf, Manifest
<1>8. object.attempt = a /\ object.part = part
    BY <1>4 DEF ObjectOf
<1>9. BronzeNamed'
    BY <1>2, <1>4, <1>6, <1>8 DEF BronzeNamed, Writing, Ended
<1>10. CheckpointNamed'
    BY <1>7 DEF CheckpointNamed, Writing, Completing, Ended
<1>11. ProgressTrue'
  <2>1. \A b \in Attempt \ {a} : \A i : ObjectOf(b, i) \in bronze => ObjectOf(b, i)' \in bronze'
    BY <1>2, <1>6
  <2>2. attempt'[a].pc \in {"copy", "complete"} =>
            \A i \in 1 .. attempt'[a].copied : ObjectOf(a, i)' \in bronze'
    BY <1>2, <1>4, <1>6 DEF ProgressTrue, Shape
  <2> QED
    BY <1>4, <2>1, <2>2 DEF ProgressTrue
<1>12. UNCHANGED <<Completed, LatestCompleted>>
    BY LatestSame DEF Completed
<1>13. (AllBacked /\ OneUri /\ HasLatest)'
    BY <1>2, <1>6, <1>12
    DEF AllBacked, OneUri, HasLatest, Backed, CheckpointNamed, Completed,
        CheckpointUri
<1>14. Rivals'
    BY <1>12 DEF Rivals, HasRival
<1>15. InOrder'
    BY DEF InOrder, Running, Ended
<1>16. Returns'
    BY <1>12 DEF Returns
<1> QED
    BY <1>5, <1>9, <1>10, <1>11, <1>13, <1>14, <1>15, <1>16

\* A completed checkpoint is stored once its parts are; another of the same run is a
\* rival's.
LEMMA CompletedKeeps ==
    ASSUME BatchInv, NEW a \in Attempt, PersistCompleted(a)
    PROVE  BatchInv'
<1> DEFINE manifest == ManifestOf(a, "completed")
           stored == {m \in checkpoints : CheckpointUri(m) = CheckpointUri(manifest)}
<1> USE DEF BatchInv, storage
<1>1. /\ attempt[a].pc = "complete" /\ UNCHANGED <<landing, bronze, clock, mode>>
      /\ manifest = Manifest(a, "completed", attempt[a].completedAt)
    BY DEF PersistCompleted, environment, ManifestOf
<1> DEFINE Effect ==
        /\ \/ checkpoints' = checkpoints
           \/ stored = {} /\ checkpoints' = checkpoints \cup {manifest}
        /\ DOMAIN attempt' = Attempt
        /\ DOMAIN attempt'[a] = DOMAIN attempt[a]
        /\ attempt'[a].run = attempt[a].run
        /\ attempt'[a].copied = attempt[a].copied
        /\ attempt'[a].completedAt = attempt[a].completedAt
        /\ \A b \in Attempt \ {a} : attempt'[b] = attempt[b]
        /\ \/ attempt'[a].pc \in {"complete", "failed"}
           \/ /\ attempt'[a].pc = "returned" /\ attempt'[a].returned = manifest
              /\ manifest \in checkpoints'
           \/ /\ attempt'[a].pc = "conflict" /\ checkpoints' = checkpoints
              /\ \E m \in stored : m # manifest
<1>2. Effect
  <2> DEFINE done == [attempt[a] EXCEPT !.pc = "returned", !.tries = 0, !.returned = manifest]
  <2>1. ASSUME attempt' = [attempt EXCEPT ![a] = done],
               \/ stored = {} /\ checkpoints' = checkpoints \cup {manifest}
               \/ stored = {manifest} /\ checkpoints' = checkpoints
        PROVE  Effect
    <3>1. manifest \in checkpoints'
      BY <2>1
    <3>2. /\ done.pc = "returned" /\ done.returned = manifest
          /\ DOMAIN done = DOMAIN attempt[a]
          /\ done.run = attempt[a].run /\ done.copied = attempt[a].copied
          /\ done.completedAt = attempt[a].completedAt
      BY DEF Shape
    <3> HIDE DEF done
    <3> QED
      BY <2>1, <3>1, <3>2 DEF Shape
  <2>2. CASE Lost(a) /\ stored = {} /\ checkpoints' = checkpoints \cup {manifest}
    BY <1>1, <2>2, LostMoves DEF Moves
  <2>3. CASE Goto(a, "conflict") /\ stored \notin {{}, {manifest}} /\ UNCHANGED checkpoints
    BY <1>1, <2>3, GotoMoves DEF Moves
  <2> QED
    BY <1>1, <2>1, <2>2, <2>3 DEF PersistCompleted, Persist
<1>3. /\ manifest.attempt = a /\ manifest.status = "completed"
      /\ manifest.run = attempt[a].run /\ manifest.completedAt = attempt[a].completedAt
    BY DEF ManifestOf, Manifest
<1>4. \A m \in stored : m # manifest => m \in Completed /\ m.run = attempt[a].run /\ m.attempt # a
    BY <1>3 DEF CheckpointNamed, CheckpointUri, Completed
<1> HIDE DEF manifest
<1> USE <1>1, <1>2
<1>5. Shape'
    BY DEF Shape
<1>6. \A b \in Attempt : \A i : ObjectOf(b, i)' = ObjectOf(b, i)
    BY DEF ObjectOf
<1>7. \A b \in Attempt : \A status : ManifestOf(b, status)' = ManifestOf(b, status)
    BY DEF ManifestOf, Manifest
<1>8. BronzeNamed'
    BY <1>6 DEF BronzeNamed, Writing, Ended
<1>9. CheckpointNamed'
    BY <1>3, <1>7 DEF CheckpointNamed, Writing, Completing, Ended, manifest
<1>10. ProgressTrue'
    BY <1>6 DEF ProgressTrue
<1>11. Completed' \in {Completed, Completed \cup {manifest}}
    BY <1>3 DEF Completed
<1>12. Backed(a)
    BY DEF ProgressTrue, Backed, Shape
<1>13. AllBacked'
  <2>1. \A b \in Attempt : Backed(b) => Backed(b)'
    BY <1>6 DEF Backed
  <2>2. \A m \in Completed : m.attempt \in Attempt
    BY DEF CheckpointNamed, Completed
  <2> QED
    BY <1>3, <1>11, <1>12, <2>1, <2>2 DEF AllBacked
<1>14. OneUri'
    BY DEF OneUri, CheckpointUri
<1>15. HasLatest'
  <2>1. \A m \in Completed : m.completedAt \in Nat
    BY DEF CheckpointNamed, Completed, ManifestOf, Manifest, Shape
  <2>2. manifest.completedAt \in Nat
    BY <1>3 DEF Shape
  <2>3. CASE Completed' = Completed
    BY <2>3 DEF HasLatest
  <2>4. CASE Completed' = Completed \cup {manifest}
    <3>1. CASE \A m \in Completed : m.completedAt <= manifest.completedAt
      BY <2>2, <2>4, <3>1 DEF HasLatest
    <3>2. CASE \E m \in Completed : ~(m.completedAt <= manifest.completedAt)
      <4>1. PICK m \in Completed : \A n \in Completed : n.completedAt <= m.completedAt
        BY <3>2 DEF HasLatest
      <4>2. manifest.completedAt <= m.completedAt
        BY <2>1, <2>2, <3>2, <4>1
      <4> QED
        BY <2>4, <4>1, <4>2 DEF HasLatest
    <3> QED
      BY <3>1, <3>2
  <2> QED
    BY <1>11, <2>3, <2>4
<1>16. Rivals'
  <2>1. \A b \in Attempt : HasRival(b) => HasRival(b)'
    BY <1>11 DEF HasRival
  <2>2. attempt'[a].pc = "conflict" => HasRival(a)
    BY <1>4 DEF HasRival
  <2> QED
    BY <2>1, <2>2 DEF Rivals
<1>17. InOrder'
    BY DEF InOrder, Running, Ended
<1>18. Returns'
  <2>1. \A b \in Attempt \ {a} : attempt[b].pc = "skip" => mode.overlap
    BY DEF InOrder, Running, Ended, Attempt
  <2>2. attempt'[a].pc = "returned" => attempt'[a].returned \in Completed'
    BY <1>3 DEF Completed
  <2>3. manifest.run = Fingerprint(landing[a].parts)
    BY <1>3 DEF ProgressTrue
  <2> QED
    BY <1>11, <2>1, <2>2, <2>3 DEF Returns
<1> QED
    BY <1>5, <1>8, <1>9, <1>10, <1>13, <1>14, <1>15, <1>16, <1>17, <1>18

----------------------------------------------------------------------------
(* The theorems.                                                           *)

LEMMA BatchNext == BatchInv /\ [Next]_vars => BatchInv'
<1> SUFFICES ASSUME BatchInv, [Next]_vars PROVE BatchInv'
    OBVIOUS
<1>1. ASSUME NEW a \in Attempt, Step(a) PROVE BatchInv'
    BY <1>1, EstimateKeeps, QuietKeeps, ExportKeeps, PlanKeeps, SkipKeeps,
       IncompleteKeeps, CopyKeeps, CompletedKeeps DEF Step
<1>2. CASE SourceChanges
    BY <1>2, SourceKeeps
<1>3. CASE UNCHANGED vars
    BY <1>3, StutterKeeps DEF vars, environment
<1> QED
    BY <1>1, <1>2, <1>3 DEF Next

\* Names tell the objects and the checkpoints apart, each is the one its attempt writes,
\* and attempts start in order, in every reachable state.
THEOREM BatchInvariant == Spec => []BatchInv
    BY BatchInit, BatchNext, PTL DEF Spec

\* Every part a completed checkpoint names is in Bronze and has the fingerprint of its
\* run, whatever calls were lost or repeated and whatever attempts overlapped.
THEOREM CheckpointsBacked == Spec => []CheckpointBacked
<1>1. BatchInv => CheckpointBacked
  <2> SUFFICES ASSUME BatchInv, NEW m \in Completed PROVE
        /\ m.parts = Len(landing[m.attempt].parts)
        /\ Fingerprint(landing[m.attempt].parts) = m.run
        /\ \A i \in 1 .. m.parts :
            [run |-> m.run, attempt |-> m.attempt, part |-> i,
             payload |-> landing[m.attempt].parts[i]] \in bronze
        /\ landing[m.attempt].conforms
    BY DEF CheckpointBacked
  <2>1. Backed(m.attempt)
    BY DEF BatchInv, AllBacked
  <2>2. m.run = attempt[m.attempt].run /\ m.parts = Len(landing[m.attempt].parts)
    BY DEF BatchInv, CheckpointNamed, Completed, ManifestOf, Manifest
  <2> QED
    BY <2>1, <2>2 DEF Backed, ObjectOf
<1> QED
    BY <1>1, BatchInvariant, PTL

\* Nothing written to Bronze or to the checkpoints changes or is lost, and no two
\* objects or checkpoints share a name.
THEOREM HistoryStands == Spec => HistoryImmutable
<1> DEFINE Keeps ==
        /\ bronze \subseteq bronze' /\ checkpoints \subseteq checkpoints'
        /\ \A m, n \in checkpoints' : CheckpointUri(m) = CheckpointUri(n) => m = n
        /\ \A o, p \in bronze' : <<o.run, o.attempt, o.part>> = <<p.run, p.attempt, p.part>>
                                    => o = p
<1>1. Next => bronze \subseteq bronze' /\ checkpoints \subseteq checkpoints'
    BY DEF Next, Step, SourceChanges, Estimate, SubmitExport, RecoverExport, Plan,
           RejectLanding, Skip, PersistIncomplete, Persist, CopyImmutable, PersistCompleted,
           RequestLost, Crash, storage
<1>2. BatchInv' => \A m, n \in checkpoints' : CheckpointUri(m) = CheckpointUri(n) => m = n
    BY DEF BatchInv, OneUri, CheckpointUri
<1>3. BatchInv' => \A o, p \in bronze' :
        <<o.run, o.attempt, o.part>> = <<p.run, p.attempt, p.part>> => o = p
    BY DEF BatchInv, BronzeNamed
<1>4. BatchInv' /\ [Next]_vars => [Keeps]_vars
    BY <1>1, <1>2, <1>3
<1> QED
    BY <1>4, BatchInvariant, PTL DEF Spec, HistoryImmutable

\* What an attempt returns is a completed checkpoint and, without overlap, that of the
\* content it exported.
THEOREM ReturnsItsContent == Spec => []ReturnsExported
<1>1. BatchInv => ReturnsExported
    BY DEF BatchInv, Returns, ReturnsExported
<1> QED
    BY <1>1, BatchInvariant, PTL

----------------------------------------------------------------------------
(* The types, what was exported, and the times of completion.              *)

Progress == Ended \cup {"new", "export", "plan", "skip", "incomplete", "copy", "complete"}

\* The record of an attempt when the manifests stored are S.
AttemptType(S) ==
    [pc : Progress, tries : 0 .. MaximumAttempts - 1, run : Run, copied : Nat,
     completedAt : Nat, returned : S \cup {None}]

ObjectType == [run : Run, attempt : Attempt, part : Nat, payload : Seq(Row)]

LandingType == [parts : Seq(Seq(Row)), conforms : BOOLEAN]

\* TypeOK without the bound of the clock, which Clocked gives.
Types ==
    /\ source \in [rows : Snapshot, schema : Schema]
    /\ landing \in [Attempt -> LandingType]
    /\ bronze \subseteq ObjectType
    /\ checkpoints \subseteq Manifests
    /\ attempt \in [Attempt -> AttemptType(checkpoints)]
    /\ clock \in Nat
    /\ mode \in Modes
    /\ past \subseteq Snapshot

\* What an attempt exported was the source's content once, a plan follows an export, and
\* a part is left to copy while the attempt copies.
Landed ==
    /\ \A a \in Attempt :
        /\ Submitted(a) =>
            /\ attempt[a].pc # "new"
            /\ \E s \in past : landing[a].parts \in Exports(s)
        /\ attempt[a].pc \notin {"new", "export", "failed"} => Submitted(a)
        /\ attempt[a].pc = "copy" => attempt[a].copied < Len(landing[a].parts)
    /\ \A m \in Completed : Submitted(m.attempt)
    /\ source.rows \in past

\* The attempts that drew a completed_at.
Drawn == {a \in Attempt : attempt[a].completedAt # 0}

\* An attempt draws at most once, before its completed checkpoint, and without overlap
\* the later attempt the later time.
Clocked ==
    /\ clock = Cardinality(Drawn)
    /\ \A a \in Attempt :
        /\ attempt[a].completedAt <= clock
        /\ attempt[a].pc \notin Completing => attempt[a].completedAt = 0
        /\ attempt[a].pc = "complete" => attempt[a].completedAt # 0
    /\ \A m \in Completed : m.attempt \in Drawn
    /\ ~ mode.overlap =>
        \A a \in Drawn, b \in Drawn : b < a => attempt[b].completedAt < attempt[a].completedAt

TypeInv == Types /\ Landed /\ Clocked

LEMMA TypeInvTypes == TypeInv => TypeOK
<1> SUFFICES ASSUME TypeInv PROVE TypeOK
    OBVIOUS
<1>1. clock <= MaxAttempt
  <2>1. IsFiniteSet(Attempt) /\ Cardinality(Attempt) = MaxAttempt
    <3> DEFINE A == 1 .. MaxAttempt
    <3>1. MaxAttempt \in Nat /\ 1 \in Int /\ MaxAttempt \in Int
      BY RetryAssumption
    <3>2. IsFiniteSet(A) /\ Cardinality(A) = IF 1 > MaxAttempt THEN 0 ELSE MaxAttempt - 1 + 1
      BY <3>1, FS_Interval
    <3>3. A = Attempt
      BY DEF Attempt
    <3> HIDE DEF A
    <3>4. Cardinality(A) = MaxAttempt
      BY <3>1, <3>2
    <3> QED
      BY <3>2, <3>3, <3>4
  <2>2. Drawn \in SUBSET Attempt
    BY DEF Drawn
  <2>3. Cardinality(Drawn) <= Cardinality(Attempt)
    BY <2>1, <2>2, FS_Subset
  <2> QED
    BY <2>1, <2>3 DEF TypeInv, Clocked
<1>2. clock \in 0 .. MaxAttempt
    BY <1>1, RetryAssumption DEF TypeInv, Types
<1> QED
    BY <1>2
    DEF TypeInv, Types, TypeOK, AttemptType, Manifests, ObjectType, LandingType, Progress

LEMMA FingerprintType ==
    ASSUME NEW parts \in Seq(Seq(Row))
    PROVE  Fingerprint(parts) \in Run
<1> DEFINE c == Cardinality(UnitsOf(parts))
           p == Cardinality(Places(parts))
<1>1. c \in Nat /\ p \in Nat
    BY FingerprintCounts, FS_CardinalityType
<1>2. Fingerprint(parts) = [rows |-> p, sum |-> c % Modulus]
    BY FingerprintCounts
<1> HIDE DEF c, p
<1>3. c % Modulus \in 0 .. Modulus - 1
    BY <1>1, Division, DigestAssumption
<1> QED
    BY <1>1, <1>2, <1>3 DEF Run

LEMMA TypeInit == Init => TypeInv
<1> SUFFICES ASSUME Init PROVE TypeInv
    OBVIOUS
<1>1. NoRun \in Run
    BY DigestAssumption DEF NoRun, Run
<1>2. NoLanding \in LandingType
    BY DEF NoLanding, LandingType
<1>3. 0 \in 0 .. MaximumAttempts - 1
    BY RetryAssumption
<1>4. attempt \in [Attempt -> AttemptType(checkpoints)]
    BY <1>1, <1>3 DEF Init, AttemptType, Progress
<1>5. Types
    BY <1>2, <1>4 DEF Init, Types
<1>6. Landed
    BY DEF Init, Landed, Submitted, Completed
<1>7. Drawn = {}
    BY DEF Init, Drawn
<1>8. Clocked
    BY <1>7, FS_EmptySet DEF Init, Clocked, Completed
<1> QED
    BY <1>5, <1>6, <1>8 DEF TypeInv

LEMMA GotoTypes ==
    ASSUME NEW S, attempt \in [Attempt -> AttemptType(S)], NEW a \in Attempt,
           NEW next \in Progress, Goto(a, next)
    PROVE  attempt' \in [Attempt -> AttemptType(S)]
<1>1. 0 \in 0 .. MaximumAttempts - 1
    BY RetryAssumption
<1>2. [attempt[a] EXCEPT !.pc = next, !.tries = 0] \in AttemptType(S)
    BY <1>1 DEF AttemptType
<1>3. attempt' = [attempt EXCEPT ![a] = [attempt[a] EXCEPT !.pc = next, !.tries = 0]]
    BY DEF Goto
<1> QED
    BY <1>2, <1>3

LEMMA LostTypes ==
    ASSUME NEW S, attempt \in [Attempt -> AttemptType(S)], NEW a \in Attempt, Lost(a)
    PROVE  attempt' \in [Attempt -> AttemptType(S)]
<1>1. CASE attempt[a].tries + 1 = MaximumAttempts
  <2>1. "failed" \in Progress
    BY DEF Progress, Ended
  <2> QED
    BY <1>1, <2>1, GotoTypes DEF Lost
<1>2. CASE attempt[a].tries + 1 # MaximumAttempts
  <2>1. attempt[a].tries + 1 \in 0 .. MaximumAttempts - 1
    BY <1>2, RetryAssumption DEF AttemptType
  <2>2. [attempt[a] EXCEPT !.tries = attempt[a].tries + 1] \in AttemptType(S)
    BY <2>1 DEF AttemptType
  <2>3. attempt' = [attempt EXCEPT ![a] = [attempt[a] EXCEPT !.tries = attempt[a].tries + 1]]
    BY <1>2 DEF Lost
  <2> QED
    BY <2>2, <2>3
<1> QED
    BY <1>1, <1>2

\* More manifests stored, more an attempt may have returned.
LEMMA AttemptTypeGrows ==
    ASSUME NEW S, NEW T, S \subseteq T, NEW f \in [Attempt -> AttemptType(S)]
    PROVE  f \in [Attempt -> AttemptType(T)]
    BY DEF AttemptType

LEMMA TypesShape == Types => Shape
<1> SUFFICES ASSUME Types PROVE Shape
    OBVIOUS
<1>1. \A a \in Attempt : attempt[a] \in AttemptType(checkpoints) /\ landing[a] \in LandingType
    BY DEF Types
<1> QED
    BY <1>1 DEF Types, Shape, AttemptType, LandingType

----------------------------------------------------------------------------
(* Every step keeps the types.                                             *)

\* A step that draws no time keeps what is said of times.
LEMMA TimesKept ==
    ASSUME Clocked, UNCHANGED <<clock, mode>>,
           \A b \in Attempt :
                /\ attempt'[b].completedAt = attempt[b].completedAt
                /\ \/ attempt'[b].pc = attempt[b].pc
                   \/ attempt'[b].pc \in Ended
                   \/ attempt'[b].pc # "complete" /\ attempt[b].completedAt = 0,
           \A m \in Completed' : m \in Completed \/ m.attempt \in Drawn
    PROVE  Clocked'
<1>1. UNCHANGED Drawn
    BY DEF Drawn
<1>2. \A b \in Attempt :
        /\ attempt'[b].completedAt <= clock
        /\ attempt'[b].pc \notin Completing => attempt'[b].completedAt = 0
        /\ attempt'[b].pc = "complete" => attempt'[b].completedAt # 0
    BY DEF Clocked, Completing, Ended
<1>3. \A m \in Completed' : m.attempt \in Drawn
    BY DEF Clocked
<1>4. ~ mode.overlap =>
        \A b \in Drawn, c \in Drawn : c < b => attempt'[c].completedAt < attempt'[b].completedAt
    BY DEF Clocked, Drawn
<1> QED
    BY <1>1, <1>2, <1>3, <1>4 DEF Clocked

\* A step that writes nothing keeps what is said of exports and of times.
LEMMA MoveKeepsTypes ==
    ASSUME TypeInv, NEW a \in Attempt, NEW next, Moves(a, next),
           UNCHANGED <<storage, clock, environment>>,
           \/ next = attempt[a].pc
           \/ next = "failed" /\ attempt[a].pc # "new"
           \/ next \in {"export", "failed"} /\ attempt[a].pc = "new"
           \/ next = "plan" /\ attempt[a].pc = "export" /\ Submitted(a)
    PROVE  Landed' /\ Clocked'
<1> USE DEF TypeInv, storage, environment, Moves
<1>1. UNCHANGED Completed /\ \A b : Submitted(b)' = Submitted(b)
    BY DEF Completed, Submitted
<1>2. Landed'
    BY <1>1 DEF Landed, Submitted
<1>3. Clocked'
  <2>1. \A b \in Attempt : attempt[b].pc \notin Completing => attempt[b].completedAt = 0
    BY DEF Clocked
  <2>2. \A b \in Attempt :
            /\ attempt'[b].completedAt = attempt[b].completedAt
            /\ \/ attempt'[b].pc = attempt[b].pc
               \/ attempt'[b].pc \in Ended
               \/ attempt'[b].pc # "complete" /\ attempt[b].completedAt = 0
    BY <2>1 DEF Completing, Ended
  <2> QED
    BY <1>1, <2>2, TimesKept
<1> QED
    BY <1>2, <1>3

\* The steps that only go on, are lost or die.
LEMMA QuietKeepsTypes ==
    ASSUME TypeInv, NEW a \in Attempt,
           Estimate(a) \/ RecoverExport(a) \/ RejectLanding(a) \/ RequestLost(a) \/ Crash(a)
    PROVE  TypeInv'
<1>1. UNCHANGED <<storage, clock, environment>>
    BY DEF Estimate, RecoverExport, RejectLanding, RequestLost, Crash
<1>2. Shape
    BY TypesShape DEF TypeInv
<1>3. \/ Moves(a, attempt[a].pc)
      \/ Moves(a, "failed")
      \/ Moves(a, "export") /\ attempt[a].pc = "new"
      \/ Moves(a, "plan") /\ attempt[a].pc = "export" /\ Submitted(a)
    BY <1>2, GotoMoves, LostMoves DEF Estimate, RecoverExport, RejectLanding, RequestLost, Crash
<1>4. Landed' /\ Clocked'
    BY <1>1, <1>3, MoveKeepsTypes
<1>5. attempt' \in [Attempt -> AttemptType(checkpoints)]
  <2>1. attempt \in [Attempt -> AttemptType(checkpoints)]
    BY DEF TypeInv, Types
  <2>2. {"export", "failed", "plan"} \subseteq Progress
    BY DEF Progress, Ended
  <2> QED
    BY <2>1, <2>2, GotoTypes, LostTypes
    DEF Estimate, RecoverExport, RejectLanding, RequestLost, Crash
<1>6. Types'
    BY <1>1, <1>5 DEF TypeInv, Types, storage, environment
<1> QED
    BY <1>4, <1>6 DEF TypeInv

LEMMA SourceKeepsTypes == TypeInv /\ SourceChanges => TypeInv'
<1> SUFFICES ASSUME TypeInv, SourceChanges PROVE TypeInv'
    OBVIOUS
<1>1. PICK content \in Snapshot, schema \in Schema :
        source' = [rows |-> content, schema |-> schema] /\ past' = past \cup {content}
    BY DEF SourceChanges
<1>2. UNCHANGED <<landing, bronze, checkpoints, attempt, clock, mode>>
    BY DEF SourceChanges, storage
<1>3. Types'
    BY <1>1, <1>2 DEF TypeInv, Types
<1>4. UNCHANGED <<Completed, Drawn>> /\ \A b : Submitted(b)' = Submitted(b)
    BY <1>2 DEF Completed, Submitted, Drawn
<1>5. Landed'
    BY <1>1, <1>2, <1>4 DEF TypeInv, Landed
<1>6. Clocked'
    BY <1>2, <1>4 DEF TypeInv, Clocked
<1> QED
    BY <1>3, <1>5, <1>6 DEF TypeInv

\* An export lands the source's content, in parts.
LEMMA ExportKeepsTypes ==
    ASSUME TypeInv, NEW a \in Attempt, SubmitExport(a)
    PROVE  TypeInv'
<1>1. PICK parts \in Exports(source.rows) :
        landing' = [landing EXCEPT ![a] = SnapshotExport(parts)]
    BY DEF SubmitExport
<1>2. /\ attempt[a].pc = "export"
      /\ Goto(a, "plan") \/ Lost(a)
      /\ UNCHANGED <<bronze, checkpoints, clock, source, mode, past>>
    BY DEF SubmitExport, environment
<1>3. source.rows \in Snapshot /\ source.rows \in past
    BY DEF TypeInv, Types, Landed
<1>4. parts \in Seq(Seq(Row)) /\ parts # <<>>
    BY <1>3, ExportPrint
<1>5. SnapshotExport(parts) \in LandingType /\ SnapshotExport(parts).parts = parts
    BY <1>4 DEF SnapshotExport, LandingType, Conforms
<1>6. /\ landing' \in [Attempt -> LandingType]
      /\ landing'[a].parts = parts
      /\ \A b \in Attempt \ {a} : landing'[b] = landing[b]
    BY <1>1, <1>5 DEF TypeInv, Types
<1>7. Shape
    BY TypesShape DEF TypeInv
<1>8. PICK next \in {"plan", "failed", "export"} : Moves(a, next)
    BY <1>2, <1>7, GotoMoves, LostMoves
<1>9. attempt' \in [Attempt -> AttemptType(checkpoints)]
  <2>1. attempt \in [Attempt -> AttemptType(checkpoints)]
    BY DEF TypeInv, Types
  <2>2. "plan" \in Progress
    BY DEF Progress
  <2> QED
    BY <1>2, <2>1, <2>2, GotoTypes, LostTypes
<1>10. Types'
    BY <1>2, <1>6, <1>9 DEF TypeInv, Types
<1>11. Landed'
  <2>1. landing'[a] # NoLanding
    BY <1>4, <1>6 DEF NoLanding
  <2>2. Submitted(a)' /\ \A b \in Attempt \ {a} : Submitted(b)' = Submitted(b)
    BY <1>6, <2>1 DEF Submitted
  <2>3. UNCHANGED Completed
    BY <1>2 DEF Completed
  <2>4. \A m \in Completed : Submitted(m.attempt)'
    BY <2>2 DEF TypeInv, Landed, Submitted, Types, Completed, Manifests
  <2>5. \A b \in Attempt \ {a} : attempt'[b] = attempt[b]
    BY <1>8 DEF Moves
  <2>6. attempt'[a].pc \in {"plan", "failed", "export"}
    BY <1>8 DEF Moves
  <2> QED
    BY <1>2, <1>3, <1>6, <2>2, <2>3, <2>4, <2>5, <2>6 DEF TypeInv, Landed
<1>12. Clocked'
  <2>1. attempt[a].completedAt = 0
    BY <1>2 DEF TypeInv, Clocked, Completing, Ended
  <2>2. UNCHANGED Completed
    BY <1>2 DEF Completed
  <2> QED
    BY <1>2, <1>8, <2>1, <2>2, TimesKept DEF TypeInv, Moves, Ended
<1> QED
    BY <1>10, <1>11, <1>12 DEF TypeInv

\* A plan names the run of what was exported.
LEMMA PlanKeepsTypes ==
    ASSUME TypeInv, NEW a \in Attempt, Plan(a)
    PROVE  TypeInv'
<1> DEFINE run == Fingerprint(landing[a].parts)
           next == IF Matches(LatestCompleted, run) THEN "skip" ELSE "incomplete"
<1>1. /\ attempt[a].pc = "plan"
      /\ UNCHANGED <<storage, clock, environment>>
      /\ attempt' = [attempt EXCEPT ![a].run = run, ![a].pc = next]
    BY DEF Plan, BatchPlan
<1>2. run \in Run
    BY FingerprintType DEF TypeInv, Types, LandingType
<1>3. next \in {"skip", "incomplete"}
    OBVIOUS
<1> HIDE DEF run, next
<1>4. attempt' = [attempt EXCEPT ![a] = [attempt[a] EXCEPT !.run = run, !.pc = next]]
    BY <1>1 DEF TypeInv, Types
<1>5. [attempt[a] EXCEPT !.run = run, !.pc = next] \in AttemptType(checkpoints)
  <2>1. attempt[a] \in AttemptType(checkpoints)
    BY DEF TypeInv, Types
  <2> QED
    BY <1>2, <1>3, <2>1 DEF AttemptType, Progress
<1>6. attempt' \in [Attempt -> AttemptType(checkpoints)]
    BY <1>4, <1>5 DEF TypeInv, Types
<1>7. Types'
    BY <1>1, <1>6 DEF TypeInv, Types, storage, environment
<1>8. /\ \A b \in Attempt \ {a} : attempt'[b] = attempt[b]
      /\ attempt'[a].pc = next
      /\ attempt'[a].completedAt = attempt[a].completedAt
    BY <1>4 DEF TypeInv, Types, AttemptType
<1>9. UNCHANGED Completed /\ \A b : Submitted(b)' = Submitted(b)
    BY <1>1 DEF Completed, Submitted, storage
<1>10. Landed'
    BY <1>1, <1>3, <1>8, <1>9 DEF TypeInv, Landed, storage, environment
<1>11. Clocked'
  <2>1. attempt[a].completedAt = 0
    BY <1>1 DEF TypeInv, Clocked, Completing, Ended
  <2> QED
    BY <1>1, <1>3, <1>8, <1>9, <2>1, TimesKept DEF TypeInv, environment
<1> QED
    BY <1>7, <1>10, <1>11 DEF TypeInv

\* A skip returns a manifest that is stored.
LEMMA SkipKeepsTypes ==
    ASSUME TypeInv, BatchInv, NEW a \in Attempt, Skip(a)
    PROVE  TypeInv'
<1>1. /\ attempt[a].pc = "skip"
      /\ UNCHANGED <<storage, clock, environment>>
      /\ attempt' = [attempt EXCEPT ![a].pc = "returned", ![a].returned = LatestCompleted]
    BY DEF Skip
<1>2. LatestCompleted \in checkpoints \cup {None}
  <2>1. CASE Completed = {}
    BY <2>1 DEF LatestCompleted
  <2>2. CASE Completed # {}
    BY <2>2, LatestChosen DEF BatchInv, Completed
  <2> QED
    BY <2>1, <2>2
<1> DEFINE done == [attempt[a] EXCEPT !.pc = "returned", !.returned = LatestCompleted]
<1>3. attempt' = [attempt EXCEPT ![a] = done]
    BY <1>1 DEF TypeInv, Types
<1>4. done \in AttemptType(checkpoints)
  <2>1. attempt[a] \in AttemptType(checkpoints)
    BY DEF TypeInv, Types
  <2> QED
    BY <1>2, <2>1 DEF AttemptType, Progress, Ended
<1>5. attempt' \in [Attempt -> AttemptType(checkpoints)]
    BY <1>3, <1>4 DEF TypeInv, Types
<1>6. Types'
    BY <1>1, <1>5 DEF TypeInv, Types, storage, environment
<1>7. /\ \A b \in Attempt \ {a} : attempt'[b] = attempt[b]
      /\ attempt'[a].pc = "returned"
      /\ attempt'[a].completedAt = attempt[a].completedAt
    BY <1>3 DEF TypeInv, Types, AttemptType
<1>8. UNCHANGED Completed /\ \A b : Submitted(b)' = Submitted(b)
    BY <1>1 DEF Completed, Submitted, storage
<1>9. Landed'
    BY <1>1, <1>7, <1>8 DEF TypeInv, Landed, storage, environment
<1>10. Clocked'
    BY <1>1, <1>7, <1>8, TimesKept DEF TypeInv, environment, Ended
<1> QED
    BY <1>6, <1>9, <1>10 DEF TypeInv

\* What an attempt persists has the type of a manifest.
LEMMA Manifestsd ==
    ASSUME Types, NEW a \in Attempt, NEW status \in {"incomplete", "completed"}, NEW t \in Nat
    PROVE  Manifest(a, status, t) \in Manifests
<1>1. attempt[a].run \in Run /\ Len(landing[a].parts) \in Nat
    BY DEF Types, AttemptType, LandingType
<1> QED
    BY <1>1 DEF Manifest, Manifests

\* After an incomplete checkpoint the first part is to copy.
LEMMA IncompleteKeepsTypes ==
    ASSUME TypeInv, BatchInv, NEW a \in Attempt, PersistIncomplete(a)
    PROVE  TypeInv'
<1> DEFINE manifest == Manifest(a, "incomplete", 0)
           done == [attempt[a] EXCEPT !.pc = "copy", !.tries = 0]
<1>1. /\ attempt[a].pc = "incomplete"
      /\ UNCHANGED <<landing, bronze, clock, environment>>
      /\ checkpoints' \in {checkpoints, checkpoints \cup {manifest}}
      /\ attempt' = [attempt EXCEPT ![a] = done] \/ Lost(a) \/ Goto(a, "conflict")
    BY DEF PersistIncomplete, Persist
<1>2. manifest \in Manifests /\ manifest.status = "incomplete"
    BY Manifestsd DEF TypeInv, Manifest
<1>3. Shape /\ attempt \in [Attempt -> AttemptType(checkpoints)]
    BY TypesShape DEF TypeInv, Types
<1>4. PICK next \in {"copy", "failed", "incomplete", "conflict"} : Moves(a, next)
  <2>1. CASE attempt' = [attempt EXCEPT ![a] = done]
    BY <1>3, <2>1 DEF Moves, Shape
  <2> HIDE DEF done
  <2> QED
    BY <1>1, <1>3, <2>1, LostMoves, GotoMoves
<1>5. attempt' \in [Attempt -> AttemptType(checkpoints)]
  <2>1. CASE attempt' = [attempt EXCEPT ![a] = done]
    <3>1. 0 \in 0 .. MaximumAttempts - 1
      BY RetryAssumption
    <3>2. attempt[a] \in AttemptType(checkpoints)
      BY <1>3
    <3>3. done \in AttemptType(checkpoints)
      BY <3>1, <3>2 DEF AttemptType, Progress
    <3> HIDE DEF done
    <3> QED
      BY <1>3, <2>1, <3>3
  <2>2. "conflict" \in Progress
    BY DEF Progress, Ended
  <2> HIDE DEF done
  <2> QED
    BY <1>1, <1>3, <2>1, <2>2, LostTypes, GotoTypes
<1> HIDE DEF manifest, done
<1>6. checkpoints \subseteq checkpoints'
    BY <1>1
<1>7. attempt' \in [Attempt -> AttemptType(checkpoints')]
    BY <1>5, <1>6, AttemptTypeGrows
<1>8. Types'
    BY <1>1, <1>2, <1>7 DEF TypeInv, Types, environment
<1>9. UNCHANGED Completed /\ \A b : Submitted(b)' = Submitted(b)
    BY <1>1, <1>2 DEF Completed, Submitted
<1>10. attempt[a].copied < Len(landing[a].parts)
  <2>1. Submitted(a)
    BY <1>1 DEF TypeInv, Landed
  <2>2. PICK s \in past : landing[a].parts \in Exports(s)
    BY <2>1 DEF TypeInv, Landed
  <2>3. s \in Snapshot
    BY DEF TypeInv, Types
  <2>4. landing[a].parts \in Seq(Seq(Row)) /\ landing[a].parts # <<>>
    BY <2>2, <2>3, ExportPrint
  <2>5. attempt[a].copied = 0
    BY <1>1 DEF BatchInv, ProgressTrue
  <2> QED
    BY <2>4, <2>5
<1>11. Landed'
    BY <1>1, <1>4, <1>9, <1>10 DEF TypeInv, Landed, Moves, environment
<1>12. Clocked'
  <2>1. attempt[a].completedAt = 0
    BY <1>1 DEF TypeInv, Clocked, Completing, Ended
  <2> QED
    BY <1>1, <1>4, <1>9, <2>1, TimesKept DEF TypeInv, environment, Moves, Ended
<1> QED
    BY <1>8, <1>11, <1>12 DEF TypeInv

\* A time is drawn once, later than those before it.
LEMMA DrawKeepsClocked ==
    ASSUME TypeInv, InOrder, NEW a \in Attempt, attempt[a].pc = "copy",
           UNCHANGED mode, clock' = clock + 1,
           attempt'[a].completedAt = clock + 1, attempt'[a].pc = "complete",
           \A b \in Attempt \ {a} : attempt'[b] = attempt[b],
           UNCHANGED Completed
    PROVE  Clocked'
<1>1. clock \in Nat /\ \A b \in Attempt : attempt[b].completedAt \in Nat
    BY DEF TypeInv, Types, AttemptType
<1>2. a \notin Drawn
    BY DEF TypeInv, Clocked, Completing, Ended, Drawn
<1>3. Drawn' = Drawn \cup {a}
    BY <1>1 DEF Drawn
<1>4. IsFiniteSet(Drawn)
  <2>1. IsFiniteSet(Attempt)
    BY FS_Interval, RetryAssumption DEF Attempt
  <2>2. Drawn \in SUBSET Attempt
    BY DEF Drawn
  <2> QED
    BY <2>1, <2>2, FS_Subset
<1>5. Cardinality(Drawn') = clock'
  <2>1. Cardinality(Drawn \cup {a}) = Cardinality(Drawn) + 1
    BY <1>2, <1>4, FS_AddElement
  <2> QED
    BY <1>3, <2>1 DEF TypeInv, Clocked
<1>6. \A b \in Attempt \ {a} : attempt[b].completedAt <= clock
    BY DEF TypeInv, Clocked
<1>7. \A b \in Attempt : attempt'[b].completedAt <= clock'
    BY <1>1, <1>6
<1>8. /\ \A b \in Attempt :
            /\ attempt'[b].pc \notin Completing => attempt'[b].completedAt = 0
            /\ attempt'[b].pc = "complete" => attempt'[b].completedAt # 0
      /\ \A m \in Completed' : m.attempt \in Drawn'
    BY <1>1, <1>3 DEF TypeInv, Clocked, Completing
<1>9. ASSUME ~ mode.overlap, NEW b \in Drawn', NEW c \in Drawn', c < b
      PROVE  attempt'[c].completedAt < attempt'[b].completedAt
  <2>1. b \in Attempt /\ c \in Attempt
    BY DEF Drawn
  <2>2. CASE b # a /\ c # a
    BY <1>3, <1>9, <2>1, <2>2 DEF TypeInv, Clocked
  <2>3. CASE b = a
    BY <1>1, <1>6, <1>9, <2>1, <2>3 DEF Attempt
  <2>4. CASE c = a /\ b # a
    <3>1. attempt[b].pc = "new"
      BY <1>9, <2>1, <2>4 DEF InOrder, Running, Ended
    <3>2. attempt[b].completedAt = 0
      BY <2>1, <3>1 DEF TypeInv, Clocked, Completing, Ended
    <3> QED
      BY <1>3, <2>4, <3>2 DEF Drawn
  <2> QED
    BY <2>2, <2>3, <2>4
<1> QED
    BY <1>5, <1>7, <1>8, <1>9 DEF Clocked

\* A copy writes a part of the landing, and the last draws the time.
LEMMA CopyKeepsTypes ==
    ASSUME TypeInv, BatchInv, NEW a \in Attempt, CopyImmutable(a)
    PROVE  TypeInv'
<1> DEFINE part == attempt[a].copied + 1
           object == [run |-> attempt[a].run, attempt |-> a, part |-> part,
                      payload |-> landing[a].parts[part]]
<1>1. /\ attempt[a].pc = "copy"
      /\ UNCHANGED <<landing, checkpoints, environment>>
      /\ bronze' \in {bronze, bronze \cup {object}}
      /\ Copied(a, part) \/ (Lost(a) /\ UNCHANGED clock)
    BY DEF CopyImmutable
<1>2. /\ attempt[a].copied \in Nat /\ attempt[a].run \in Run
      /\ landing[a].parts \in Seq(Seq(Row)) /\ attempt[a].copied < Len(landing[a].parts)
      /\ clock \in Nat
    BY <1>1 DEF TypeInv, Types, Landed, AttemptType, LandingType
<1>3. part \in 1 .. Len(landing[a].parts) /\ part \in Nat
    BY <1>2
<1>4. object \in ObjectType
  <2>1. landing[a].parts[part] \in Seq(Row)
    BY <1>2, <1>3
  <2> QED
    BY <1>2, <1>3, <2>1 DEF ObjectType
<1> HIDE DEF object
<1>5. bronze' \subseteq ObjectType
    BY <1>1, <1>4 DEF TypeInv, Types
<1>6. Shape /\ attempt \in [Attempt -> AttemptType(checkpoints)]
    BY TypesShape DEF TypeInv, Types
<1>7. attempt[a] \in AttemptType(checkpoints) /\ 0 \in 0 .. MaximumAttempts - 1
    BY <1>6, RetryAssumption
<1>8. UNCHANGED Completed /\ \A b : Submitted(b)' = Submitted(b)
    BY <1>1 DEF Completed, Submitted
<1>9. CASE Copied(a, part) /\ part < Len(landing[a].parts)
  <2> DEFINE next == [attempt[a] EXCEPT !.copied = part, !.tries = 0]
  <2>1. UNCHANGED clock /\ attempt' = [attempt EXCEPT ![a] = next]
    BY <1>6, <1>9 DEF Copied
  <2>2. next \in AttemptType(checkpoints)
    BY <1>3, <1>7 DEF AttemptType
  <2>3. next.pc = "copy" /\ next.copied = part /\ next.completedAt = attempt[a].completedAt
    BY <1>1, <1>7 DEF AttemptType
  <2> HIDE DEF part, next
  <2>4. Types'
    BY <1>1, <1>5, <1>6, <2>1, <2>2 DEF TypeInv, Types, environment
  <2>5. Landed'
    BY <1>1, <1>6, <1>8, <1>9, <2>1, <2>3 DEF TypeInv, Landed, environment
  <2>6. \A b \in Attempt : attempt'[b].completedAt = attempt[b].completedAt
                              /\ attempt'[b].pc = attempt[b].pc
    BY <1>1, <1>6, <2>1, <2>3
  <2>7. Clocked'
    BY <1>1, <1>8, <2>1, <2>6, TimesKept DEF TypeInv, environment
  <2> QED
    BY <2>4, <2>5, <2>7 DEF TypeInv
<1>10. CASE Copied(a, part) /\ ~ (part < Len(landing[a].parts))
  <2> DEFINE next == [attempt[a] EXCEPT !.copied = part, !.tries = 0,
                                        !.pc = "complete", !.completedAt = clock + 1]
  <2>1. clock' = clock + 1 /\ attempt' = [attempt EXCEPT ![a] = next]
    BY <1>6, <1>10 DEF Copied
  <2>2. next \in AttemptType(checkpoints)
    <3> DEFINE t == clock + 1
    <3>1. t \in Nat /\ part \in Nat
      BY <1>2, <1>3
    <3> HIDE DEF t, part
    <3>2. [attempt[a] EXCEPT !.copied = part, !.tries = 0, !.pc = "complete", !.completedAt = t]
            \in AttemptType(checkpoints)
      BY <1>7, <3>1 DEF AttemptType, Progress
    <3> QED
      BY <3>2 DEF t
  <2>3. next.pc = "complete" /\ next.completedAt = clock + 1
    BY <1>7 DEF AttemptType
  <2> HIDE DEF part, next
  <2>4. Types'
    BY <1>1, <1>2, <1>5, <1>6, <2>1, <2>2 DEF TypeInv, Types, environment
  <2>5. Landed'
    BY <1>1, <1>6, <1>8, <2>1, <2>3 DEF TypeInv, Landed, environment
  <2>6. Clocked'
    BY <1>1, <1>6, <1>8, <2>1, <2>3, DrawKeepsClocked DEF environment, BatchInv
  <2> QED
    BY <2>4, <2>5, <2>6 DEF TypeInv
<1>11. CASE Lost(a) /\ UNCHANGED clock
  <2>1. attempt' \in [Attempt -> AttemptType(checkpoints)]
    BY <1>6, <1>11, LostTypes
  <2> HIDE DEF part
  <2>2. Types'
    BY <1>1, <1>5, <1>11, <2>1 DEF TypeInv, Types, environment
  <2>3. PICK next \in {"failed", "copy"} : Moves(a, next)
    BY <1>1, <1>6, <1>11, LostMoves
  <2>4. Landed'
    BY <1>1, <1>8, <2>3 DEF TypeInv, Landed, Moves, environment
  <2>5. Clocked'
    BY <1>1, <1>8, <1>11, <2>3, TimesKept DEF TypeInv, environment, Moves, Ended
  <2> QED
    BY <2>2, <2>4, <2>5 DEF TypeInv
<1> QED
    BY <1>1, <1>9, <1>10, <1>11

\* The completed checkpoint is that of an attempt which exported.
LEMMA CompletedKeepsTypes ==
    ASSUME TypeInv, NEW a \in Attempt, PersistCompleted(a)
    PROVE  TypeInv'
<1> DEFINE manifest == Manifest(a, "completed", attempt[a].completedAt)
           done == [attempt[a] EXCEPT !.pc = "returned", !.tries = 0, !.returned = manifest]
           stored == {m \in checkpoints : CheckpointUri(m) = CheckpointUri(manifest)}
<1>1. /\ attempt[a].pc = "complete"
      /\ UNCHANGED <<landing, bronze, clock, environment>>
      /\ checkpoints' \in {checkpoints, checkpoints \cup {manifest}}
      /\ \/ attempt' = [attempt EXCEPT ![a] = done] /\ manifest \in checkpoints'
         \/ Lost(a)
         \/ Goto(a, "conflict")
  <2>1. Persist(a, manifest, done)
    BY DEF PersistCompleted
  <2>2. stored = {manifest} => manifest \in checkpoints
    OBVIOUS
  <2> HIDE DEF manifest, done
  <2> QED
    BY <2>1, <2>2 DEF Persist, PersistCompleted
<1>2. Shape /\ attempt \in [Attempt -> AttemptType(checkpoints)]
    BY TypesShape DEF TypeInv, Types
<1>3. attempt[a] \in AttemptType(checkpoints)
    BY <1>2
<1>4. manifest \in Manifests /\ manifest.attempt = a
    BY <1>3, Manifestsd DEF TypeInv, Manifest, AttemptType
<1> HIDE DEF manifest
<1>5. PICK next \in {"returned", "failed", "complete", "conflict"} :
        /\ attempt'[a].pc = next
        /\ attempt'[a].completedAt = attempt[a].completedAt
        /\ \A b \in Attempt \ {a} : attempt'[b] = attempt[b]
  <2>1. CASE attempt' = [attempt EXCEPT ![a] = done]
    BY <1>2, <1>3, <2>1 DEF AttemptType
  <2> HIDE DEF done
  <2> QED
    BY <1>1, <1>2, <2>1, LostMoves, GotoMoves DEF Moves
<1>6. checkpoints \subseteq checkpoints'
    BY <1>1
<1>7. attempt' \in [Attempt -> AttemptType(checkpoints')]
  <2>1. CASE attempt' = [attempt EXCEPT ![a] = done] /\ manifest \in checkpoints'
    <3>1. attempt \in [Attempt -> AttemptType(checkpoints')]
      BY <1>2, <1>6, AttemptTypeGrows
    <3>2. attempt[a] \in AttemptType(checkpoints') /\ 0 \in 0 .. MaximumAttempts - 1
      BY <3>1, RetryAssumption
    <3>3. done \in AttemptType(checkpoints')
      BY <2>1, <3>2 DEF AttemptType, Progress, Ended
    <3> HIDE DEF done
    <3> QED
      BY <2>1, <3>1, <3>3
  <2>2. CASE Lost(a) \/ Goto(a, "conflict")
    <3>1. "conflict" \in Progress
      BY DEF Progress, Ended
    <3>2. attempt' \in [Attempt -> AttemptType(checkpoints)]
      BY <1>2, <2>2, <3>1, LostTypes, GotoTypes
    <3> QED
      BY <1>6, <3>2, AttemptTypeGrows
  <2> HIDE DEF done
  <2> QED
    BY <1>1, <2>1, <2>2
<1> HIDE DEF done, stored
<1>8. Types'
    BY <1>1, <1>4, <1>7 DEF TypeInv, Types, environment
<1>9. \A b : Submitted(b)' = Submitted(b)
    BY <1>1 DEF Submitted
<1>10. Landed'
  <2>1. Completed' \subseteq Completed \cup {manifest}
    BY <1>1 DEF Completed
  <2>2. Submitted(a)
    BY <1>1 DEF TypeInv, Landed
  <2>3. \A m \in Completed' : Submitted(m.attempt)'
    BY <1>4, <1>9, <2>1, <2>2 DEF TypeInv, Landed
  <2> QED
    BY <1>1, <1>5, <1>9, <2>3 DEF TypeInv, Landed, environment
<1>11. Clocked'
  <2>1. a \in Drawn
    BY <1>1 DEF TypeInv, Clocked, Drawn
  <2>2. \A m \in Completed' : m \in Completed \/ m.attempt \in Drawn
    BY <1>1, <1>4, <2>1 DEF Completed
  <2> QED
    BY <1>1, <1>5, <2>2, TimesKept DEF TypeInv, environment, Ended
<1> QED
    BY <1>8, <1>10, <1>11 DEF TypeInv

LEMMA TypeNext == TypeInv /\ BatchInv /\ [Next]_vars => TypeInv'
<1> SUFFICES ASSUME TypeInv, BatchInv, [Next]_vars PROVE TypeInv'
    OBVIOUS
<1>1. ASSUME NEW a \in Attempt, Step(a) PROVE TypeInv'
    BY <1>1, QuietKeepsTypes, ExportKeepsTypes, PlanKeepsTypes, SkipKeepsTypes,
       IncompleteKeepsTypes, CopyKeepsTypes, CompletedKeepsTypes DEF Step
<1>2. CASE SourceChanges
    BY <1>2, SourceKeepsTypes
<1>3. CASE UNCHANGED vars
  <2>1. UNCHANGED <<landing, bronze, checkpoints, attempt, clock, source, mode, past>>
    BY <1>3 DEF vars, storage, environment
  <2>2. UNCHANGED <<Completed, Drawn>> /\ \A b : Submitted(b)' = Submitted(b)
    BY <2>1 DEF Completed, Submitted, Drawn
  <2>3. Types'
    BY <2>1 DEF TypeInv, Types
  <2>4. Landed' /\ Clocked'
    BY <2>1, <2>2 DEF TypeInv, Landed, Clocked
  <2> QED
    BY <2>3, <2>4 DEF TypeInv
<1> QED
    BY <1>1, <1>2, <1>3 DEF Next

\* The types hold, at most as many completion times are drawn as there are attempts, and
\* what an attempt exported is a content the source had.
THEOREM BatchTypes == Spec => []TypeOK
<1>1. Init => TypeInv /\ BatchInv
    BY TypeInit, BatchInit
<1>2. TypeInv /\ BatchInv /\ [Next]_vars => (TypeInv /\ BatchInv)'
    BY TypeNext, BatchNext
<1> QED
    BY <1>1, <1>2, TypeInvTypes, PTL DEF Spec

----------------------------------------------------------------------------
(* The contents, one attempt at a time.                                    *)

ContentId(a) == Fingerprint(landing[a].parts)

Current == Fingerprint(<<source.rows>>)

\* Attempts do not overlap and a content that has gone does not return.
OneByOne == ~ mode.overlap /\ ~ mode.reverts

\* All the exports between two of one content are of that content, and so are those since
\* the first of the content the source has now.
InTurn ==
    OneByOne =>
        \A b, c \in Attempt : b < c /\ Submitted(b) /\ Submitted(c) =>
            /\ ContentId(b) = Current => ContentId(c) = Current
            /\ \A a \in Attempt :
                 c < a /\ Submitted(a) /\ ContentId(b) = ContentId(a) => ContentId(c) = ContentId(a)

\* No attempt is refused, and one that writes has a content no other completed.
Fresh ==
    OneByOne =>
        \A a \in Attempt :
            /\ attempt[a].pc # "conflict"
            /\ attempt[a].pc \in {"incomplete", "copy", "complete"} =>
                 \A m \in Completed : m.run = attempt[a].run => m.attempt = a

TurnInv == InTurn /\ Fresh

LEMMA TurnInit == Init => TurnInv
    BY DEF Init, TurnInv, InTurn, Fresh, Submitted, Completed

\* What is exported is known by the fingerprint of a content the source had.
LEMMA ExportedContent ==
    ASSUME TypeInv, NEW a \in Attempt, Submitted(a)
    PROVE  \E s \in past : s \in Snapshot /\ ContentId(a) = Fingerprint(<<s>>)
<1>1. PICK s \in past : landing[a].parts \in Exports(s)
    BY DEF TypeInv, Landed
<1>2. s \in Snapshot
    BY DEF TypeInv, Types
<1> QED
    BY <1>1, <1>2, ExportPrint DEF ContentId

\* Without overlap an attempt that runs is the last to have started.
LEMMA LastToStart ==
    ASSUME BatchInv, ~ mode.overlap, NEW a \in Attempt, Running(a),
           NEW b \in Attempt, attempt[b].pc # "new"
    PROVE  b <= a
    BY DEF BatchInv, InOrder, Attempt

\* An export of the source's content comes in turn.
LEMMA ExportInTurn ==
    ASSUME TypeInv, BatchInv, InTurn, NEW a \in Attempt, SubmitExport(a)
    PROVE  InTurn'
<1> SUFFICES ASSUME OneByOne PROVE InTurn'
    BY DEF SubmitExport, environment, InTurn, OneByOne
<1>1. /\ attempt[a].pc = "export" /\ ~ Submitted(a)
      /\ UNCHANGED <<source, mode>>
    BY DEF SubmitExport, environment
<1>2. PICK parts \in Exports(source.rows) :
        landing' = [landing EXCEPT ![a] = SnapshotExport(parts)]
    BY DEF SubmitExport
<1>3. source.rows \in Snapshot
    BY DEF TypeInv, Types
<1>4. /\ landing'[a].parts = parts
      /\ \A b \in Attempt \ {a} : landing'[b] = landing[b]
    BY <1>2 DEF TypeInv, Types, SnapshotExport
<1>5. ContentId(a)' = Current
    BY <1>3, <1>4, ExportPrint DEF ContentId, Current
<1>6. \A b \in Attempt \ {a} : ContentId(b)' = ContentId(b) /\ Submitted(b)' = Submitted(b)
    BY <1>4 DEF ContentId, Submitted
<1>7. UNCHANGED Current /\ UNCHANGED OneByOne
    BY <1>1 DEF Current, OneByOne
<1>8. \A b \in Attempt : Submitted(b) => ~ (a < b)
  <2> SUFFICES ASSUME NEW b \in Attempt, Submitted(b) PROVE ~ (a < b)
    OBVIOUS
  <2>1. attempt[b].pc # "new"
    BY DEF TypeInv, Landed
  <2>2. b <= a
    BY <1>1, <2>1, LastToStart DEF OneByOne, Running, Ended
  <2> QED
    BY <2>2 DEF Attempt
<1> SUFFICES ASSUME NEW b \in Attempt, NEW c \in Attempt, b < c, Submitted(b)', Submitted(c)'
             PROVE  /\ ContentId(b)' = Current => ContentId(c)' = Current
                    /\ \A d \in Attempt :
                         c < d /\ Submitted(d)' /\ ContentId(b)' = ContentId(d)'
                            => ContentId(c)' = ContentId(d)'
    BY <1>7 DEF InTurn
<1> HIDE DEF Attempt
<1>9. b # a
  <2> SUFFICES ASSUME b = a PROVE FALSE
    OBVIOUS
  <2>1. c # a
    BY DEF Attempt
  <2> QED
    BY <1>6, <1>8, <2>1
<1>10. ContentId(b)' = Current => ContentId(c)' = Current
    BY <1>5, <1>6, <1>9 DEF InTurn
<1>11. ASSUME NEW d \in Attempt, c < d, Submitted(d)', ContentId(b)' = ContentId(d)'
       PROVE  ContentId(c)' = ContentId(d)'
  <2>1. c # a
    <3> SUFFICES ASSUME c = a PROVE FALSE
      OBVIOUS
    <3>1. d # a
      BY <1>11 DEF Attempt
    <3> QED
      BY <1>6, <1>8, <1>11, <3>1
  <2>2. CASE d = a
    BY <1>5, <1>6, <1>9, <1>11, <2>1, <2>2 DEF InTurn
  <2>3. CASE d # a
    BY <1>6, <1>9, <1>11, <2>1, <2>3 DEF InTurn
  <2> QED
    BY <2>2, <2>3
<1> QED
    BY <1>10, <1>11

\* A new content is that of no export yet.
LEMMA SourceInTurn ==
    ASSUME TypeInv, InTurn, SourceChanges
    PROVE  InTurn'
<1>1. PICK content \in Snapshot, schema \in Schema :
        /\ mode.reverts \/ content \notin past \/ content = source.rows
        /\ source' = [rows |-> content, schema |-> schema]
    BY DEF SourceChanges
<1>2. UNCHANGED <<landing, mode>>
    BY DEF SourceChanges, storage
<1>3. \A b : ContentId(b)' = ContentId(b) /\ Submitted(b)' = Submitted(b)
    BY <1>2 DEF ContentId, Submitted
<1>4. UNCHANGED OneByOne
    BY <1>2 DEF OneByOne
<1>5. CASE content = source.rows
  <2>1. UNCHANGED Current
    BY <1>1, <1>5 DEF Current
  <2> QED
    BY <1>3, <1>4, <2>1 DEF InTurn
<1>6. CASE OneByOne /\ content \notin past
  <2>1. \A b \in Attempt : Submitted(b) => ContentId(b) # Current'
    <3> SUFFICES ASSUME NEW b \in Attempt, Submitted(b) PROVE ContentId(b) # Current'
      OBVIOUS
    <3>1. PICK s \in past : s \in Snapshot /\ ContentId(b) = Fingerprint(<<s>>)
      BY ExportedContent
    <3>2. Current' = Fingerprint(<<content>>) /\ content # s
      BY <1>1, <1>6 DEF Current
    <3> QED
      BY <3>1, <3>2, FingerprintAssumption
  <2> QED
    BY <1>3, <1>4, <2>1 DEF InTurn
<1> QED
    BY <1>1, <1>4, <1>5, <1>6 DEF InTurn, OneByOne

\* Any other step leaves the exports alone.
LEMMA OthersInTurn ==
    ASSUME InTurn, UNCHANGED <<landing, source, mode>>
    PROVE  InTurn'
<1>1. \A b : ContentId(b)' = ContentId(b) /\ Submitted(b)' = Submitted(b)
    BY DEF ContentId, Submitted
<1>2. UNCHANGED <<Current, OneByOne>>
    BY DEF Current, OneByOne
<1> QED
    BY <1>1, <1>2 DEF InTurn

LEMMA TurnNext == TypeInv /\ BatchInv /\ InTurn /\ [Next]_vars => InTurn'
<1> SUFFICES ASSUME TypeInv, BatchInv, InTurn, [Next]_vars PROVE InTurn'
    OBVIOUS
<1>1. \/ \E a \in Attempt : SubmitExport(a)
      \/ SourceChanges
      \/ UNCHANGED <<landing, source, mode>>
    BY DEF Next, Step, vars, storage, environment, Estimate, RecoverExport, Plan, RejectLanding,
           Skip, PersistIncomplete, CopyImmutable, PersistCompleted, RequestLost, Crash
<1> QED
    BY <1>1, ExportInTurn, SourceInTurn, OthersInTurn

\* The latest completed manifest, when there is one, is no older than another.
LEMMA LatestIsLatest ==
    ASSUME HasLatest, NEW m \in Completed
    PROVE  LatestCompleted \in Completed /\ m.completedAt <= LatestCompleted.completedAt
    BY DEF HasLatest, LatestCompleted

\* What a completed manifest says of its attempt.
LEMMA CompletedFacts ==
    ASSUME TypeInv, BatchInv, NEW m \in Completed
    PROVE  /\ m.attempt \in Attempt /\ m \in Manifests /\ m = ManifestOf(m.attempt, "completed")
           /\ Submitted(m.attempt) /\ m.run = ContentId(m.attempt)
           /\ m.completedAt = attempt[m.attempt].completedAt /\ m.attempt \in Drawn
           /\ attempt[m.attempt].pc \in Completing
<1>1. /\ m.attempt \in Attempt /\ m = ManifestOf(m.attempt, "completed")
      /\ attempt[m.attempt].pc \in Completing
    BY DEF BatchInv, CheckpointNamed, Completed
<1>2. m \in Manifests /\ Submitted(m.attempt) /\ m.attempt \in Drawn
    BY DEF TypeInv, Types, Landed, Clocked, Completed
<1>3. attempt[m.attempt].run = ContentId(m.attempt)
    BY DEF BatchInv, AllBacked, Backed, ContentId
<1>4. m.run = attempt[m.attempt].run /\ m.completedAt = attempt[m.attempt].completedAt
    BY <1>1 DEF ManifestOf, Manifest
<1> QED
    BY <1>1, <1>2, <1>3, <1>4

\* A plan that goes on has found a content no attempt completed: had one completed it, so
\* would have all those exported since, the latest completed among them.
LEMMA PlanIsFresh ==
    ASSUME TypeInv, BatchInv, InTurn, OneByOne, NEW a \in Attempt, attempt[a].pc = "plan",
           ~ Matches(LatestCompleted, ContentId(a)),
           NEW m \in Completed
    PROVE  m.run # ContentId(a)
<1> SUFFICES ASSUME m.run = ContentId(a) PROVE FALSE
    OBVIOUS
<1> DEFINE L == LatestCompleted
           b == m.attempt
           c == L.attempt
<1>1. L \in Completed /\ m.completedAt <= L.completedAt
    BY LatestIsLatest DEF BatchInv
<1> HIDE DEF L
<1>2. /\ b \in Attempt /\ m = ManifestOf(b, "completed") /\ Submitted(b)
      /\ m.run = ContentId(b) /\ m.completedAt = attempt[b].completedAt
      /\ b \in Drawn /\ attempt[b].pc \in Completing
    BY CompletedFacts
<1>3. /\ c \in Attempt /\ L = ManifestOf(c, "completed") /\ Submitted(c) /\ L \in Manifests
      /\ L.run = ContentId(c) /\ L.completedAt = attempt[c].completedAt
      /\ c \in Drawn /\ attempt[c].pc \in Completing
    BY <1>1, CompletedFacts
<1>4. L.run # ContentId(a)
    BY <1>3, NoneAssumption DEF Matches, L
<1>5. Running(a) /\ ~ mode.overlap /\ Submitted(a)
    BY DEF Running, Ended, OneByOne, TypeInv, Landed
<1>6. b <= a /\ c <= a
    BY <1>2, <1>3, <1>5, LastToStart DEF Completing, Ended
<1>7. b # a /\ c # a
    BY <1>2, <1>3 DEF Completing, Ended
<1>8. b # c
    BY <1>2, <1>3, <1>4
<1>9. ~ (c < b)
  <2> SUFFICES ASSUME c < b PROVE FALSE
    OBVIOUS
  <2>1. attempt[c].completedAt < attempt[b].completedAt
    BY <1>2, <1>3, <1>5 DEF TypeInv, Clocked
  <2>2. attempt[b].completedAt \in Nat /\ attempt[c].completedAt \in Nat
    BY <1>2, <1>3 DEF TypeInv, Types, AttemptType
  <2> QED
    BY <1>1, <1>2, <1>3, <2>1, <2>2
<1>10. b < c /\ c < a
    BY <1>2, <1>3, <1>6, <1>7, <1>8, <1>9 DEF Attempt
<1>11. ContentId(c) = ContentId(a)
    BY <1>2, <1>3, <1>5, <1>10 DEF InTurn
<1> QED
    BY <1>3, <1>4, <1>11

\* A step after which the attempt of each content is as before, or one has ended.
LEMMA OthersFresh ==
    ASSUME Fresh, UNCHANGED mode, Completed' = Completed,
           \A b \in Attempt :
                /\ attempt'[b].run = attempt[b].run
                /\ attempt'[b].pc \in {"incomplete", "copy", "complete"} =>
                        attempt[b].pc \in {"incomplete", "copy", "complete"}
                /\ attempt'[b].pc = "conflict" => attempt[b].pc = "conflict"
    PROVE  Fresh'
<1>1. UNCHANGED OneByOne
    BY DEF OneByOne
<1> QED
    BY <1>1 DEF Fresh

LEMMA QuietIsFresh ==
    ASSUME TypeInv, Fresh, NEW a \in Attempt,
           \/ Estimate(a) \/ RecoverExport(a) \/ RejectLanding(a) \/ RequestLost(a) \/ Crash(a)
           \/ SubmitExport(a) \/ Skip(a)
    PROVE  Fresh'
<1>1. UNCHANGED <<checkpoints, mode>>
    BY DEF Estimate, RecoverExport, RejectLanding, RequestLost, Crash, SubmitExport, Skip,
           storage, environment
<1>2. Shape
    BY TypesShape DEF TypeInv
<1>3. CASE Skip(a)
  <2>1. attempt' = [attempt EXCEPT ![a].pc = "returned", ![a].returned = LatestCompleted]
    BY <1>3 DEF Skip
  <2>2. /\ attempt'[a].pc = "returned" /\ attempt'[a].run = attempt[a].run
        /\ \A b \in Attempt \ {a} : attempt'[b] = attempt[b]
    BY <1>2, <2>1 DEF Shape
  <2> QED
    BY <1>1, <2>2, OthersFresh DEF Completed
<1>4. CASE ~ Skip(a)
  <2>1. PICK next \in {attempt[a].pc, "failed", "export", "plan"} : Moves(a, next)
    BY <1>2, <1>4, GotoMoves, LostMoves
    DEF Estimate, RecoverExport, RejectLanding, RequestLost, Crash, SubmitExport
  <2> QED
    BY <1>1, <2>1, OthersFresh DEF Moves, Completed
<1> QED
    BY <1>3, <1>4

LEMMA PlanKeepsFresh ==
    ASSUME TypeInv, BatchInv, InTurn, Fresh, NEW a \in Attempt, Plan(a)
    PROVE  Fresh'
<1> SUFFICES ASSUME OneByOne PROVE Fresh'
    BY DEF Plan, environment, Fresh, OneByOne
<1> DEFINE run == ContentId(a)
           next == IF Matches(LatestCompleted, run) THEN "skip" ELSE "incomplete"
<1>1. /\ attempt[a].pc = "plan"
      /\ UNCHANGED <<checkpoints, mode>>
      /\ attempt' = [attempt EXCEPT ![a].run = run, ![a].pc = next]
    BY DEF Plan, BatchPlan, ContentId, storage, environment
<1>2. next # "skip" => ~ Matches(LatestCompleted, ContentId(a))
    OBVIOUS
<1>3. next \in {"skip", "incomplete"}
    OBVIOUS
<1> HIDE DEF next
<1>4. /\ attempt'[a].pc = next /\ attempt'[a].run = ContentId(a)
      /\ \A b \in Attempt \ {a} : attempt'[b] = attempt[b]
    BY <1>1, TypesShape DEF TypeInv, Shape
<1>5. next = "incomplete" => \A m \in Completed : m.run # ContentId(a)
    BY <1>1, <1>2, PlanIsFresh
<1>6. UNCHANGED <<Completed, OneByOne>>
    BY <1>1 DEF Completed, OneByOne
<1> QED
    BY <1>3, <1>4, <1>5, <1>6 DEF Fresh

\* The attempt has its own incomplete uri, so it is not refused there.
LEMMA IncompleteKeepsFresh ==
    ASSUME TypeInv, BatchInv, Fresh, NEW a \in Attempt, PersistIncomplete(a)
    PROVE  Fresh'
<1> DEFINE manifest == ManifestOf(a, "incomplete")
           stored == {m \in checkpoints : CheckpointUri(m) = CheckpointUri(manifest)}
<1>1. /\ attempt[a].pc = "incomplete" /\ UNCHANGED mode
      /\ manifest = Manifest(a, "incomplete", 0)
    BY DEF PersistIncomplete, environment, ManifestOf
<1>2. stored \subseteq {manifest}
    BY DEF BatchInv, CheckpointNamed, CheckpointUri, ManifestOf, Manifest
<1>3. checkpoints' \in {checkpoints, checkpoints \cup {manifest}}
    BY <1>1 DEF PersistIncomplete, Persist
<1>4. UNCHANGED Completed
    BY <1>1, <1>3 DEF Completed, Manifest
<1>5. Shape
    BY TypesShape DEF TypeInv
<1>6. PICK next \in {"copy", "failed", "incomplete"} : Moves(a, next)
  <2>1. CASE attempt' = [attempt EXCEPT ![a] = [attempt[a] EXCEPT !.pc = "copy", !.tries = 0]]
    BY <1>5, <2>1 DEF Moves, Shape
  <2>2. CASE Lost(a)
    BY <1>1, <1>5, <2>2, LostMoves
  <2> QED
    BY <1>1, <1>2, <2>1, <2>2 DEF PersistIncomplete, Persist
<1> QED
    BY <1>1, <1>4, <1>6, OthersFresh DEF Moves

LEMMA CopyKeepsFresh ==
    ASSUME TypeInv, Fresh, NEW a \in Attempt, CopyImmutable(a)
    PROVE  Fresh'
<1> DEFINE part == attempt[a].copied + 1
<1>1. /\ attempt[a].pc = "copy" /\ UNCHANGED <<checkpoints, mode>>
      /\ Copied(a, part) \/ Lost(a)
    BY DEF CopyImmutable, environment
<1>2. Shape
    BY TypesShape DEF TypeInv
<1>3. /\ attempt'[a].pc \in {"copy", "complete", "failed"}
      /\ attempt'[a].run = attempt[a].run
      /\ \A b \in Attempt \ {a} : attempt'[b] = attempt[b]
  <2>1. CASE Copied(a, part)
    BY <1>1, <1>2, <2>1 DEF Copied, Shape
  <2>2. CASE Lost(a)
    BY <1>1, <1>2, <2>2, LostMoves DEF Moves
  <2> QED
    BY <1>1, <2>1, <2>2
<1> QED
    BY <1>1, <1>3, OthersFresh DEF Completed

\* The completed uri of the content holds this attempt's checkpoint or none.
LEMMA CompletedKeepsFresh ==
    ASSUME TypeInv, BatchInv, Fresh, NEW a \in Attempt, PersistCompleted(a)
    PROVE  Fresh'
<1> SUFFICES ASSUME OneByOne PROVE Fresh'
    BY DEF PersistCompleted, environment, Fresh, OneByOne
<1> DEFINE manifest == ManifestOf(a, "completed")
           stored == {m \in checkpoints : CheckpointUri(m) = CheckpointUri(manifest)}
           done == [attempt[a] EXCEPT !.pc = "returned", !.tries = 0, !.returned = manifest]
<1>1. /\ attempt[a].pc = "complete" /\ UNCHANGED mode
      /\ manifest = Manifest(a, "completed", attempt[a].completedAt)
    BY DEF PersistCompleted, environment, ManifestOf
<1>2. manifest.attempt = a /\ manifest.status = "completed" /\ manifest.run = attempt[a].run
    BY <1>1 DEF Manifest
<1>3. stored \subseteq {manifest}
  <2> SUFFICES ASSUME NEW m \in stored PROVE m = manifest
    OBVIOUS
  <2>1. m \in Completed /\ m.run = attempt[a].run
    BY <1>2 DEF CheckpointUri, Completed
  <2>2. m.attempt = a
    BY <1>1, <2>1 DEF Fresh
  <2> QED
    BY <2>1, <2>2, CompletedFacts
<1>4. /\ checkpoints' \in {checkpoints, checkpoints \cup {manifest}}
      /\ attempt' = [attempt EXCEPT ![a] = done] \/ Lost(a)
  <2>1. Persist(a, manifest, done)
    BY <1>1 DEF PersistCompleted
  <2> HIDE DEF done, manifest
  <2> QED
    BY <1>3, <2>1 DEF Persist
<1>5. Shape
    BY TypesShape DEF TypeInv
<1>6. /\ attempt'[a].pc \in {"returned", "failed", "complete"}
      /\ attempt'[a].run = attempt[a].run
      /\ \A b \in Attempt \ {a} : attempt'[b] = attempt[b]
  <2>1. CASE attempt' = [attempt EXCEPT ![a] = done]
    BY <1>5, <2>1 DEF Shape
  <2> HIDE DEF done
  <2> QED
    BY <1>1, <1>4, <1>5, <2>1, LostMoves DEF Moves
<1>7. \A b \in Attempt \ {a} : ~ Running(b)
    BY <1>1 DEF BatchInv, InOrder, OneByOne, Running, Ended, Attempt
<1>8. Completed' \subseteq Completed \cup {manifest}
    BY <1>4 DEF Completed
<1>9. UNCHANGED OneByOne
    BY <1>1 DEF OneByOne
<1>10. \A b \in Attempt \ {a} : attempt'[b].pc \notin {"incomplete", "copy", "complete"}
    BY <1>6, <1>7 DEF Running, Ended
<1> HIDE DEF manifest, done, stored
<1>11. \A m \in Completed' : m.run = attempt[a].run => m.attempt = a
    BY <1>1, <1>2, <1>8 DEF Fresh
<1>12. \A b \in Attempt : attempt'[b].pc # "conflict"
    BY <1>6 DEF Fresh
<1> QED
    BY <1>6, <1>9, <1>10, <1>11, <1>12 DEF Fresh

LEMMA FreshNext == TypeInv /\ BatchInv /\ TurnInv /\ [Next]_vars => Fresh'
<1> SUFFICES ASSUME TypeInv, BatchInv, InTurn, Fresh, [Next]_vars PROVE Fresh'
    BY DEF TurnInv
<1>1. ASSUME NEW a \in Attempt, Step(a) PROVE Fresh'
    BY <1>1, QuietIsFresh, PlanKeepsFresh, IncompleteKeepsFresh, CopyKeepsFresh,
       CompletedKeepsFresh DEF Step
<1>2. CASE SourceChanges \/ UNCHANGED vars
  <2>1. UNCHANGED <<attempt, checkpoints, mode>>
    BY <1>2 DEF SourceChanges, vars, storage, environment
  <2> QED
    BY <2>1, OthersFresh DEF Completed
<1> QED
    BY <1>1, <1>2 DEF Next

\* The types hold, the contents come in turn and an attempt that writes has a fresh one,
\* in every reachable state.
LEMMA BatchAll == Spec => [](TypeInv /\ BatchInv /\ TurnInv)
<1>1. Init => TypeInv /\ BatchInv /\ TurnInv
    BY TypeInit, BatchInit, TurnInit
<1>2. TypeInv /\ BatchInv /\ TurnInv /\ [Next]_vars => (TypeInv /\ BatchInv /\ TurnInv)'
    BY TypeNext, BatchNext, TurnNext, FreshNext DEF TurnInv
<1> QED
    BY <1>1, <1>2, PTL DEF Spec

\* A manifest conflict always has a rival, another attempt that completed the same content;
\* one at a time over content never seen before, no attempt ends in a conflict whatever
\* answers were lost and whatever attempts died before it.
THEOREM ConflictsHaveRivals == Spec => []ConflictNeedsRival
<1>1. TypeInv /\ BatchInv /\ TurnInv => ConflictNeedsRival
    BY DEF BatchInv, Rivals, HasRival, TurnInv, Fresh, OneByOne, ConflictNeedsRival
<1> QED
    BY <1>1, BatchAll, PTL

\* Two completed checkpoints never hold the same content, in whatever order of rows and in
\* whatever parts each was exported.
THEOREM OneCheckpoint == Spec => []OneCheckpointPerContent
<1>1. TypeInv /\ BatchInv => OneCheckpointPerContent
  <2> SUFFICES ASSUME TypeInv, BatchInv, NEW m \in Completed, NEW n \in Completed,
                      ContentOf(landing[m.attempt].parts) = ContentOf(landing[n.attempt].parts)
               PROVE  m = n
    BY DEF OneCheckpointPerContent
  <2>1. /\ m.attempt \in Attempt /\ m.run = Fingerprint(landing[m.attempt].parts)
        /\ n.attempt \in Attempt /\ n.run = Fingerprint(landing[n.attempt].parts)
    BY CompletedFacts DEF ContentId
  <2>2. landing[m.attempt].parts \in Seq(Seq(Row)) /\ landing[n.attempt].parts \in Seq(Seq(Row))
    BY <2>1 DEF TypeInv, Types, LandingType
  <2>3. m.run = n.run
    BY <2>1, <2>2, ContentPrint
  <2>4. CheckpointUri(m) = CheckpointUri(n)
    BY <2>3 DEF CheckpointUri, Completed
  <2> QED
    BY <2>4 DEF BatchInv, OneUri, Completed
<1> QED
    BY <1>1, BatchAll, PTL

================================================================================
