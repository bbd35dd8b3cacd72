---------------------------- MODULE NumberLemmas ----------------------------
(***************************************************************************)
(* Facts about integers, sets of them and sequences that the proofs about  *)
(* the components share.                                                   *)
(***************************************************************************)
EXTENDS Integers, Sequences, Ranks, FiniteSetTheorems, WellFoundedInduction, TLAPS

\* An element of a sequence over S is in S.
LEMMA Element ==
    ASSUME NEW S, NEW s \in Seq(S), NEW i \in 1..Len(s)
    PROVE  s[i] \in S
  OBVIOUS

\* A non-empty set of naturals has a least element.
LEMMA LeastElement ==
    ASSUME NEW S \in SUBSET Nat, S # {}
    PROVE  \E s \in S : \A t \in S : s <= t
<1>1. \A s, t \in Nat : t < s => <<t, s>> \in OpToRel(<, Nat)
  BY DEF OpToRel
<1>2. PICK s \in S : \A t \in S : ~(<<t, s>> \in OpToRel(<, Nat))
  BY NatLessThanWellFounded, WFMin
<1>3. \A t \in S : ~(t < s)
  BY <1>1, <1>2
<1> QED BY <1>3

\* A non-empty set of integers that is bounded above has a greatest element.
LEMMA GreatestElement ==
    ASSUME NEW S \in SUBSET Int, S # {}, NEW n \in Int, \A s \in S : s <= n
    PROVE  \E s \in S : \A t \in S : t <= s
<1> DEFINE T == {n - s : s \in S}
<1>1. T \in SUBSET Nat /\ T # {}
  <2>1. \A s \in S : n - s \in Nat
    OBVIOUS
  <2> QED BY <2>1
<1>2. PICK x \in T : \A y \in T : x <= y
  BY <1>1, LeastElement
<1>3. PICK s \in S : x = n - s
  BY <1>2
<1>4. \A t \in S : n - s <= n - t
  BY <1>2, <1>3
<1> QED BY <1>3, <1>4

\* Division with remainder.
LEMMA DivMod ==
    ASSUME NEW a \in Int, NEW m \in Nat \ {0}
    PROVE  a \div m \in Int /\ a % m \in 0..(m - 1) /\ a = m * (a \div m) + (a % m)
  OBVIOUS

\* Zero is the only multiple of m strictly between -m and m.
LEMMA SmallMultiple ==
    ASSUME NEW m \in Nat \ {0}, NEW x \in Int, m * x < m, m * x > -m
    PROVE  x = 0
<1>1. CASE x >= 1
  <2>1. m * x >= m
    BY <1>1
  <2> QED BY <2>1
<1>2. CASE x <= -1
  <2>1. m * x <= -m
    BY <1>2
  <2> QED BY <2>1
<1> QED BY <1>1, <1>2

\* Quotient and remainder are what they should be.
LEMMA DivModUnique ==
    ASSUME NEW m \in Nat \ {0}, NEW q \in Int, NEW r \in 0..(m - 1),
           NEW a \in Int, a = m * q + r
    PROVE  a \div m = q /\ a % m = r
<1> DEFINE x == a \div m
           y == a % m
<1>1. x \in Int /\ y \in 0..(m - 1) /\ a = m * x + y
  BY DivMod
<1> HIDE DEF x, y
<1>2. m * (x - q) = r - y
  BY <1>1
<1>3. m * (x - q) < m /\ m * (x - q) > -m
  BY <1>1, <1>2
<1>4. x - q = 0
  BY <1>1, <1>3, SmallMultiple
<1>5. x = q /\ y = r
  BY <1>1, <1>2, <1>4
<1> QED BY <1>5 DEF x, y

\* Two numbers less than m apart are told apart by their remainders.
LEMMA ModUnique ==
    ASSUME NEW a \in Int, NEW b \in Int, NEW m \in Nat \ {0},
           a % m = b % m, a - b < m, b - a < m
    PROVE  a = b
<1> DEFINE x == a \div m
           y == b \div m
           r == a % m
<1>1. x \in Int /\ y \in Int /\ r \in Int /\ a = m * x + r /\ b = m * y + r
  BY DivMod
<1> HIDE DEF x, y, r
<1>2. a - b = m * (x - y)
  BY <1>1
<1>3. x - y = 0
  BY <1>1, <1>2, SmallMultiple
<1> QED BY <1>1, <1>3

\* Adding a multiple of m changes the quotient and not the remainder.
LEMMA ModShift ==
    ASSUME NEW a \in Int, NEW x \in Int, NEW m \in Nat \ {0}
    PROVE  /\ (m * x + a) % m = a % m
           /\ (m * x + a) \div m = x + (a \div m)
<1> DEFINE q == a \div m
           r == a % m
<1>1. q \in Int /\ r \in 0..(m - 1) /\ a = m * q + r
  BY DivMod
<1> HIDE DEF q, r
<1>2. m * x + a \in Int /\ x + q \in Int /\ m * x + a = m * (x + q) + r
  BY <1>1
<1>3. (m * x + a) \div m = x + q /\ (m * x + a) % m = r
  BY <1>1, <1>2, DivModUnique
<1> QED BY <1>3 DEF q, r

\* Multiplication by a natural number keeps the order.
LEMMA ProductOrder ==
    ASSUME NEW a \in Int, NEW b \in Int, NEW m \in Nat, a <= b
    PROVE  a * m \in Int /\ b * m \in Int /\ a * m <= b * m
<1>1. (b - a) * m = b * m - a * m
  OBVIOUS
<1>2. (b - a) * m >= 0
  OBVIOUS
<1> QED BY <1>1, <1>2

\* The members of a finite set of numbers are numbered from 1 on.
LEMMA RankFacts ==
    ASSUME NEW S \in SUBSET Nat, IsFiniteSet(S)
    PROVE  /\ \A i \in S : Rank(S, i) \in 1..Cardinality(S)
           /\ \A i, j \in S : Rank(S, i) = Rank(S, j) => i = j
<1>1. S \subseteq Nat /\ IsFiniteSet(S) /\ Cardinality(S) \in Nat
  BY FS_CardinalityType
<1>2. ASSUME NEW i \in S
      PROVE  /\ {j \in S : j <= i} \in SUBSET S
             /\ Rank(S, i) \in Nat /\ Rank(S, i) <= Cardinality(S) /\ Rank(S, i) # 0
  <2> DEFINE T == {j \in S : j <= i}
  <2>1. T \in SUBSET S /\ i \in T
    <3>1. i \in Nat /\ i <= i
      BY <1>1
    <3> QED BY <3>1
  <2> HIDE DEF T
  <2>2. IsFiniteSet(T) /\ Cardinality(T) \in Nat /\ Cardinality(T) <= Cardinality(S)
    BY <1>1, <2>1, FS_Subset, FS_CardinalityType
  <2>3. Cardinality(T) # 0
    BY <2>1, <2>2, FS_EmptySet
  <2> QED BY <2>1, <2>2, <2>3 DEF T, Rank
<1>3. ASSUME NEW i \in S, NEW j \in S, i < j
      PROVE  Rank(S, i) < Rank(S, j)
  <2> DEFINE T == {k \in S : k <= i}
             U == {k \in S : k <= j}
  <2>1. T \in SUBSET U /\ U \in SUBSET S /\ j \in U /\ j \notin T
    <3>1. \A k \in S : k \in Nat
      BY <1>1
    <3>2. \A k \in S : k <= i => k <= j
      BY <1>3, <3>1
    <3>3. j <= j /\ ~(j <= i)
      BY <1>3, <3>1
    <3> QED BY <3>2, <3>3
  <2> HIDE DEF T, U
  <2>2. IsFiniteSet(U) /\ Cardinality(U) \in Nat /\ Cardinality(T) \in Nat
        /\ Cardinality(T) <= Cardinality(U) /\ Cardinality(T) # Cardinality(U)
    BY <1>1, <2>1, FS_Subset, FS_CardinalityType
  <2> QED BY <2>2 DEF T, U, Rank
<1>4. ASSUME NEW i \in S, NEW j \in S, Rank(S, i) = Rank(S, j) PROVE i = j
  <2>1. i \in Nat /\ j \in Nat /\ Rank(S, i) \in Nat /\ Rank(S, j) \in Nat
    BY <1>1, <1>2
  <2>2. ~(i < j) /\ ~(j < i)
    BY <1>3, <1>4, <2>1
  <2> QED BY <2>1, <2>2
<1>5. \A i \in S : Rank(S, i) \in 1..Cardinality(S)
  BY <1>1, <1>2
<1> QED BY <1>4, <1>5

\* Each number has its member.
LEMMA NthFacts ==
    ASSUME NEW S \in SUBSET Nat, IsFiniteSet(S), NEW k \in 1..Cardinality(S)
    PROVE  Nth(S, k) \in S /\ Rank(S, Nth(S, k)) = k
<1> DEFINE n == Cardinality(S)
           f == [i \in S |-> Rank(S, i)]
<1>1. n \in Nat /\ IsFiniteSet(S)
  BY FS_CardinalityType
<1>2. IsFiniteSet(1..n) /\ Cardinality(1..n) = n
  BY <1>1, FS_Interval
<1>3. f \in Injection(S, 1..n)
  BY RankFacts DEF Injection, IsInjective
<1>4. f \in Surjection(S, 1..n)
  BY <1>1, <1>2, <1>3, FS_Injection
<1>5. \E i \in S : Rank(S, i) = k
  BY <1>4 DEF Surjection
<1> QED BY <1>5 DEF Nth
=============================================================================
