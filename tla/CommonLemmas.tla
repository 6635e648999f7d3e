--------------------------- MODULE CommonLemmas ---------------------------
(***************************************************************************)
(* Induction over the naturals, definition by recursion, images of finite  *)
(* sets and places in a sorted list, as facts of the first order about     *)
(* sets and functions: the library's theorems for them take an operator,   *)
(* which the provers cannot instantiate.  And the arithmetic that several  *)
(* proofs need.                                                            *)
(***************************************************************************)
EXTENDS Integers, TLAPS, NaturalsInduction, WellFoundedInduction, FiniteSetTheorems

\* Among the naturals, a set that is not empty has a least member: with this
\* fact, which is of the first order, the provers can do induction.
LEMMA LeastMember ==
    ASSUME NEW T \in SUBSET Nat, T # {}
    PROVE  \E n \in T : \A m \in T : n <= m
<1>. DEFINE R == {s \in Nat \X Nat : s[1] < s[2]}
<1>1. IsWellFoundedOn(R, Nat)
  BY NatLessThanWellFounded DEF OpToRel
<1>. HIDE DEF R
<1>2. PICK x \in T : \A y \in T : ~(<<y, x>> \in R)
  BY <1>1, WFMin
<1>3. \A y \in T : ~(y < x)
  BY <1>2 DEF R
<1> QED BY <1>3

\* A set of naturals that is closed under the successor.
LEMMA Induction ==
    ASSUME NEW S, 0 \in S, \A n \in Nat : n \in S => n + 1 \in S
    PROVE  \A n \in Nat : n \in S
<1>1. SUFFICES ASSUME Nat \ S # {} PROVE FALSE
  OBVIOUS
<1>2. PICK n \in Nat \ S : \A m \in Nat \ S : n <= m
  BY <1>1, LeastMember
<1>3. n # 0 /\ n - 1 \in Nat /\ ~(n <= n - 1)
  BY <1>2
<1>4. n - 1 \in S
  BY <1>2, <1>3
<1> QED BY <1>2, <1>3, <1>4

\* A function on an interval may be defined by recursion.
Recursive(f, n, V, a, F) ==
    /\ f \in [0 .. n -> V]
    /\ f[0] = a
    /\ \A k \in 1 .. n : f[k] = F[<<f[k - 1], k>>]

LEMMA Recursion ==
    ASSUME NEW n \in Nat, NEW V, NEW a \in V, NEW F \in [V \X Nat -> V]
    PROVE  \E f : Recursive(f, n, V, a, F)
<1>. DEFINE Fits(f, m) == f[0] = a /\ \A k \in 1 .. m : f[k] = F[<<f[k - 1], k>>]
            S == {m \in Nat : \E f \in [0 .. m -> V] : Fits(f, m)}
<1>1. 0 \in S
  <2>1. [k \in 0 .. 0 |-> a] \in [0 .. 0 -> V] /\ Fits([k \in 0 .. 0 |-> a], 0)
    OBVIOUS
  <2> QED BY <2>1
<1>2. ASSUME NEW m \in Nat, m \in S PROVE m + 1 \in S
  <2>1. PICK f \in [0 .. m -> V] : Fits(f, m)
    BY <1>2
  <2>. DEFINE b == F[<<f[m], m + 1>>]
              g == [k \in 0 .. m + 1 |-> IF k = m + 1 THEN b ELSE f[k]]
  <2>2. b \in V
    <3>1. f[m] \in V
      OBVIOUS
    <3>2. <<f[m], m + 1>> \in V \X Nat
      BY <3>1
    <3> QED BY <3>2
  <2>3. \A k \in 0 .. m + 1 : k # m + 1 => k \in 0 .. m
    OBVIOUS
  <2>4. g \in [0 .. m + 1 -> V]
    BY <2>2, <2>3
  <2>5. /\ \A k \in 0 .. m : g[k] = f[k]
        /\ g[m + 1] = b
    OBVIOUS
  <2>. HIDE DEF g
  <2>6. ASSUME NEW k \in 1 .. m + 1 PROVE g[k] = F[<<g[k - 1], k>>]
    <3>1. CASE k = m + 1
      <4>1. k - 1 = m /\ m \in 0 .. m
        BY <3>1
      <4> QED BY <2>5, <3>1, <4>1
    <3>2. CASE k # m + 1
      <4>1. k \in 1 .. m /\ k \in 0 .. m /\ k - 1 \in 0 .. m
        BY <3>2
      <4> QED BY <2>1, <2>5, <4>1
    <3> QED BY <3>1, <3>2
  <2>7. g[0] = a
    <3>1. 0 \in 0 .. m
      OBVIOUS
    <3> QED BY <2>1, <2>5, <3>1
  <2> QED BY <2>4, <2>6, <2>7
<1>. HIDE DEF S
<1>3. n \in S
  BY <1>1, <1>2, Induction
<1> QED BY <1>3 DEF S, Recursive

\* A set has no more images than members.
LEMMA ImageFinite ==
    ASSUME NEW S, IsFiniteSet(S), NEW T, NEW f, \A t \in T : \E s \in S : t = f[s]
    PROVE  IsFiniteSet(T) /\ Cardinality(T) <= Cardinality(S)
<1>1. CASE T = {}
  <2>1. Cardinality(S) \in Nat
    BY FS_CardinalityType
  <2> QED BY <1>1, <2>1, FS_EmptySet
<1>2. CASE T # {}
  <2>1. PICK o : o \in T
    BY <1>2
  <2>. DEFINE g == [s \in S |-> IF f[s] \in T THEN f[s] ELSE o]
  <2>2. g \in Surjection(S, T)
    BY <2>1 DEF Surjection
  <2> QED BY <2>2, FS_Surjection
<1> QED BY <1>1, <1>2

-----------------------------------------------------------------------------
(* Places in a sorted list: the rank of a number in a set *)

Preceding(S, i) == {j \in S : j < i}
Rank(S, i) == Cardinality(Preceding(S, i))

LEMMA RankStep ==
    ASSUME NEW n \in Nat, NEW S \in SUBSET (0 .. n), NEW i \in Nat
    PROVE  /\ Rank(S, i) \in Nat
           /\ Rank(S, 0) = 0
           /\ Rank(S, i + 1) = IF i \in S THEN Rank(S, i) + 1 ELSE Rank(S, i)
<1>0. \A j \in S : j \in Nat /\ j <= n
  OBVIOUS
<1>1. \A j \in Nat : IsFiniteSet(Preceding(S, j)) /\ Rank(S, j) \in Nat
  <2>1. IsFiniteSet(0 .. n)
    BY FS_Interval
  <2> QED BY <2>1, FS_Subset, FS_CardinalityType DEF Preceding, Rank
<1>2. Preceding(S, 0) = {}
  <2>1. \A j \in Preceding(S, 0) : FALSE
    BY <1>0 DEF Preceding
  <2> QED BY <2>1
<1>5. \A j \in S : j < i + 1 <=> j < i \/ j = i
  BY <1>0
<1>3. CASE i \in S
  <2>1. Preceding(S, i + 1) = Preceding(S, i) \cup {i} /\ i \notin Preceding(S, i)
    <3>1. ~(i < i)
      OBVIOUS
    <3> QED BY Zenon, <1>3, <1>5, <3>1 DEF Preceding
  <2> QED BY <1>1, <1>2, <1>3, <2>1, FS_AddElement, FS_EmptySet DEF Rank
<1>4. CASE i \notin S
  <2>1. Preceding(S, i + 1) = Preceding(S, i)
    BY Zenon, <1>4, <1>5 DEF Preceding
  <2> QED BY <1>1, <1>2, <1>4, <2>1, FS_EmptySet DEF Rank
<1> QED BY <1>3, <1>4

LEMMA RankMonotone ==
    ASSUME NEW n \in Nat, NEW S \in SUBSET (0 .. n), NEW i \in Nat,
           NEW j \in Nat, i <= j
    PROVE  Rank(S, i) <= Rank(S, j)
<1>0. \A m \in S : m \in Nat /\ m <= n
  OBVIOUS
<1>1. IsFiniteSet(Preceding(S, j))
  <2>1. IsFiniteSet(0 .. n)
    BY FS_Interval
  <2>2. IsFiniteSet(S) /\ Preceding(S, j) \in SUBSET S
    BY <2>1, FS_Subset DEF Preceding
  <2> QED BY <2>2, FS_Subset
<1>2. Preceding(S, i) \in SUBSET Preceding(S, j)
  <2>1. \A k \in S : k < i => k < j
    BY <1>0
  <2> QED BY Zenon, <2>1 DEF Preceding
<1> QED BY <1>1, <1>2, FS_Subset DEF Rank

LEMMA RankAll ==
    ASSUME NEW n \in Nat, NEW S \in SUBSET (0 .. n)
    PROVE  /\ Rank(S, n + 1) = Cardinality(S)
           /\ Cardinality(S) \in 0 .. n + 1
<1>0. \A j \in S : j \in Nat /\ j <= n
  OBVIOUS
<1>1. Preceding(S, n + 1) = S
  <2>1. \A j \in S : j < n + 1
    BY <1>0
  <2> QED BY Zenon, <2>1 DEF Preceding
<1>2. Cardinality(0 .. n) = n + 1 /\ IsFiniteSet(0 .. n)
  BY FS_Interval
<1>3. Cardinality(S) <= n + 1 /\ Cardinality(S) \in Nat
  BY <1>2, FS_Subset, FS_CardinalityType
<1> QED BY <1>1, <1>3 DEF Rank

\* Every place of the list below the number of members is taken, by one member.
LEMMA RankTaken ==
    ASSUME NEW n \in Nat, NEW S \in SUBSET (0 .. n), NEW k \in Nat, k < Cardinality(S)
    PROVE  \E i \in S : Rank(S, i) = k
<1>. DEFINE T == {i \in Nat : Rank(S, i) > k}
<1>0. \A j \in S : j \in Nat /\ j <= n
  OBVIOUS
<1>1. n + 1 \in T
  BY RankAll
<1>2. PICK i \in T : \A j \in T : i <= j
  BY <1>1, LeastMember
<1>3. i \in Nat /\ Rank(S, i) > k
  BY <1>2
<1>4. i # 0
  <2>1. Rank(S, 0) = 0
    BY RankStep
  <2> QED BY <1>3, <2>1
<1>5. PICK m \in Nat : i = m + 1
  <2>1. i - 1 \in Nat /\ i = (i - 1) + 1
    BY <1>3, <1>4
  <2> QED BY <2>1
<1>6. ~(Rank(S, m) > k)
  BY <1>2, <1>5
<1>7. m \in S /\ Rank(S, m) = k
  BY <1>3, <1>5, <1>6, RankStep
<1> QED BY <1>7

\* Members of the same rank are one.
LEMMA RankInjective ==
    ASSUME NEW n \in Nat, NEW S \in SUBSET (0 .. n), NEW i \in S, NEW j \in Nat, i < j
    PROVE  Rank(S, i) < Rank(S, j)
<1>0. \A m \in S : m \in Nat /\ m <= n
  OBVIOUS
<1>1. i \in Nat /\ Rank(S, i + 1) = Rank(S, i) + 1 /\ Rank(S, i) \in Nat
  BY <1>0, RankStep
<1>2. Rank(S, i + 1) <= Rank(S, j) /\ Rank(S, j) \in Nat
  <2>1. i + 1 \in Nat /\ i + 1 <= j
    BY <1>1
  <2>2. Rank(S, j) \in Nat
    BY RankStep
  <2>3. Rank(S, i + 1) <= Rank(S, j)
    BY <2>1, RankMonotone
  <2> QED BY <2>2, <2>3
<1> QED BY <1>1, <1>2

\* A member has fewer than its own value before it, when 0 is none.
LEMMA RankBelow ==
    ASSUME NEW n \in Nat, NEW S \in SUBSET (1 .. n), NEW i \in S
    PROVE  Rank(S, i) < i
<1>0. \A j \in S : j \in Nat /\ 1 <= j
  OBVIOUS
<1>1. Preceding(S, i) \in SUBSET (1 .. i - 1) /\ i \in Nat /\ i >= 1
  <2>1. \A j \in S : j < i => j \in 1 .. i - 1
    BY <1>0
  <2> QED BY <1>0, <2>1 DEF Preceding
<1>2. IsFiniteSet(1 .. i - 1) /\ Cardinality(1 .. i - 1) = i - 1
  BY <1>1, FS_Interval
<1>3. Rank(S, i) <= i - 1
  BY <1>1, <1>2, FS_Subset DEF Rank
<1>4. Rank(S, i) \in Nat
  BY <1>1, <1>2, FS_Subset, FS_CardinalityType DEF Rank
<1> QED BY <1>1, <1>3, <1>4

RankSteps(S) ==
    /\ Rank(S, 0) = 0
    /\ \A i \in Nat : /\ Rank(S, i) \in Nat
                      /\ i \in S => Rank(S, i + 1) = Rank(S, i) + 1
                      /\ i \notin S => Rank(S, i + 1) = Rank(S, i)

LEMMA Ranks == \A n \in Nat : \A S \in SUBSET (0 .. n) : RankSteps(S)
BY RankStep DEF RankSteps

-----------------------------------------------------------------------------
(* Products *)

\* What is less by a positive factor is less.
LEMMA ProductSign ==
    ASSUME NEW r \in Nat \ {0}, NEW a \in Int, NEW b \in Int, r * b < r * a
    PROVE  b < a
<1>1. SUFFICES ASSUME a <= b PROVE FALSE
  OBVIOUS
<1>2. PICK d \in Nat : b = a + d
  BY <1>1
<1>3. r * b = r * a + r * d
  BY <1>2
<1>4. r * d >= 0 /\ r * a \in Int /\ r * d \in Int
  BY <1>2
<1> QED BY <1>3, <1>4

\* Products with one factor are ordered as the others, and back.
LEMMA ProductOrder ==
    ASSUME NEW c \in Nat, NEW a \in Int, NEW b \in Int, a <= b
    PROVE  c * a <= c * b
<1>1. PICK d \in Nat : b = a + d
  <2>1. b - a \in Nat /\ b = a + (b - a)
    OBVIOUS
  <2> QED BY <2>1
<1>2. c * b = c * a + c * d /\ c * d \in Nat /\ c * a \in Int
  BY <1>1
<1> QED BY <1>2

LEMMA ProductCancel ==
    ASSUME NEW c \in Nat \ {0}, NEW a \in Int, NEW b \in Int, c * a <= c * b
    PROVE  a <= b
<1>1. SUFFICES ASSUME b < a PROVE FALSE
  OBVIOUS
<1>2. PICK d \in Nat : a = (b + 1) + d
  <2>1. a - (b + 1) \in Nat /\ a = (b + 1) + (a - (b + 1))
    BY <1>1
  <2> QED BY <2>1
<1>3. c * a = (c * b + c) + c * d /\ c * d \in Nat /\ c * b \in Int
  BY <1>2
<1> QED BY <1>3

\* Where the prover does not see it among other products.
LEMMA ProductGrouped ==
    ASSUME NEW a \in Nat, NEW b \in Nat, NEW c \in Nat
    PROVE  (a * b) * c = a * (b * c)
OBVIOUS

-----------------------------------------------------------------------------
(* Powers of two, and division *)

\* The sizes of FFT buffers that an int holds.
LEMMA PowersAreNat == \A k \in 1 .. 30 : 2 ^ k \in Nat
<1>1. /\ 2 ^ 1 \in Nat /\ 2 ^ 2 \in Nat /\ 2 ^ 3 \in Nat /\ 2 ^ 4 \in Nat /\ 2 ^ 5 \in Nat
      /\ 2 ^ 6 \in Nat /\ 2 ^ 7 \in Nat /\ 2 ^ 8 \in Nat /\ 2 ^ 9 \in Nat /\ 2 ^ 10 \in Nat
      /\ 2 ^ 11 \in Nat /\ 2 ^ 12 \in Nat /\ 2 ^ 13 \in Nat /\ 2 ^ 14 \in Nat /\ 2 ^ 15 \in Nat
      /\ 2 ^ 16 \in Nat /\ 2 ^ 17 \in Nat /\ 2 ^ 18 \in Nat /\ 2 ^ 19 \in Nat /\ 2 ^ 20 \in Nat
      /\ 2 ^ 21 \in Nat /\ 2 ^ 22 \in Nat /\ 2 ^ 23 \in Nat /\ 2 ^ 24 \in Nat /\ 2 ^ 25 \in Nat
      /\ 2 ^ 26 \in Nat /\ 2 ^ 27 \in Nat /\ 2 ^ 28 \in Nat /\ 2 ^ 29 \in Nat /\ 2 ^ 30 \in Nat
  OBVIOUS
<1>2. \A k \in 1 .. 30 : \/ k = 1 \/ k = 2 \/ k = 3 \/ k = 4 \/ k = 5 \/ k = 6 \/ k = 7
                         \/ k = 8 \/ k = 9 \/ k = 10 \/ k = 11 \/ k = 12 \/ k = 13 \/ k = 14
                         \/ k = 15 \/ k = 16 \/ k = 17 \/ k = 18 \/ k = 19 \/ k = 20
                         \/ k = 21 \/ k = 22 \/ k = 23 \/ k = 24 \/ k = 25 \/ k = 26
                         \/ k = 27 \/ k = 28 \/ k = 29 \/ k = 30
  OBVIOUS
<1> QED BY <1>1, <1>2

\* A quotient is known from any remainder.
LEMMA QuotientIs ==
    ASSUME NEW d \in Nat \ {0}, NEW q \in Int, NEW s \in 0 .. d - 1
    PROVE  (d * q + s) \div d = q
<1>1. PICK n \in Int : n = d * q + s OBVIOUS
<1>2. PICK p \in Int : p = n \div d BY <1>1
<1>3. PICK r \in 0 .. d - 1 : n = d * p + r
    <2>1. n = d * p + (n % d) /\ n % d \in 0 .. d - 1 BY <1>1, <1>2
    <2> QED BY <2>1
<1>4. PICK dp \in Int, dq \in Int : dp = d * p /\ dq = d * q OBVIOUS
<1>5. d * (q + 1) = dq + d /\ d * (p + 1) = dp + d BY <1>4
<1>6. dp < dq + d /\ dq < dp + d BY <1>1, <1>3, <1>4
<1>7. p < q + 1 BY <1>4, <1>5, <1>6, ProductSign
<1>8. q < p + 1 BY <1>4, <1>5, <1>6, ProductSign
<1> QED BY <1>1, <1>2, <1>7, <1>8

\* A quotient is rounded down.
LEMMA DividedBy ==
    ASSUME NEW a \in Nat, NEW b \in Nat \ {0}
    PROVE  a \div b \in Nat /\ b * (a \div b) <= a /\ a < b * (a \div b) + b
<1>1. PICK q \in Int : q = a \div b
  OBVIOUS
<1>2. a = b * q + (a % b) /\ a % b \in 0 .. b - 1
  BY <1>1
<1>3. q >= 0
  <2>1. SUFFICES ASSUME q < 0 PROVE FALSE
    OBVIOUS
  <2>2. PICK j \in Nat : q = -1 - j
    <3>1. -1 - q \in Nat /\ q = -1 - (-1 - q)
      BY <2>1
    <3> QED BY <3>1
  <2>3. b * q = -b - b * j /\ b * j \in Nat
    BY <2>2
  <2> QED BY <1>2, <2>3
<1>4. b * q \in Int
  OBVIOUS
<1> QED BY <1>1, <1>2, <1>3, <1>4

\* Each of the sizes is twice the one before.
LEMMA PowersDouble == \A j \in 1 .. 29 : 2 ^ (j + 1) = 2 * 2 ^ j
<1>1. ASSUME NEW j \in 1 .. 5 PROVE 2 ^ (j + 1) = 2 * 2 ^ j
  <2>1. /\ 2 ^ 2 = 2 * 2 ^ 1 /\ 1 + 1 = 2
        /\ 2 ^ 3 = 2 * 2 ^ 2 /\ 2 + 1 = 3
        /\ 2 ^ 4 = 2 * 2 ^ 3 /\ 3 + 1 = 4
        /\ 2 ^ 5 = 2 * 2 ^ 4 /\ 4 + 1 = 5
        /\ 2 ^ 6 = 2 * 2 ^ 5 /\ 5 + 1 = 6
    OBVIOUS
  <2>2. j = 1 \/ j = 2 \/ j = 3 \/ j = 4 \/ j = 5
    OBVIOUS
  <2> QED BY <2>1, <2>2
<1>2. ASSUME NEW j \in 6 .. 10 PROVE 2 ^ (j + 1) = 2 * 2 ^ j
  <2>1. /\ 2 ^ 7 = 2 * 2 ^ 6 /\ 6 + 1 = 7
        /\ 2 ^ 8 = 2 * 2 ^ 7 /\ 7 + 1 = 8
        /\ 2 ^ 9 = 2 * 2 ^ 8 /\ 8 + 1 = 9
        /\ 2 ^ 10 = 2 * 2 ^ 9 /\ 9 + 1 = 10
        /\ 2 ^ 11 = 2 * 2 ^ 10 /\ 10 + 1 = 11
    OBVIOUS
  <2>2. j = 6 \/ j = 7 \/ j = 8 \/ j = 9 \/ j = 10
    OBVIOUS
  <2> QED BY <2>1, <2>2
<1>3. ASSUME NEW j \in 11 .. 15 PROVE 2 ^ (j + 1) = 2 * 2 ^ j
  <2>1. /\ 2 ^ 12 = 2 * 2 ^ 11 /\ 11 + 1 = 12
        /\ 2 ^ 13 = 2 * 2 ^ 12 /\ 12 + 1 = 13
        /\ 2 ^ 14 = 2 * 2 ^ 13 /\ 13 + 1 = 14
        /\ 2 ^ 15 = 2 * 2 ^ 14 /\ 14 + 1 = 15
        /\ 2 ^ 16 = 2 * 2 ^ 15 /\ 15 + 1 = 16
    OBVIOUS
  <2>2. j = 11 \/ j = 12 \/ j = 13 \/ j = 14 \/ j = 15
    OBVIOUS
  <2> QED BY <2>1, <2>2
<1>4. ASSUME NEW j \in 16 .. 20 PROVE 2 ^ (j + 1) = 2 * 2 ^ j
  <2>1. /\ 2 ^ 17 = 2 * 2 ^ 16 /\ 16 + 1 = 17
        /\ 2 ^ 18 = 2 * 2 ^ 17 /\ 17 + 1 = 18
        /\ 2 ^ 19 = 2 * 2 ^ 18 /\ 18 + 1 = 19
        /\ 2 ^ 20 = 2 * 2 ^ 19 /\ 19 + 1 = 20
        /\ 2 ^ 21 = 2 * 2 ^ 20 /\ 20 + 1 = 21
    OBVIOUS
  <2>2. j = 16 \/ j = 17 \/ j = 18 \/ j = 19 \/ j = 20
    OBVIOUS
  <2> QED BY <2>1, <2>2
<1>5. ASSUME NEW j \in 21 .. 25 PROVE 2 ^ (j + 1) = 2 * 2 ^ j
  <2>1. /\ 2 ^ 22 = 2 * 2 ^ 21 /\ 21 + 1 = 22
        /\ 2 ^ 23 = 2 * 2 ^ 22 /\ 22 + 1 = 23
        /\ 2 ^ 24 = 2 * 2 ^ 23 /\ 23 + 1 = 24
        /\ 2 ^ 25 = 2 * 2 ^ 24 /\ 24 + 1 = 25
        /\ 2 ^ 26 = 2 * 2 ^ 25 /\ 25 + 1 = 26
    OBVIOUS
  <2>2. j = 21 \/ j = 22 \/ j = 23 \/ j = 24 \/ j = 25
    OBVIOUS
  <2> QED BY <2>1, <2>2
<1>6. ASSUME NEW j \in 26 .. 29 PROVE 2 ^ (j + 1) = 2 * 2 ^ j
  <2>1. /\ 2 ^ 27 = 2 * 2 ^ 26 /\ 26 + 1 = 27
        /\ 2 ^ 28 = 2 * 2 ^ 27 /\ 27 + 1 = 28
        /\ 2 ^ 29 = 2 * 2 ^ 28 /\ 28 + 1 = 29
        /\ 2 ^ 30 = 2 * 2 ^ 29 /\ 29 + 1 = 30
    OBVIOUS
  <2>2. j = 26 \/ j = 27 \/ j = 28 \/ j = 29
    OBVIOUS
  <2> QED BY <2>1, <2>2
<1>7. ASSUME NEW j \in 1 .. 29
      PROVE  \/ j \in 1 .. 5 \/ j \in 6 .. 10 \/ j \in 11 .. 15
             \/ j \in 16 .. 20 \/ j \in 21 .. 25 \/ j \in 26 .. 29
  OBVIOUS
<1> QED BY Zenon, <1>1, <1>2, <1>3, <1>4, <1>5, <1>6, <1>7

\* For every length that an int holds twice there is one size above it and not
\* above its double.
LEMMA PowerAbove ==
    ASSUME NEW n \in Nat, 1 <= n, n < 2 ^ 30
    PROVE  \E p \in {2 ^ k : k \in 1 .. 30} : n < p /\ p <= 2 * n
<1>. DEFINE T == {k \in Nat : k \in 1 .. 30 /\ n < 2 ^ k}
<1>1. PICK k \in T : \A j \in T : k <= j
  <2>1. 30 \in T /\ T \in SUBSET Nat
    OBVIOUS
  <2> QED BY <2>1, LeastMember
<1>2. k \in 1 .. 30 /\ n < 2 ^ k /\ 2 ^ k \in Nat
  BY <1>1, PowersAreNat
<1>3. CASE k = 1
  <2>1. 2 ^ 1 = 2
    OBVIOUS
  <2> QED BY <1>2, <1>3, <2>1
<1>4. CASE k # 1
  <2>1. k - 1 \in 1 .. 30 /\ k - 1 \in Nat /\ ~(k <= k - 1) /\ k \in 2 .. 30
    BY <1>2, <1>4
  <2>2. ~(n < 2 ^ (k - 1)) /\ 2 ^ (k - 1) \in Nat
    BY <1>1, <2>1, PowersAreNat
  <2>3. 2 ^ k = 2 * 2 ^ (k - 1)
    <3>1. PICK j \in 1 .. 29 : j = k - 1 /\ k = j + 1
      BY <1>2, <1>4
    <3> QED BY <3>1, PowersDouble
  <2>4. PICK p \in Nat, o \in Nat : p = 2 ^ k /\ o = 2 ^ (k - 1)
    BY <1>2, <2>2
  <2>5. n < p /\ p <= 2 * n
    BY <1>2, <2>2, <2>3, <2>4
  <2> QED BY <1>2, <2>4, <2>5
<1> QED BY <1>3, <1>4
=============================================================================
