----------------------------- MODULE NumberLemmas -----------------------------
(***************************************************************************)
(* Least and greatest elements of sets of numbers, which the order of the  *)
(* queue and the search for a missed minute are defined by.                *)
(***************************************************************************)
EXTENDS Integers, WellFoundedInduction, TLAPS

\* A set of naturals that has an element has a least one.
LEMMA LeastElement ==
  ASSUME NEW S \in SUBSET Nat, S # {}
  PROVE  \E x \in S : \A y \in S : x <= y
<1>1. \A x, y \in Nat : x < y => <<x, y>> \in OpToRel(<, Nat)
  BY DEF OpToRel
<1>2. PICK R : IsWellFoundedOn(R, Nat) /\ \A x, y \in Nat : x < y => <<x, y>> \in R
  BY <1>1, NatLessThanWellFounded
<1>3. IsWellFoundedOn(R, Nat) /\ S \subseteq Nat /\ S # {}
  BY <1>2
<1>4. \E x \in S : \A y \in S : ~(<<y, x>> \in R)
  BY <1>3, WFMin
<1>5. PICK x \in S : \A y \in S : ~(<<y, x>> \in R)
  BY <1>4
<1>6. \A y \in S : x <= y
  <2> TAKE y \in S
  <2>1. x \in Nat /\ y \in Nat
    OBVIOUS
  <2>2. ~(y < x)
    BY <1>2, <1>5, <2>1
  <2> QED
    BY <2>1, <2>2
<1> QED
  BY <1>6

\* A set of naturals that has a bound and an element has a greatest one.
LEMMA GreatestElement ==
  ASSUME NEW max \in Nat, NEW S \in SUBSET (1..max), S # {}
  PROVE  \E x \in S : \A y \in S : y <= x
<1> DEFINE T == {n \in Nat : max - n \in S}
<1>1. \A x \in S : x \in 1..max
  OBVIOUS
<1>2. \A x \in S : max - x \in T
  BY <1>1
<1>3. PICK t \in T : \A y \in T : t <= y
  BY <1>2, LeastElement
<1>4. \A y \in S : y <= max - t
  BY <1>1, <1>2, <1>3
<1> QED
  BY <1>3, <1>4

-----------------------------------------------------------------------------
(* The neighbours of an element, and the rotations they make. *)

NextIn(S, k) == CHOOSE n \in S : n > k /\ \A o \in S : o > k => n <= o
PreviousIn(S, k) == CHOOSE n \in S : n < k /\ \A o \in S : o < k => o <= n

PermutesOn(f, S) ==
  /\ \A k \in S : f[k] \in S
  /\ \A j, k \in S : f[j] = f[k] => j = k
  /\ \A n \in S : \E k \in S : f[k] = n

\* Every element but the last takes the next one, and the last takes the first; the
\* same downwards.
RotatesUp(f, S, p, q) ==
  \A k \in S : p <= k /\ k <= q /\ f[k] = IF k = q THEN p ELSE NextIn(S, k)
RotatesDown(f, S, p, q) ==
  \A k \in S : q <= k /\ k <= p /\ f[k] = IF k = q THEN p ELSE PreviousIn(S, k)

\* An element with a greater one has a next one.
LEMMA NextElement ==
  ASSUME NEW max \in Nat, NEW S \in SUBSET (1..max), NEW k \in S, NEW z \in S, k < z
  PROVE  /\ NextIn(S, k) \in S /\ NextIn(S, k) > k
         /\ \A o \in S : o > k => NextIn(S, k) <= o
<1> DEFINE T == {n \in S : n > k}
<1>0. z \in T /\ T \subseteq S
  OBVIOUS
<1>1. T \in SUBSET Nat /\ T # {}
  <2>1. \A x \in S : x \in Nat
    OBVIOUS
  <2> QED
    BY <1>0, <2>1
<1>2. PICK n \in T : \A o \in T : n <= o
  BY <1>1, LeastElement
<1>3. \E n1 \in S : n1 > k /\ \A o \in S : o > k => n1 <= o
  BY <1>2
<1> QED
  BY <1>3 DEF NextIn

\* An element with a smaller one has a previous one.
LEMMA PreviousElement ==
  ASSUME NEW max \in Nat, NEW S \in SUBSET (1..max), NEW k \in S, NEW z \in S, z < k
  PROVE  /\ PreviousIn(S, k) \in S /\ PreviousIn(S, k) < k
         /\ \A o \in S : o < k => o <= PreviousIn(S, k)
<1> DEFINE T == {n \in S : n < k}
<1>0. z \in T /\ T \subseteq S
  OBVIOUS
<1>1. T \in SUBSET (1..max) /\ T # {}
  BY <1>0
<1>2. PICK n \in T : \A o \in T : o <= n
  BY <1>1, GreatestElement
<1>3. \E n1 \in S : n1 < k /\ \A o \in S : o < k => o <= n1
  BY <1>2
<1> QED
  BY <1>3 DEF PreviousIn

\* A rotation upwards is a permutation.
LEMMA UpwardRotation ==
  ASSUME NEW max \in Nat, NEW S \in SUBSET (1..max), NEW p \in S, NEW q \in S, p < q,
         NEW f, RotatesUp(f, S, p, q)
  PROVE  PermutesOn(f, S)
<1>0. \A k \in S : p <= k /\ k <= q /\ f[k] = IF k = q THEN p ELSE NextIn(S, k)
  BY DEF RotatesUp
<1> \A k \in S : k \in Int
  OBVIOUS
<1>1. ASSUME NEW k \in S, k # q
      PROVE  f[k] \in S /\ f[k] > k /\ \A o \in S : o > k => f[k] <= o
  <2>1. k < q
    BY <1>0, <1>1
  <2> QED
    BY <1>0, <1>1, <2>1, NextElement
<1>2. \A k \in S : f[k] \in S
  BY <1>0, <1>1
<1>3. ASSUME NEW j \in S, NEW k \in S, f[j] = f[k], j < k
      PROVE  FALSE
  <2>1. j # q /\ f[j] <= k /\ f[j] > j
    BY <1>0, <1>1, <1>3
  <2>2. CASE k = q
    BY <2>1, <2>2, <1>0, <1>3
  <2>3. CASE k # q
    <3>1. f[k] > k /\ f[k] \in Int
      BY <2>3, <1>1, <1>2
    <3> QED
      BY <3>1, <2>1, <1>3
  <2> QED
    BY <2>2, <2>3
<1>4. ASSUME NEW n \in S
      PROVE  \E k \in S : f[k] = n
  <2>1. CASE n = p
    BY <2>1, <1>0
  <2>2. CASE n # p
    <3>1. p < n
      BY <2>2, <1>0
    <3>2. PICK k \in S : k = PreviousIn(S, n) /\ k < n /\ \A o \in S : o < n => o <= k
      BY <3>1, PreviousElement
    <3>3. k # q /\ f[k] \in S /\ f[k] > k /\ f[k] <= n
      BY <3>2, <1>0, <1>1
    <3>4. f[k] \in Int /\ n \in Int /\ k \in Int
      BY <3>3
    <3>5. f[k] < n => f[k] <= k
      BY <3>2, <3>3
    <3>6. f[k] = n
      BY <3>3, <3>4, <3>5
    <3> QED
      BY <3>6
  <2> QED
    BY <2>1, <2>2
<1>5. \A j, k \in S : f[j] = f[k] => j = k
  BY <1>3
<1> QED
  BY <1>2, <1>4, <1>5 DEF PermutesOn

\* So is a rotation downwards.
LEMMA DownwardRotation ==
  ASSUME NEW max \in Nat, NEW S \in SUBSET (1..max), NEW p \in S, NEW q \in S, q < p,
         NEW f, RotatesDown(f, S, p, q)
  PROVE  PermutesOn(f, S)
<1>0. \A k \in S : q <= k /\ k <= p /\ f[k] = IF k = q THEN p ELSE PreviousIn(S, k)
  BY DEF RotatesDown
<1> \A k \in S : k \in Int
  OBVIOUS
<1>1. ASSUME NEW k \in S, k # q
      PROVE  f[k] \in S /\ f[k] < k /\ \A o \in S : o < k => o <= f[k]
  <2>1. q < k
    BY <1>0, <1>1
  <2> QED
    BY <1>0, <1>1, <2>1, PreviousElement
<1>2. \A k \in S : f[k] \in S
  BY <1>0, <1>1
<1>3. ASSUME NEW j \in S, NEW k \in S, f[j] = f[k], k < j
      PROVE  FALSE
  <2>1. j # q /\ k <= f[j] /\ f[j] < j
    BY <1>0, <1>1, <1>3
  <2>2. CASE k = q
    BY <2>1, <2>2, <1>0, <1>3
  <2>3. CASE k # q
    <3>1. f[k] < k /\ f[k] \in Int
      BY <2>3, <1>1, <1>2
    <3> QED
      BY <3>1, <2>1, <1>3
  <2> QED
    BY <2>2, <2>3
<1>4. ASSUME NEW n \in S
      PROVE  \E k \in S : f[k] = n
  <2>1. CASE n = p
    BY <2>1, <1>0
  <2>2. CASE n # p
    <3>1. n < p
      BY <2>2, <1>0, <1>0
    <3>2. PICK k \in S : k = NextIn(S, n) /\ k > n /\ \A o \in S : o > n => k <= o
      BY <3>1, NextElement
    <3>3. k # q /\ f[k] \in S /\ f[k] < k /\ n <= f[k]
      BY <3>2, <1>0, <1>1
    <3>4. f[k] \in Int /\ n \in Int /\ k \in Int
      BY <3>3
    <3>5. n < f[k] => k <= f[k]
      BY <3>2, <3>3
    <3>6. f[k] = n
      BY <3>3, <3>4, <3>5
    <3> QED
      BY <3>6
  <2> QED
    BY <2>1, <2>2
<1>5. \A j, k \in S : f[j] = f[k] => j = k
  BY <1>3
<1> QED
  BY <1>2, <1>4, <1>5 DEF PermutesOn

=============================================================================
