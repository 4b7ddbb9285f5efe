----------------------------- MODULE OrderProofs -----------------------------
(***************************************************************************)
(* Any set of numbers has a least member and can be put in order.  The      *)
(* induction theorems of the library take an operator; here induction is    *)
(* the search of a least counterexample, with the numbers as a set.         *)
(***************************************************************************)
EXTENDS Orders, Functions, FiniteSetsExt, FiniteSetTheorems, WellFoundedInduction, TLAPS

\* < on the naturals as a set of pairs.
Less == {ss \in Nat \X Nat : ss[1] < ss[2]}

\* A set of naturals has a least one.  (Induction is proof by least counterexample
\* here: the induction theorems themselves take an operator.)
LEMMA LeastNumber ==
  ASSUME NEW S \in SUBSET Nat, S # {}
  PROVE  \E n \in S : \A m \in S : n <= m
<1>1. Less = OpToRel(<, Nat)
  BY Zenon DEF Less, OpToRel
<1>2. IsWellFoundedOn(Less, Nat)
  BY <1>1, NatLessThanWellFounded, Zenon
<1>3. PICK n \in S : \A m \in S : ~(<<m, n>> \in Less)
  BY <1>2, WFMin
<1>4. ASSUME NEW m \in S PROVE n <= m
  <2>1. n \in Nat /\ m \in Nat /\ ~(<<m, n>> \in Less)
    BY <1>3
  <2>2. ~(m < n)
    BY <2>1 DEF Less
  <2> QED BY <2>1, <2>2
<1> QED BY <1>4

\* The greatest of some numbers.
LEMMA MaxIs ==
  ASSUME NEW S \in SUBSET Nat, NEW x \in S, \A y \in S : x >= y
  PROVE  Max(S) = x
<1>1. Max(S) \in S /\ \A y \in S : Max(S) >= y
  BY Zenon DEF Max
<1> DEFINE m == Max(S)
<1>2. m \in Nat /\ x \in Nat /\ m >= x /\ x >= m
  BY <1>1
<1> HIDE DEF m
<1>3. m = x
  BY <1>2
<1> QED BY <1>3 DEF m

LEMMA MaxExists ==
  ASSUME NEW S \in SUBSET Nat, S # {}, NEW b \in Nat, \A y \in S : y <= b
  PROVE  Max(S) \in S /\ \A y \in S : Max(S) >= y
<1> DEFINE T == {y \in Nat : b - y \in S}
<1>1. T # {}
  <2>1. PICK y \in S : y <= b
    OBVIOUS
  <2>2. b - y \in Nat /\ b - (b - y) = y
    BY <2>1
  <2> QED BY <2>2
<1>2. T \in SUBSET Nat
  OBVIOUS
<1> HIDE DEF T
<1>3. PICK k \in T : \A m \in T : k <= m
  BY <1>1, <1>2, LeastNumber
<1> DEFINE x == b - k
<1>4. x \in S /\ k \in Nat
  BY <1>3 DEF T
<1>5. ASSUME NEW y \in S PROVE x >= y
  <2>1. y \in Nat /\ y <= b
    OBVIOUS
  <2>2. b - y \in Nat /\ b - (b - y) = y
    BY <2>1
  <2>3. b - y \in T
    BY <2>2 DEF T
  <2> QED BY <1>3, <1>4, <2>1, <2>3
<1> QED BY <1>4, <1>5, MaxIs

Increasing(s) == \A i, k \in DOMAIN s : i < k => s[i] < s[k]
Orders(s, S) == s \in [1 .. Cardinality(S) -> S] /\ Increasing(s)

\* Every set of numbers up to n can be put in order.
LEMMA OrderExists ==
  ASSUME NEW n \in Nat, NEW S \in SUBSET (1 .. n)
  PROVE  \E s : Orders(s, S)
<1> DEFINE Fails == {m \in Nat : \E T \in SUBSET (1 .. m) : ~ \E s : Orders(s, T)}
<1> SUFFICES ASSUME Fails # {} PROVE FALSE
  OBVIOUS
<1>1. PICK m \in Fails : \A k \in Fails : m <= k
  BY LeastNumber
<1>2. PICK T \in SUBSET (1 .. m) : ~ \E s : Orders(s, T)
  BY <1>1
<1>3. IsFiniteSet(T)
  <2>1. m \in Nat /\ 0 <= m /\ IsFiniteSet(1 .. m)
    BY <1>1, FS_Interval
  <2> QED BY <2>1, <1>2, FS_Subset
<1>4. CASE T = {}
  <2>1. Orders(<< >>, T)
    BY <1>4, FS_EmptySet DEF Orders, Increasing
  <2> QED BY <2>1, <1>2
<1>5. CASE T # {}
  <2>1. m # 0
    <3>1. PICK x : x \in T
      BY <1>5
    <3>2. x \in 1 .. m
      BY <3>1, <1>2
    <3> QED BY <3>2
  <2>2. m - 1 \in Nat /\ m - 1 \notin Fails
    BY <2>1, <1>1
  <2>3. CASE m \notin T
    <3>1. T \in SUBSET (1 .. m - 1)
      BY <2>3, <1>1, <1>2
    <3> QED BY <3>1, <2>2, <1>2
  <2>4. CASE m \in T
    <3> DEFINE R == T \ {m}
    <3>1. R \in SUBSET (1 .. m - 1)
      BY <1>1, <1>2
    <3>2. PICK r : Orders(r, R)
      BY <3>1, <2>2
    <3> DEFINE c == Cardinality(T)
               s == [i \in 1 .. c |-> IF i = c THEN m ELSE r[i]]
    <3>3. c \in Nat \ {0} /\ Cardinality(R) = c - 1
      BY <1>3, <2>4, FS_RemoveElement, FS_CardinalityType, FS_EmptySet
    <3>4. r \in [1 .. c - 1 -> R] /\ \A i, k \in 1 .. c - 1 : i < k => r[i] < r[k]
      BY <3>2, <3>3 DEF Orders, Increasing
    <3> HIDE DEF c, R
    <3>5. s \in [1 .. c -> T]
      BY <3>3, <3>4, <2>4 DEF R
    <3>6. ASSUME NEW i \in 1 .. c, NEW k \in 1 .. c, i < k
          PROVE  s[i] < s[k]
      <4>1. i \in 1 .. c - 1 /\ (k # c => k \in 1 .. c - 1)
        BY <3>3, <3>6
      <4>2. i # c
        BY <4>1, <3>3
      <4>3. s[i] = r[i] /\ s[k] = IF k = c THEN m ELSE r[k]
        BY <4>2
      <4>4. r[i] \in 1 .. m - 1
        BY <3>1, <3>4, <4>1
      <4>5. k # c => r[i] < r[k]
        BY <3>4, <3>6, <4>1
      <4> QED BY <4>3, <4>4, <4>5, <1>1
    <3>7. Orders(s, T)
      BY <3>5, <3>6 DEF Orders, Increasing, c
    <3> QED BY <3>7, <1>2
  <2> QED BY <2>3, <2>4
<1> QED BY <1>4, <1>5

\* InOrder puts all of a set of numbers in order.
LEMMA InOrderOrders ==
  ASSUME NEW n \in Nat, NEW S \in SUBSET (1 .. n)
  PROVE  /\ InOrder(S) \in Seq(S)
         /\ Range(InOrder(S)) = S
         /\ \A i, k \in DOMAIN InOrder(S) : i < k => InOrder(S)[i] < InOrder(S)[k]
<1>1. PICK s : Orders(s, S)
  BY OrderExists
<1>2. Orders(InOrder(S), S)
  BY <1>1 DEF InOrder, Orders, Increasing
<1>3. IsFiniteSet(S) /\ Cardinality(S) \in Nat
  <2>1. IsFiniteSet(1 .. n)
    BY FS_Interval
  <2> QED BY <2>1, FS_Subset, FS_CardinalityType
<1> DEFINE c == Cardinality(S)
           f == InOrder(S)
<1>4. f \in [1 .. c -> S] /\ \A i, k \in 1 .. c : i < k => f[i] < f[k]
  BY <1>2 DEF Orders, Increasing
<1>5. f \in Injection(1 .. c, S)
  <2> HIDE DEF f, c
  <2>1. ASSUME NEW i \in 1 .. c, NEW k \in 1 .. c, f[i] = f[k]
        PROVE  i = k
    <3>1. f[i] \in 1 .. n
      BY <1>4
    <3> QED BY <1>4, <2>1, <3>1
  <2> QED BY <1>4, <2>1 DEF Injection, IsInjective
<1>6. IsFiniteSet(1 .. c) /\ Cardinality(1 .. c) = c
  BY <1>3, FS_Interval
<1>7. f \in Surjection(1 .. c, S)
  BY <1>3, <1>5, <1>6, FS_Injection
<1>8. Range(f) = S
  BY <1>4, <1>7 DEF Surjection, Range
<1> QED BY <1>3, <1>4, <1>8
=============================================================================
