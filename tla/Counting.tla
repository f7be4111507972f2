------------------------------- MODULE Counting -------------------------------
(* Facts about natural numbers and finite sets that the proofs rest on: sets *)
(* of at most one element, sets whose elements pair off, the least number    *)
(* with a property, induction over the numbers of a set, and the sequence    *)
(* that lists a finite set by a total order.                                 *)
EXTENDS Integers, FiniteSetTheorems, FunctionTheorems, WellFoundedInduction, TLAPS

\* At most one element.
Single(S) == \A x, y \in S : x = y

(* A finite set with no more than one element has no two.                    *)
LEMMA AtMostOne ==
    ASSUME NEW S, IsFiniteSet(S), Cardinality(S) <= 1
    PROVE  Single(S)
<1> SUFFICES ASSUME NEW x \in S, NEW y \in S, x # y
             PROVE  FALSE
  BY DEF Single
<1>1. /\ Cardinality(S) \in Nat /\ IsFiniteSet(S \ {x})
      /\ Cardinality(S \ {x}) = Cardinality(S) - 1 /\ Cardinality(S \ {x}) \in Nat
  BY FS_CardinalityType, FS_RemoveElement
<1>2. Cardinality(S \ {x}) = 0
  BY <1>1
<1>3. S \ {x} = {}
  BY <1>1, <1>2, FS_EmptySet
<1> QED BY <1>3

(* The other way round.                                                      *)
LEMMA OneAtMost ==
    ASSUME NEW S, Single(S)
    PROVE  IsFiniteSet(S) /\ Cardinality(S) <= 1
<1>1. CASE S = {}
  BY <1>1, FS_EmptySet
<1>2. ASSUME NEW x \in S
      PROVE  IsFiniteSet(S) /\ Cardinality(S) <= 1
  <2>1. S = {x}
    BY <1>2 DEF Single
  <2>2. IsFiniteSet({x}) /\ Cardinality({x}) = 1
    BY FS_Singleton
  <2> QED BY <2>1, <2>2
<1> QED BY <1>1, <1>2

(* A step that adds one element to a finite set leaves it finite.            *)
LEMMA FewerStill ==
    ASSUME NEW S, NEW T, NEW x, IsFiniteSet(S), T \subseteq S \union {x}
    PROVE  IsFiniteSet(T)
<1>1. IsFiniteSet(S \union {x})
  BY FS_AddElement
<1> QED BY <1>1, FS_Subset

(* Two sets whose elements pair off have as many.                            *)
LEMMA PairedOff ==
    ASSUME NEW S, NEW T, IsFiniteSet(S), NEW f \in [S -> T],
           \A x, y \in S : f[x] = f[y] => x = y,
           \A t \in T : \E x \in S : f[x] = t
    PROVE  IsFiniteSet(T) /\ Cardinality(T) = Cardinality(S)
<1>1. f \in Bijection(S, T)
  BY DEF Bijection, Injection, Surjection, IsInjective
<1>2. ExistsBijection(S, T)
  BY <1>1 DEF ExistsBijection
<1> QED BY <1>2, FS_Bijection

(* A set of naturals that is not empty has a least element.                  *)
LEMMA LeastNumber ==
    ASSUME NEW S \in SUBSET Nat, S # {}
    PROVE  \E m \in S : \A n \in S : m <= n
<1>1. PICK m \in S : \A n \in S : <<n, m>> \notin OpToRel(<, Nat)
  BY WFMin, NatLessThanWellFounded
<1>2. \A n \in S : ~(n < m)
  BY <1>1 DEF OpToRel
<1> QED BY <1>2

(* A set that has zero, and with a number the next, has all of them.         *)
LEMMA AllNumbers ==
    ASSUME NEW S, 0 \in S, \A n \in Nat : n \in S => n + 1 \in S
    PROVE  \A n \in Nat : n \in S
<1> DEFINE Missing == {n \in Nat : n \notin S}
<1> SUFFICES ASSUME Missing # {}
             PROVE  FALSE
  OBVIOUS
<1>1. PICK m \in Missing : \A n \in Missing : m <= n
  <2> HIDE DEF Missing
  <2>1. Missing \in SUBSET Nat
    BY DEF Missing
  <2> QED BY <2>1, LeastNumber
<1>2. m # 0 /\ m - 1 \in Nat
  OBVIOUS
<1>3. m - 1 \notin Missing
  BY <1>1, <1>2
<1> QED BY <1>2, <1>3

(***************************************************************************)
(* A finite set in the order R                                             *)
(***************************************************************************)
Below(S, R, x) == {y \in S : <<y, x>> \in R}

Orders(S, R) ==
    /\ \A x \in S : <<x, x>> \notin R
    /\ \A x, y \in S : x # y => <<x, y>> \in R \/ <<y, x>> \in R
    /\ \A x, y, z \in S : <<x, y>> \in R /\ <<y, z>> \in R => <<x, z>> \in R

ByRank(s, S, R) ==
    /\ s \in [1..Cardinality(S) -> S]
    /\ \A k \in 1..Cardinality(S) : Cardinality(Below(S, R, s[k])) = k - 1

(* Every element has a rank below the size of the set, and a greater one has *)
(* a greater rank.                                                           *)
LEMMA RankBounds ==
    ASSUME NEW S, NEW R, IsFiniteSet(S), Orders(S, R)
    PROVE  /\ Cardinality(S) \in Nat
           /\ \A x \in S : Cardinality(Below(S, R, x)) \in 0..(Cardinality(S) - 1)
           /\ \A x, y \in S : <<x, y>> \in R =>
                 Cardinality(Below(S, R, x)) < Cardinality(Below(S, R, y))
<1>1. Cardinality(S) \in Nat
  BY FS_CardinalityType
<1>2. ASSUME NEW x \in S
      PROVE  IsFiniteSet(Below(S, R, x)) /\ Cardinality(Below(S, R, x)) \in Nat
  <2>1. Below(S, R, x) \in SUBSET S
    BY DEF Below
  <2> QED BY <2>1, FS_Subset, FS_CardinalityType
<1>3. ASSUME NEW x \in S, NEW T \in SUBSET S, Below(S, R, x) \subseteq T, x \in T
      PROVE  Cardinality(Below(S, R, x)) < Cardinality(T)
  <2>1. x \notin Below(S, R, x)
    BY DEF Below, Orders
  <2>2. IsFiniteSet(T) /\ Cardinality(T) \in Nat
    BY FS_Subset, FS_CardinalityType
  <2>3. /\ Cardinality(Below(S, R, x)) <= Cardinality(T)
        /\ Cardinality(T) = Cardinality(Below(S, R, x)) => T = Below(S, R, x)
    BY <1>3, <2>2, FS_Subset
  <2> QED BY <1>2, <1>3, <2>1, <2>2, <2>3
<1>4. \A x \in S : Cardinality(Below(S, R, x)) < Cardinality(S)
  BY <1>3 DEF Below
<1>5. ASSUME NEW x \in S, NEW y \in S, <<x, y>> \in R
      PROVE  Cardinality(Below(S, R, x)) < Cardinality(Below(S, R, y))
  <2>1. Below(S, R, x) \subseteq Below(S, R, y) /\ x \in Below(S, R, y)
    BY <1>5 DEF Below, Orders
  <2>2. Below(S, R, y) \in SUBSET S
    BY DEF Below
  <2> QED BY <2>1, <2>2, <1>3
<1> QED BY <1>1, <1>2, <1>4, <1>5

(* Each rank is that of one element.                                         *)
LEMMA EveryRank ==
    ASSUME NEW S, NEW R, IsFiniteSet(S), Orders(S, R)
    PROVE  \A k \in 1..Cardinality(S) : \E x \in S : Cardinality(Below(S, R, x)) = k - 1
<1> DEFINE n == Cardinality(S)
           f == [x \in S |-> Cardinality(Below(S, R, x))]
           T == 0..(n - 1)
<1>1. n \in Nat /\ f \in [S -> T] /\ \A x, y \in S : <<x, y>> \in R => f[x] < f[y]
  BY RankBounds
<1>2. IsFiniteSet(T) /\ Cardinality(T) = n
  BY <1>1, FS_Interval
<1> HIDE DEF n, f, T
<1>3. f \in Injection(S, T)
  <2>1. ASSUME NEW x \in S, NEW y \in S, x # y
        PROVE  f[x] # f[y]
    <3>1. f[x] \in Int /\ f[y] \in Int
      BY <1>1 DEF T
    <3>2. <<x, y>> \in R \/ <<y, x>> \in R
      BY <2>1 DEF Orders
    <3>3. f[x] < f[y] \/ f[y] < f[x]
      BY <1>1, <3>2
    <3> QED BY <3>1, <3>3
  <2> QED BY <1>1, <2>1 DEF Injection, IsInjective
<1>4. f \in Surjection(S, T)
  BY <1>2, <1>3, FS_Injection DEF n
<1>5. ASSUME NEW k \in 1..n
      PROVE  \E x \in S : Cardinality(Below(S, R, x)) = k - 1
  <2>1. k - 1 \in T
    BY <1>1 DEF T
  <2>2. \E x \in S : f[x] = k - 1
    BY <2>1, <1>4, Fun_SurjectionProperties
  <2> QED BY <2>2 DEF f
<1> QED BY <1>5 DEF n

(* The list by rank has every element once, the lower before the higher.     *)
LEMMA RankLists ==
    ASSUME NEW S, NEW R, IsFiniteSet(S), Orders(S, R),
           NEW s, ByRank(s, S, R)
    PROVE  /\ \A i, j \in 1..Cardinality(S) : i < j => <<s[i], s[j]>> \in R
           /\ \A x \in S : \E i \in 1..Cardinality(S) : s[i] = x
<1> DEFINE n == Cardinality(S)
           rank(x) == Cardinality(Below(S, R, x))
<1>1. /\ n \in Nat /\ \A x \in S : rank(x) \in 0..(n - 1)
      /\ \A x, y \in S : <<x, y>> \in R => rank(x) < rank(y)
      /\ \A k \in 1..n : s[k] \in S /\ rank(s[k]) = k - 1
  BY RankBounds DEF ByRank
<1> HIDE DEF n, rank
<1>2. ASSUME NEW x \in S, NEW y \in S, rank(x) <= rank(y), x # y
      PROVE  <<x, y>> \in R
  <2>1. rank(x) \in Int /\ rank(y) \in Int
    BY <1>1
  <2>2. <<y, x>> \notin R
    BY <1>1, <1>2, <2>1
  <2> QED BY <1>2, <2>2 DEF Orders
<1>3. ASSUME NEW i \in 1..n, NEW j \in 1..n, i < j
      PROVE  <<s[i], s[j]>> \in R
  <2>1. rank(s[i]) < rank(s[j]) /\ s[i] # s[j]
    BY <1>1, <1>3
  <2> QED BY <1>1, <1>2, <2>1
<1>4. ASSUME NEW x \in S
      PROVE  \E i \in 1..n : s[i] = x
  <2>1. rank(x) + 1 \in 1..n
    BY <1>1
  <2>2. PICK y \in S : y = s[rank(x) + 1] /\ rank(y) = rank(x)
    BY <1>1, <2>1
  <2>3. x = y
    <3> SUFFICES ASSUME x # y
                 PROVE  FALSE
      OBVIOUS
    <3>1. rank(x) \in Int /\ rank(y) \in Int
      BY <1>1
    <3>2. <<x, y>> \in R
      BY <1>2, <2>2, <3>1
    <3> QED BY <1>1, <2>2, <3>1, <3>2
  <2> QED BY <2>1, <2>2, <2>3
<1> QED BY <1>3, <1>4 DEF n
===============================================================================
