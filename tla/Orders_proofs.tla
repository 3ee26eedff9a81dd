----------------------------- MODULE Orders_proofs -----------------------------
(***************************************************************************)
(* Facts about ordered sets that the proofs of several components need.    *)
(***************************************************************************)
EXTENDS Integers, FiniteSetTheorems, WellFoundedInduction, TLAPS

\* A set of naturals that is not empty has a least one.
LEMMA LeastOf ==
  ASSUME NEW S \in SUBSET Nat, S # {}
  PROVE  \E i \in S : \A j \in S : i <= j
<1> DEFINE R == OpToRel(<, Nat)
<1>1. IsWellFoundedOn(R, Nat)
  BY NatLessThanWellFounded DEF R
<1>2. PICK i \in S : \A j \in S : ~(<<j, i>> \in R)
  <2> HIDE DEF R
  <2> QED BY <1>1, WFMin, Zenon
<1>3. \A j \in S : ~(j < i)
  BY <1>2 DEF OpToRel
<1> QED BY <1>3

\* A set of naturals with a bound has a greatest: the one with fewest above it.
LEMMA Greatest ==
  ASSUME NEW m \in Nat, NEW S \in SUBSET (0..m), S # {}
  PROVE  \E x \in S : \A y \in S : y <= x
<1> DEFINE above(x) == {z \in 0..m : z > x}
           family == {above(x) : x \in S}
           R == StrictSubsetOrdering(0..m)
<1>1. IsFiniteSet(0..m)
  BY FS_Interval
<1>2. FiniteSubsetsOf(0..m) = SUBSET (0..m)
  BY <1>1, FS_FiniteSubsetsOfFinite
<1>3. family \subseteq FiniteSubsetsOf(0..m)
  BY <1>2
<1>4. family # {}
  OBVIOUS
<1>5. IsWellFoundedOn(R, FiniteSubsetsOf(0..m))
  BY FS_StrictSubsetOrderingWellFounded
<1>6. \E u \in family : \A v \in family : ~(<<v, u>> \in R)
  <2> HIDE DEF family, R
  <2> QED BY <1>3, <1>4, <1>5, WFMin, Zenon
<1>7. PICK x \in S : \A v \in family : ~(<<v, above(x)>> \in R)
  BY <1>6
<1>8. ASSUME NEW y \in S, ~(y <= x) PROVE FALSE
  <2>1. x \in 0..m /\ y \in 0..m /\ y > x
    BY <1>8
  <2>2. above(y) \subseteq above(x) /\ y \in above(x) /\ y \notin above(y)
    BY <2>1
  <2>3. <<above(y), above(x)>> \in R
    BY <2>2 DEF StrictSubsetOrdering
  <2> QED BY <1>7, <2>3
<1> QED BY <1>8

\* Places of a strict order: counting for each member those before it numbers a
\* finite set from nothing on, without gap or tie, in the order.
LEMMA Places ==
  ASSUME NEW n \in Nat, NEW S, IsFiniteSet(S), Cardinality(S) = n, NEW before,
         \A i \in S : <<i, i>> \notin before,
         \A i, j, k \in S : <<i, j>> \in before /\ <<j, k>> \in before => <<i, k>> \in before,
         \A i, j \in S : i # j => <<i, j>> \in before \/ <<j, i>> \in before,
         NEW place, place = [i \in S |-> Cardinality({j \in S : <<j, i>> \in before})]
  PROVE  /\ place \in Bijection(S, 0..(n - 1))
         /\ \A i, j \in S : <<i, j>> \in before <=> place[i] < place[j]
<1> DEFINE below(i) == {j \in S : <<j, i>> \in before}
<1>1. ASSUME NEW i \in S
      PROVE  IsFiniteSet(below(i)) /\ Cardinality(below(i)) \in Nat /\ Cardinality(below(i)) < n
  <2>1. below(i) \in SUBSET S /\ i \notin below(i)
    OBVIOUS
  <2> HIDE DEF below
  <2>2. /\ IsFiniteSet(below(i))
        /\ Cardinality(below(i)) <= n
        /\ Cardinality(below(i)) # n
    BY <2>1, FS_Subset
  <2>3. Cardinality(below(i)) \in Nat
    BY <2>2, FS_CardinalityType
  <2> QED BY <2>2, <2>3
<1>2. ASSUME NEW i \in S, NEW j \in S, <<i, j>> \in before
      PROVE  Cardinality(below(i)) < Cardinality(below(j))
  <2>1. below(i) \in SUBSET below(j)
    BY <1>2
  <2>2. i \in below(j) /\ i \notin below(i)
    BY <1>2
  <2> HIDE DEF below
  <2>3. Cardinality(below(i)) <= Cardinality(below(j)) /\ Cardinality(below(i)) # Cardinality(below(j))
    BY <1>1, <2>1, <2>2, FS_Subset
  <2> QED BY <1>1, <2>3
<1>3. \A i \in S : place[i] = Cardinality(below(i))
  OBVIOUS
<1>4. DOMAIN place = S /\ place = [i \in S |-> place[i]]
  OBVIOUS
<1> HIDE DEF below
<1>5. place \in [S -> 0..(n - 1)]
  <2>1. \A i \in S : place[i] \in 0..(n - 1)
    BY <1>1, <1>3
  <2> QED BY <1>4, <2>1
<1>6. \A i, j \in S : <<i, j>> \in before => place[i] < place[j]
  BY <1>2, <1>3
<1>7. \A i, j \in S : <<i, j>> \in before <=> place[i] < place[j]
  <2> SUFFICES ASSUME NEW i \in S, NEW j \in S, place[i] < place[j]
               PROVE  <<i, j>> \in before
    BY <1>6
  <2>1. place[i] \in Int /\ place[j] \in Int
    BY <1>5
  <2>2. i # j /\ ~(place[j] < place[i])
    BY <2>1
  <2> QED BY <1>6, <2>2
<1>8. \A i, j \in S : place[i] = place[j] => i = j
  <2> SUFFICES ASSUME NEW i \in S, NEW j \in S, i # j PROVE place[i] # place[j]
    OBVIOUS
  <2>1. place[i] \in Int /\ place[j] \in Int
    BY <1>5
  <2>2. place[i] < place[j] \/ place[j] < place[i]
    BY <1>6
  <2> QED BY <2>1, <2>2
<1>9. place \in Injection(S, 0..(n - 1))
  BY <1>4, <1>5, <1>8 DEF Injection, IsInjective
<1>10. IsFiniteSet(0..(n - 1)) /\ Cardinality(0..(n - 1)) = n
  <2>1. 0 \in Int /\ n - 1 \in Int
    OBVIOUS
  <2>2. Cardinality(0..(n - 1)) = IF 0 > n - 1 THEN 0 ELSE (n - 1) - 0 + 1
    BY <2>1, FS_Interval
  <2> QED BY <2>1, <2>2, FS_Interval
<1>11. place \in Surjection(S, 0..(n - 1))
  BY <1>9, <1>10, FS_Injection
<1> QED BY <1>7, <1>9, <1>11 DEF Bijection
=============================================================================
