------------------------ MODULE RubricScoring_proofs ------------------------
(***************************************************************************)
(* Proofs about the arithmetic of a screening, for every rubric, list of   *)
(* weights, cap and number of candidates:                                  *)
(*                                                                         *)
(*   - Total is a sum: it exists, adds, scales, compares and counts;       *)
(*   - the rest of the shares fits the rows that have a fraction, and the  *)
(*     distribution of it is exact and the closest there is;               *)
(*   - scores and ranks follow, from an invariant that says what each was  *)
(*     computed from.                                                      *)
(***************************************************************************)
EXTENDS RubricScoring, Orders_proofs

\* The rows are the numbers from one to their count.
LEMMA RowsAre ==
  /\ Count \in Nat /\ Count >= 1
  /\ \A i : i \in Rows <=> i \in Nat /\ 1 <= i /\ i <= Count
BY ScoringAssumption DEF Rows

\* Induction along the rows: a set that holds 0, and each row if it holds the one
\* before, holds them all.
LEMMA RowInduction ==
  ASSUME NEW S, 0 \in S, \A k \in Rows : k - 1 \in S => k \in S
  PROVE  Count \in S /\ \A k \in 0..Count : k \in S
<1> USE RowsAre
<1> SUFFICES ASSUME NEW k0 \in 0..Count, k0 \notin S PROVE FALSE
  OBVIOUS
<1> DEFINE left == {k \in 0..Count : k \notin S}
<1> DEFINE upto(k) == 0..k
<1> DEFINE family == {upto(k) : k \in left}
<1> DEFINE R == StrictSubsetOrdering(0..Count)
<1>1. IsFiniteSet(0..Count)
  BY FS_Interval
<1>2. FiniteSubsetsOf(0..Count) = SUBSET (0..Count)
  BY <1>1, FS_FiniteSubsetsOfFinite
<1>3. family \subseteq FiniteSubsetsOf(0..Count)
  BY <1>2
<1>4. family # {}
  OBVIOUS
<1>5. IsWellFoundedOn(R, FiniteSubsetsOf(0..Count))
  BY FS_StrictSubsetOrderingWellFounded
<1>6. \E x \in family : \A y \in family : ~(<<y, x>> \in R)
  <2> HIDE DEF family, R
  <2> QED BY <1>3, <1>4, <1>5, WFMin, Zenon
<1>7. PICK k \in left : \A y \in family : ~(<<y, upto(k)>> \in R)
  BY <1>6
<1>8. k # 0 /\ k - 1 \in left
  OBVIOUS
<1>9. upto(k - 1) \in family /\ upto(k - 1) \subseteq upto(k) /\ k \in upto(k) /\ k \notin upto(k - 1)
  BY <1>8
<1>10. <<upto(k - 1), upto(k)>> \in R
  BY <1>9 DEF StrictSubsetOrdering
<1> QED
  BY <1>7, <1>9, <1>10

\* The function by which Total is defined.
Runs(g, f) == g = [n \in 0..Count |-> IF n = 0 THEN 0 ELSE g[n - 1] + f[n]]

LEMMA TotalChoice ==
  ASSUME NEW f
  PROVE  Total(f) = (CHOOSE g : Runs(g, f))[Count]
BY DEF Total, Runs

\* The running totals exist: those up to a row extend to the next.
LEMMA RunsExist ==
  ASSUME NEW f \in [Rows -> Int]
  PROVE  \E g \in [0..Count -> Int] : Runs(g, f)
<1> USE RowsAre
<1> DEFINE Part(g, m) == /\ g \in [0..m -> Int]
                         /\ g[0] = 0
                         /\ \A n \in 1..m : g[n] = g[n - 1] + f[n]
<1> DEFINE S == {m \in 0..Count : \E g \in [0..m -> Int] : Part(g, m)}
<1>1. 0 \in S
  <2> DEFINE z == [n \in 0..0 |-> 0]
  <2>1. z \in [0..0 -> Int] /\ Part(z, 0)
    OBVIOUS
  <2>2. 0 \in 0..Count
    OBVIOUS
  <2> HIDE DEF Part, z
  <2> QED BY <2>1, <2>2
<1>2. \A k \in Rows : k - 1 \in S => k \in S
  <2> SUFFICES ASSUME NEW k \in Rows, k - 1 \in S PROVE k \in S
    OBVIOUS
  <2>1. PICK g \in [0..(k - 1) -> Int] : Part(g, k - 1)
    OBVIOUS
  <2> DEFINE h == [n \in 0..k |-> IF n = k THEN g[k - 1] + f[k] ELSE g[n]]
  <2>2. h \in [0..k -> Int]
    BY <2>1
  <2>3. h[0] = 0
    BY <2>1
  <2>4. ASSUME NEW n \in 1..k PROVE h[n] = h[n - 1] + f[n]
    BY <2>1, <2>4
  <2>5. Part(h, k)
    BY <2>2, <2>3, <2>4
  <2>6. k \in 0..Count
    OBVIOUS
  <2> HIDE DEF Part, h
  <2> QED BY <2>2, <2>5, <2>6
<1>3. Count \in S
  <2> HIDE DEF S
  <2> QED BY <1>1, <1>2, RowInduction, Zenon
<1>4. PICK g \in [0..Count -> Int] : Part(g, Count)
  BY <1>3
<1>5. Runs(g, f)
  BY <1>4 DEF Runs
<1> QED BY <1>5

\* There is one such function: two that agree up to a row agree on the next.
LEMMA RunsUnique ==
  ASSUME NEW f \in [Rows -> Int], NEW g, Runs(g, f), NEW h, Runs(h, f)
  PROVE  g = h
<1> USE RowsAre
<1> DEFINE S == {n \in 0..Count : g[n] = h[n]}
<1>1. 0 \in S
  BY DEF Runs
<1>2. \A k \in Rows : k - 1 \in S => k \in S
  <2> SUFFICES ASSUME NEW k \in Rows, k - 1 \in S PROVE k \in S
    OBVIOUS
  <2> QED BY DEF Runs
<1>3. \A k \in 0..Count : k \in S
  <2> HIDE DEF S
  <2> QED BY <1>1, <1>2, RowInduction, Zenon
<1> QED BY <1>3 DEF Runs

\* The running totals of a function, and Total the last of them.
Running(f) == CHOOSE g : Runs(g, f)

LEMMA RunningTotals ==
  ASSUME NEW f \in [Rows -> Int]
  PROVE  /\ Running(f) \in [0..Count -> Int]
         /\ Running(f)[0] = 0
         /\ \A n \in Rows : Running(f)[n] = Running(f)[n - 1] + f[n]
         /\ Total(f) = Running(f)[Count]
<1>1. PICK g \in [0..Count -> Int] : Runs(g, f)
  BY RunsExist
<1>2. Runs(Running(f), f)
  BY <1>1 DEF Running
<1>3. Running(f) = g
  BY <1>1, <1>2, RunsUnique
<1>4. Total(f) = Running(f)[Count]
  BY TotalChoice DEF Running
<1>5. \A n \in 0..Count : g[n] = IF n = 0 THEN 0 ELSE g[n - 1] + f[n]
  BY <1>1 DEF Runs
<1>6. g[0] = 0 /\ \A n \in Rows : g[n] = g[n - 1] + f[n]
  BY <1>5, RowsAre
<1> QED BY <1>1, <1>3, <1>4, <1>6
-----------------------------------------------------------------------------
\* A total is an integer.
LEMMA TotalType ==
  ASSUME NEW f \in [Rows -> Int]
  PROVE  Total(f) \in Int
BY RunningTotals, RowsAre

\* What is larger by at least nothing on each row is larger in total by what it is
\* on any of them.
LEMMA TotalGap ==
  ASSUME NEW f \in [Rows -> Int], NEW g \in [Rows -> Int],
         \A i \in Rows : f[i] <= g[i]
  PROVE  /\ Total(f) <= Total(g)
         /\ \A i \in Rows : g[i] - f[i] <= Total(g) - Total(f)
<1> USE RowsAre
<1> DEFINE F == Running(f)
           G == Running(g)
<1> DEFINE S == {n \in 0..Count : F[n] <= G[n] /\ \A i \in 1..n : g[i] - f[i] <= G[n] - F[n]}
<1>0. /\ F \in [0..Count -> Int] /\ F[0] = 0 /\ \A n \in Rows : F[n] = F[n - 1] + f[n]
      /\ G \in [0..Count -> Int] /\ G[0] = 0 /\ \A n \in Rows : G[n] = G[n - 1] + g[n]
  BY RunningTotals
<1> HIDE DEF F, G
<1>1. 0 \in S
  BY <1>0
<1>2. \A k \in Rows : k - 1 \in S => k \in S
  <2> SUFFICES ASSUME NEW k \in Rows, k - 1 \in S PROVE k \in S
    OBVIOUS
  <2>1. F[k] \in Int /\ F[k - 1] \in Int /\ G[k] \in Int /\ G[k - 1] \in Int
    BY <1>0
  <2>2. F[k] = F[k - 1] + f[k] /\ G[k] = G[k - 1] + g[k] /\ f[k] <= g[k] /\ f[k] \in Int /\ g[k] \in Int
    BY <1>0
  <2>3. F[k] <= G[k] /\ g[k] - f[k] <= G[k] - F[k] /\ G[k - 1] - F[k - 1] <= G[k] - F[k]
    BY <2>1, <2>2
  <2>4. ASSUME NEW i \in 1..k PROVE g[i] - f[i] <= G[k] - F[k]
    <3>1. CASE i = k
      BY <3>1, <2>3
    <3>2. CASE i \in 1..(k - 1)
      <4>1. g[i] - f[i] <= G[k - 1] - F[k - 1]
        BY <3>2
      <4>2. g[i] \in Int /\ f[i] \in Int
        OBVIOUS
      <4> QED BY <4>1, <4>2, <2>1, <2>3
    <3> QED BY <3>1, <3>2
  <2> QED BY <2>3, <2>4
<1>3. Count \in S
  <2> HIDE DEF S
  <2> QED BY <1>1, <1>2, RowInduction, Zenon
<1>4. Total(f) = F[Count] /\ Total(g) = G[Count]
  BY RunningTotals DEF F, G
<1> QED BY <1>3, <1>4

\* Totals add up.
LEMMA TotalAdds ==
  ASSUME NEW f \in [Rows -> Int], NEW g \in [Rows -> Int], NEW h \in [Rows -> Int],
         \A i \in Rows : h[i] = f[i] + g[i]
  PROVE  Total(h) = Total(f) + Total(g)
<1> USE RowsAre
<1> DEFINE F == Running(f)
           G == Running(g)
           H == Running(h)
<1> DEFINE S == {n \in 0..Count : H[n] = F[n] + G[n]}
<1>0. /\ F \in [0..Count -> Int] /\ F[0] = 0 /\ \A n \in Rows : F[n] = F[n - 1] + f[n]
      /\ G \in [0..Count -> Int] /\ G[0] = 0 /\ \A n \in Rows : G[n] = G[n - 1] + g[n]
      /\ H \in [0..Count -> Int] /\ H[0] = 0 /\ \A n \in Rows : H[n] = H[n - 1] + h[n]
  BY RunningTotals
<1> HIDE DEF F, G, H
<1>1. 0 \in S
  BY <1>0
<1>2. \A k \in Rows : k - 1 \in S => k \in S
  <2> SUFFICES ASSUME NEW k \in Rows, k - 1 \in S PROVE k \in S
    OBVIOUS
  <2>1. F[k - 1] \in Int /\ G[k - 1] \in Int /\ H[k - 1] \in Int /\ f[k] \in Int /\ g[k] \in Int
    BY <1>0
  <2>2. F[k] = F[k - 1] + f[k] /\ G[k] = G[k - 1] + g[k] /\ H[k] = H[k - 1] + f[k] + g[k]
    BY <1>0
  <2>3. H[k - 1] = F[k - 1] + G[k - 1]
    OBVIOUS
  <2> QED BY <2>1, <2>2, <2>3
<1>3. Count \in S
  <2> HIDE DEF S
  <2> QED BY <1>1, <1>2, RowInduction, Zenon
<1> QED BY <1>3, RunningTotals DEF F, G, H

\* A factor common to all rows comes out of the total.
LEMMA TotalScales ==
  ASSUME NEW f \in [Rows -> Int], NEW h \in [Rows -> Int], NEW c \in Int,
         \A i \in Rows : h[i] = f[i] * c
  PROVE  Total(h) = Total(f) * c
<1> USE RowsAre
<1> DEFINE F == Running(f)
           H == Running(h)
<1> DEFINE S == {n \in 0..Count : H[n] = F[n] * c}
<1>0. /\ F \in [0..Count -> Int] /\ F[0] = 0 /\ \A n \in Rows : F[n] = F[n - 1] + f[n]
      /\ H \in [0..Count -> Int] /\ H[0] = 0 /\ \A n \in Rows : H[n] = H[n - 1] + h[n]
  BY RunningTotals
<1> HIDE DEF F, H
<1>1. 0 \in S
  BY <1>0
<1>2. \A k \in Rows : k - 1 \in S => k \in S
  <2> SUFFICES ASSUME NEW k \in Rows, k - 1 \in S PROVE k \in S
    OBVIOUS
  <2>1. F[k - 1] \in Int /\ f[k] \in Int
    BY <1>0
  <2>2. F[k] = F[k - 1] + f[k] /\ H[k] = H[k - 1] + f[k] * c
    BY <1>0
  <2>3. H[k - 1] = F[k - 1] * c
    OBVIOUS
  <2>4. \A x, y \in Int : (x + y) * c = x * c + y * c
    OBVIOUS
  <2>5. H[k] = F[k] * c
    BY <2>1, <2>2, <2>3, <2>4
  <2> QED BY <2>5
<1>3. Count \in S
  <2> HIDE DEF S
  <2> QED BY <1>1, <1>2, RowInduction, Zenon
<1> QED BY <1>3, RunningTotals DEF F, H

\* The total of naturals is a natural, and none of them is more.
LEMMA TotalNatural ==
  ASSUME NEW f \in [Rows -> Nat]
  PROVE  Total(f) \in Nat /\ \A i \in Rows : f[i] <= Total(f)
<1> DEFINE zero == [i \in Rows |-> 0]
<1>1. /\ zero \in [Rows -> Int] /\ f \in [Rows -> Int]
      /\ \A i \in Rows : zero[i] = 0 /\ zero[i] = zero[i] * 0 /\ zero[i] <= f[i]
  OBVIOUS
<1> HIDE DEF zero
<1>2. Total(zero) = Total(zero) * 0
  <2>1. 0 \in Int /\ zero \in [Rows -> Int] /\ \A i \in Rows : zero[i] = zero[i] * 0
    BY <1>1
  <2> QED BY <2>1, TotalScales, Zenon
<1>3. Total(zero) = 0
  BY <1>1, <1>2, TotalType
<1>4. Total(f) \in Int
  BY <1>1, TotalType
<1>5. 0 <= Total(f) /\ \A i \in Rows : f[i] - 0 <= Total(f) - 0
  BY <1>1, <1>3, TotalGap
<1> QED BY <1>4, <1>5

\* Counting rows.
LEMMA TotalCounts ==
  ASSUME NEW A \in SUBSET Rows, NEW f \in [Rows -> Int],
         \A i \in Rows : f[i] = IF i \in A THEN 1 ELSE 0
  PROVE  IsFiniteSet(A) /\ Total(f) = Cardinality(A)
<1> USE RowsAre
<1> DEFINE F == Running(f)
           upto(n) == {i \in A : i <= n}
<1> DEFINE S == {n \in 0..Count : IsFiniteSet(upto(n)) /\ F[n] = Cardinality(upto(n))}
<1>0. F \in [0..Count -> Int] /\ F[0] = 0 /\ \A n \in Rows : F[n] = F[n - 1] + f[n]
  BY RunningTotals
<1> HIDE DEF F
<1>1. 0 \in S
  <2>1. upto(0) = {}
    OBVIOUS
  <2>2. IsFiniteSet(upto(0)) /\ Cardinality(upto(0)) = 0 /\ 0 \in 0..Count
    BY <2>1, FS_EmptySet
  <2> HIDE DEF upto
  <2> QED BY <1>0, <2>2
<1>2. \A k \in Rows : k - 1 \in S => k \in S
  <2> SUFFICES ASSUME NEW k \in Rows, k - 1 \in S PROVE k \in S
    OBVIOUS
  <2>1. F[k] = F[k - 1] + f[k]
    BY <1>0
  <2>2. IsFiniteSet(upto(k - 1)) /\ F[k - 1] = Cardinality(upto(k - 1))
    OBVIOUS
  <2>3. Cardinality(upto(k - 1)) \in Nat
    BY <2>2, FS_CardinalityType
  <2>4. CASE k \in A
    <3>1. upto(k) = upto(k - 1) \cup {k} /\ k \notin upto(k - 1)
      BY <2>4
    <3>2. IsFiniteSet(upto(k)) /\ Cardinality(upto(k)) = Cardinality(upto(k - 1)) + 1
      BY <2>2, <3>1, FS_AddElement
    <3> QED BY <2>1, <2>2, <2>3, <2>4, <3>2
  <2>5. CASE k \notin A
    <3>1. upto(k) = upto(k - 1)
      BY <2>5
    <3> QED BY <2>1, <2>2, <2>3, <2>5, <3>1
  <2> QED BY <2>4, <2>5
<1>3. Count \in S
  <2> HIDE DEF S
  <2> QED BY <1>1, <1>2, RowInduction, Zenon
<1>4. upto(Count) = A
  OBVIOUS
<1> QED BY <1>3, <1>4, RunningTotals DEF F
-----------------------------------------------------------------------------
\* Quotient and remainder.
LEMMA Division ==
  ASSUME NEW a \in Nat, NEW d \in Nat, d > 0
  PROVE  /\ a \div d \in Nat /\ a % d \in Nat
         /\ a % d < d
         /\ a = (a \div d) * d + (a % d)
OBVIOUS

LEMMA FlooredShares ==
  ASSUME NEW w \in [Rows -> Nat], Total(w) > 0
  PROVE  /\ Total(w) \in Nat
         /\ Floored(w) \in [Rows -> Nat] /\ Fraction(w) \in [Rows -> Nat]
         /\ \A i \in Rows : Fraction(w)[i] < Total(w)
         /\ \A i \in Rows : w[i] * Units = Floored(w)[i] * Total(w) + Fraction(w)[i]
<1>1. w \in [Rows -> Int]
  OBVIOUS
<1>2. Total(w) \in Nat
  BY <1>1, TotalType
<1>3. Units \in Nat
  BY ScoringAssumption
<1>4. \A i \in Rows : w[i] * Units \in Nat
  BY <1>3
<1> DEFINE T == Total(w)
<1> HIDE DEF T
<1>5. \A i \in Rows : /\ (w[i] * Units) \div T \in Nat /\ (w[i] * Units) % T \in Nat
                      /\ (w[i] * Units) % T < T
                      /\ w[i] * Units = ((w[i] * Units) \div T) * T + ((w[i] * Units) % T)
  BY <1>2, <1>4, Division DEF T
<1>6. /\ Floored(w) = [i \in Rows |-> (w[i] * Units) \div T]
      /\ Fraction(w) = [i \in Rows |-> (w[i] * Units) % T]
  BY DEF Floored, Fraction, T
<1>7. \A i \in Rows : /\ Floored(w)[i] = (w[i] * Units) \div T
                      /\ Fraction(w)[i] = (w[i] * Units) % T
  BY <1>6
<1>8. Floored(w) \in [Rows -> Nat] /\ Fraction(w) \in [Rows -> Nat]
  BY <1>5, <1>6
<1>9. \A i \in Rows : Fraction(w)[i] < T
  BY <1>5, <1>7
<1>10. \A i \in Rows : w[i] * Units = Floored(w)[i] * T + Fraction(w)[i]
  BY <1>5, <1>7, Zenon
<1> QED BY <1>2, <1>8, <1>9, <1>10 DEF T

\* The rows whose share is not whole.
Fractional(w) == {i \in Rows : Fraction(w)[i] > 0}

\* "Flooring first guarantees the remainder is non-negative and smaller than the
\* number of weights, so a single pass distributes it" (normalize_weights).  There is
\* no more of it than there are rows with a fraction.
THEOREM RemainderFits ==
  ASSUME NEW w \in [Rows -> Nat], Total(w) > 0
  PROVE  /\ Remainder(w) \in 0..(Count - 1)
         /\ IsFiniteSet(Fractional(w))
         /\ Remainder(w) <= Cardinality(Fractional(w))
<1> DEFINE T == Total(w)
           P == Fractional(w)
           due == [i \in Rows |-> w[i] * Units]
           whole == [i \in Rows |-> Floored(w)[i] * T]
           one == [i \in Rows |-> IF i \in P THEN 1 ELSE 0]
           most == [i \in Rows |-> one[i] * (T - 1)]
           r == Remainder(w)
<1>1. /\ T \in Nat /\ T > 0 /\ Units \in Nat
      /\ Floored(w) \in [Rows -> Nat] /\ Fraction(w) \in [Rows -> Nat]
      /\ \A i \in Rows : Fraction(w)[i] < T
      /\ \A i \in Rows : w[i] * Units = Floored(w)[i] * T + Fraction(w)[i]
  BY FlooredShares, ScoringAssumption
<1> HIDE DEF T, P
<1>2. Total(due) = T * Units
  <2>1. due \in [Rows -> Int] /\ w \in [Rows -> Int] /\ \A i \in Rows : due[i] = w[i] * Units
    BY <1>1
  <2> QED BY <1>1, <2>1, TotalScales DEF T
<1>3. whole \in [Rows -> Int] /\ Total(whole) = Total(Floored(w)) * T
  <2>1. whole \in [Rows -> Int] /\ Floored(w) \in [Rows -> Int] /\ \A i \in Rows : whole[i] = Floored(w)[i] * T
    BY <1>1
  <2>2. T \in Int
    BY <1>1
  <2> HIDE DEF whole
  <2>3. Total(whole) = Total(Floored(w)) * T
    BY <2>1, <2>2, TotalScales
  <2> QED BY <2>1, <2>3
<1>4. Total(due) = Total(whole) + Total(Fraction(w))
  <2>1. due \in [Rows -> Int] /\ Fraction(w) \in [Rows -> Int]
    BY <1>1
  <2>2. \A i \in Rows : due[i] = whole[i] + Fraction(w)[i]
    BY <1>1
  <2> HIDE DEF due, whole
  <2> QED BY <1>3, <2>1, <2>2, TotalAdds
<1>5. Total(Floored(w)) \in Int /\ Total(Fraction(w)) \in Int
  <2>1. Floored(w) \in [Rows -> Int] /\ Fraction(w) \in [Rows -> Int]
    BY <1>1
  <2> QED BY <2>1, TotalType
<1>6. r \in Int /\ Total(Fraction(w)) = r * T
  <2>1. r = Units - Total(Floored(w))
    BY DEF Remainder
  <2>2. T * Units = Total(Floored(w)) * T + Total(Fraction(w))
    BY <1>2, <1>3, <1>4
  <2> DEFINE c == Total(Floored(w))
             d == Total(Fraction(w))
  <2>3. c \in Int /\ d \in Int /\ T \in Int /\ Units \in Int /\ T * Units = c * T + d
    BY <1>1, <1>5, <2>2
  <2> HIDE DEF c, d
  <2>4. (Units - c) * T = T * Units - c * T
    BY <2>3
  <2>5. Units - c \in Int /\ d = (Units - c) * T
    BY <2>3, <2>4
  <2> QED BY <2>1, <2>5 DEF c, d
<1>7. one \in [Rows -> Int] /\ IsFiniteSet(P) /\ Total(one) = Cardinality(P)
  <2>1. one \in [Rows -> Int] /\ P \in SUBSET Rows /\ \A i \in Rows : one[i] = IF i \in P THEN 1 ELSE 0
    BY DEF P, Fractional
  <2> HIDE DEF one
  <2> QED BY <2>1, TotalCounts
<1>8. most \in [Rows -> Int] /\ Total(most) = Cardinality(P) * (T - 1)
  <2>1. most \in [Rows -> Int] /\ T - 1 \in Int /\ \A i \in Rows : most[i] = one[i] * (T - 1)
    BY <1>1, <1>7
  <2> HIDE DEF most, one
  <2> QED BY <1>7, <2>1, TotalScales
<1>9. Total(Fraction(w)) <= Total(most)
  <2>1. ASSUME NEW i \in Rows PROVE Fraction(w)[i] <= most[i]
    <3>1. Fraction(w)[i] \in Nat /\ Fraction(w)[i] < T
      BY <1>1
    <3>2. CASE i \in P
      <4>1. most[i] = T - 1
        BY <1>1, <3>2
      <4> QED BY <1>1, <3>1, <4>1
    <3>3. CASE i \notin P
      <4>1. most[i] = 0 /\ Fraction(w)[i] = 0
        BY <1>1, <3>1, <3>3 DEF P, Fractional
      <4> QED BY <4>1
    <3> QED BY <3>2, <3>3
  <2>2. Fraction(w) \in [Rows -> Int]
    BY <1>1
  <2> HIDE DEF most
  <2> QED BY <1>8, <2>1, <2>2, TotalGap
<1>10. 0 <= Total(Fraction(w))
  BY <1>1, TotalNatural
<1>11. Cardinality(P) \in Nat /\ Cardinality(P) <= Count
  <2>1. P \in SUBSET (1..Count)
    BY DEF P, Fractional, Rows
  <2>2. IsFiniteSet(1..Count) /\ Cardinality(1..Count) = Count
    <3>1. 1 \in Int /\ Count \in Int /\ Count >= 1
      BY RowsAre
    <3> QED BY <3>1, FS_Interval
  <2>3. Cardinality(P) <= Count
    BY <2>1, <2>2, FS_Subset
  <2> QED BY <1>7, <2>3, FS_CardinalityType
<1>12. 0 <= r * T /\ r * T <= Cardinality(P) * (T - 1)
  BY <1>6, <1>8, <1>9, <1>10
<1>13. 0 <= r /\ r <= Cardinality(P) /\ r < Count
  <2> DEFINE c == Cardinality(P)
  <2>1. \A a, t, b \in Int : 0 <= a * t /\ t > 0 => 0 <= a
    OBVIOUS
  <2>2. \A a, t, b \in Int : t > 0 /\ 0 <= b /\ a > b => a * t > b * (t - 1)
    <3> SUFFICES ASSUME NEW a \in Int, NEW t \in Int, NEW b \in Int, t > 0, 0 <= b, a > b
                 PROVE  a * t > b * (t - 1)
      OBVIOUS
    <3>1. a * t - b * t = (a - b) * t /\ (a - b) * t > 0
      OBVIOUS
    <3>2. b * (t - 1) = b * t - b /\ a * t \in Int /\ b * t \in Int
      OBVIOUS
    <3> QED BY <3>1, <3>2
  <2>3. \A t, b \in Int : t > 0 /\ b > 0 => b * t > b * (t - 1)
    OBVIOUS
  <2>4. 0 <= r
    BY <1>1, <1>6, <1>12, <2>1
  <2>5. r <= c
    <3>1. r > c => r * T > c * (T - 1)
      BY <1>1, <1>6, <1>11, <2>2
    <3>2. r * T \in Int /\ c * (T - 1) \in Int
      BY <1>1, <1>6, <1>11
    <3> QED BY <1>6, <1>11, <1>12, <3>1, <3>2
  <2>6. r < Count
    <3>1. c > 0 => c * T > c * (T - 1)
      BY <1>1, <1>11, <2>3
    <3>2. c * T \in Int /\ c * (T - 1) \in Int
      BY <1>1, <1>11
    <3>3. c > 0 => r # c
      BY <1>12, <3>1, <3>2
    <3>4. CASE c = 0
      BY <2>5, <3>4, <1>6, RowsAre
    <3>5. CASE c > 0
      BY <2>5, <3>3, <3>5, <1>6, <1>11, RowsAre
    <3> QED BY <1>11, <3>4, <3>5
  <2> QED BY <2>4, <2>5, <2>6
<1> QED BY <1>6, <1>7, <1>13, RowsAre DEF P

\* Place of each row in the distribution, and the rows that get a share of the rest.
Standing(w) == [i \in Rows |-> Cardinality({j \in Rows : Before(w, j, i)})]
Lifted(w) == {i \in Rows : Standing(w)[i] < Remainder(w)}

LEMMA RowsFinite == IsFiniteSet(Rows) /\ Cardinality(Rows) = Count
<1>1. 1 \in Int /\ Count \in Int /\ Count >= 1
  BY RowsAre
<1>2. IsFiniteSet(1..Count) /\ Cardinality(1..Count) = Count
  BY <1>1, FS_Interval
<1> QED BY <1>2 DEF Rows

\* The order of the distribution has no ties.
LEMMA StandingPlaces ==
  ASSUME NEW w \in [Rows -> Nat], Total(w) > 0
  PROVE  /\ Standing(w) \in Bijection(Rows, 0..(Count - 1))
         /\ \A i, j \in Rows : Before(w, i, j) <=> Standing(w)[i] < Standing(w)[j]
<1> DEFINE before == {p \in Rows \X Rows : Before(w, p[1], p[2])}
           place == [i \in Rows |-> Cardinality({j \in Rows : <<j, i>> \in before})]
<1>1. \A i, j \in Rows : <<i, j>> \in before <=> Before(w, i, j)
  OBVIOUS
<1>2. \A i \in Rows : Fraction(w)[i] \in Nat /\ i \in Nat
  BY FlooredShares, RowsAre
<1>3. \A i \in Rows : ~Before(w, i, i)
  BY <1>2 DEF Before
<1>4. \A i, j, k \in Rows : Before(w, i, j) /\ Before(w, j, k) => Before(w, i, k)
  BY <1>2 DEF Before
<1>5. \A i, j \in Rows : i # j => Before(w, i, j) \/ Before(w, j, i)
  BY <1>2 DEF Before
<1> HIDE DEF before
<1>6. Standing(w) = place
  BY <1>1 DEF Standing
<1>7. Count \in Nat /\ IsFiniteSet(Rows) /\ Cardinality(Rows) = Count
  BY RowsAre, RowsFinite
<1>8. /\ \A i \in Rows : <<i, i>> \notin before
      /\ \A i, j, k \in Rows : <<i, j>> \in before /\ <<j, k>> \in before => <<i, k>> \in before
      /\ \A i, j \in Rows : i # j => <<i, j>> \in before \/ <<j, i>> \in before
  BY <1>1, <1>3, <1>4, <1>5
<1> HIDE DEF place
<1>9. /\ place \in Bijection(Rows, 0..(Count - 1))
      /\ \A i, j \in Rows : <<i, j>> \in before <=> place[i] < place[j]
  BY <1>7, <1>8, Places DEF place
<1> QED BY <1>1, <1>6, <1>9

\* As many rows get a share as there are shares to hand out, and each of them has a
\* fraction: a row without weight gets none.
LEMMA LiftedRows ==
  ASSUME NEW w \in [Rows -> Nat], Total(w) > 0
  PROVE  /\ IsFiniteSet(Lifted(w))
         /\ Cardinality(Lifted(w)) = Remainder(w)
         /\ Lifted(w) \subseteq Fractional(w)
<1> DEFINE place == Standing(w)
           r == Remainder(w)
           P == Fractional(w)
           L == Lifted(w)
<1>1. /\ place \in Bijection(Rows, 0..(Count - 1))
      /\ \A i, j \in Rows : Before(w, i, j) <=> place[i] < place[j]
  BY StandingPlaces
<1>2. /\ place \in [Rows -> 0..(Count - 1)]
      /\ \A i, j \in Rows : place[i] = place[j] => i = j
      /\ \A k \in 0..(Count - 1) : \E i \in Rows : place[i] = k
  BY <1>1 DEF Bijection, Injection, Surjection, IsInjective
<1>3. r \in 0..(Count - 1) /\ IsFiniteSet(P) /\ r <= Cardinality(P)
  BY RemainderFits
<1>4. L = {i \in Rows : place[i] < r}
  BY DEF Lifted
<1>5. P = {i \in Rows : Fraction(w)[i] > 0} /\ \A i \in Rows : Fraction(w)[i] \in Nat
  BY FlooredShares DEF Fractional
<1> DEFINE restricted == [i \in L |-> place[i]]
<1>6. Count \in Nat /\ Count >= 1 /\ IsFiniteSet(Rows)
  BY RowsAre, RowsFinite
<1> HIDE DEF place, r, P, L
<1>7. L \subseteq Rows /\ IsFiniteSet(L)
  BY <1>4, <1>6, FS_Subset
<1>8. restricted \in [L -> 0..(r - 1)]
  <2>1. \A i \in L : place[i] \in 0..(r - 1)
    BY <1>2, <1>3, <1>4, <1>6
  <2> QED BY <2>1
<1>9. \A i, j \in L : restricted[i] = restricted[j] => i = j
  BY <1>2, <1>7
<1>10. \A k \in 0..(r - 1) : \E i \in L : restricted[i] = k
  <2> SUFFICES ASSUME NEW k \in 0..(r - 1) PROVE \E i \in L : restricted[i] = k
    OBVIOUS
  <2>1. k \in 0..(Count - 1) /\ k < r
    BY <1>3, <1>6
  <2>2. PICK i \in Rows : place[i] = k
    BY <1>2, <2>1
  <2>3. i \in L
    BY <1>4, <2>1, <2>2
  <2> QED BY <2>2, <2>3
<1>11. restricted \in Bijection(L, 0..(r - 1))
  BY <1>8, <1>9, <1>10 DEF Bijection, Injection, Surjection, IsInjective
<1>12. Cardinality(L) = r
  <2>1. 0 \in Int /\ r \in Int /\ r - 1 \in Int /\ r >= 0
    BY <1>3, <1>6
  <2>2. Cardinality(0..(r - 1)) = IF 0 > r - 1 THEN 0 ELSE (r - 1) - 0 + 1
    BY <2>1, FS_Interval
  <2>3. Cardinality(0..(r - 1)) = Cardinality(L)
    BY <1>7, <1>11, FS_Bijection DEF ExistsBijection
  <2> QED BY <2>1, <2>2, <2>3
<1>13. L \subseteq P
  <2> SUFFICES ASSUME NEW i \in L, i \notin P PROVE FALSE
    OBVIOUS
  <2>1. Fraction(w)[i] = 0 /\ i \in Rows
    BY <1>5, <1>7
  <2>2. \A j \in P : Before(w, j, i)
    BY <1>5, <2>1 DEF Before
  <2>3. \A j \in P : place[j] < place[i]
    BY <1>1, <1>5, <2>1, <2>2
  <2>4. i \in L /\ P \subseteq Rows
    BY <1>5
  <2>5. P \subseteq L /\ P # L
    <3>1. \A j \in Rows : place[j] \in Int
      BY <1>2
    <3>2. r \in Int /\ place[i] < r
      BY <1>3, <1>4
    <3>3. \A j \in P : place[j] < r
      BY <2>1, <2>3, <2>4, <3>1, <3>2
    <3> QED BY <1>4, <2>4, <3>3
  <2>6. Cardinality(P) <= Cardinality(L) /\ Cardinality(P) # Cardinality(L)
    BY <1>7, <2>5, FS_Subset
  <2>7. Cardinality(P) \in Nat /\ r \in Nat
    BY <1>3, FS_CardinalityType
  <2> QED BY <1>3, <1>12, <2>6, <2>7
<1> QED BY <1>7, <1>12, <1>13 DEF L, P, r
-----------------------------------------------------------------------------
\* Normalized weights sum to the whole, and what had no weight gets none.
THEOREM NormalizedWhole ==
  ASSUME NEW w \in [Rows -> Nat], Total(w) > 0
  PROVE  /\ Normalized(w) \in [Rows -> 0..Units]
         /\ Total(Normalized(w)) = Units
         /\ \A i \in Rows : Normalized(w)[i] =
                Floored(w)[i] + IF i \in Lifted(w) THEN 1 ELSE 0
         /\ \A i \in Rows : w[i] = 0 => Normalized(w)[i] = 0
<1> DEFINE N == Normalized(w)
           F == Floored(w)
           L == Lifted(w)
           lift == [i \in Rows |-> IF i \in L THEN 1 ELSE 0]
<1>1. /\ F \in [Rows -> Nat] /\ Total(w) \in Nat /\ \A i \in Rows : Fraction(w)[i] \in Nat
      /\ \A i \in Rows : w[i] * Units = F[i] * Total(w) + Fraction(w)[i]
  BY FlooredShares
<1>2. IsFiniteSet(L) /\ Cardinality(L) = Remainder(w) /\ L \subseteq Fractional(w) /\ L \subseteq Rows
  BY LiftedRows DEF Lifted
<1>3. \A i \in Rows : i \in L <=> Cardinality({j \in Rows : Before(w, j, i)}) < Remainder(w)
  BY DEF Lifted, Standing
<1>4. N = [i \in Rows |-> F[i] + IF i \in L THEN 1 ELSE 0]
  BY <1>3, Zenon DEF Normalized
<1>5. Units \in Nat
  BY ScoringAssumption
<1>6. Remainder(w) = Units - Total(F)
  BY DEF Remainder
<1> HIDE DEF N, F, L
<1>7. N \in [Rows -> Nat] /\ \A i \in Rows : N[i] = F[i] + lift[i]
  BY <1>1, <1>4
<1>8. lift \in [Rows -> Int] /\ Total(lift) = Cardinality(L)
  <2>1. lift \in [Rows -> Int] /\ L \in SUBSET Rows /\ \A i \in Rows : lift[i] = IF i \in L THEN 1 ELSE 0
    BY <1>2
  <2> HIDE DEF lift
  <2> QED BY <2>1, TotalCounts
<1> HIDE DEF lift
<1>9. Total(N) = Units
  <2>1. N \in [Rows -> Int] /\ F \in [Rows -> Int]
    BY <1>1, <1>7
  <2>2. Total(N) = Total(F) + Total(lift) /\ Total(F) \in Int
    BY <1>7, <1>8, <2>1, TotalAdds, TotalType
  <2> QED BY <1>2, <1>5, <1>6, <1>8, <2>2
<1>10. N \in [Rows -> 0..Units]
  <2>1. \A i \in Rows : N[i] <= Units /\ N[i] \in Nat
    BY <1>7, <1>9, TotalNatural
  <2> QED BY <1>4, <1>5, <2>1
<1>11. ASSUME NEW i \in Rows, w[i] = 0 PROVE N[i] = 0
  <2>1. F[i] \in Nat /\ Fraction(w)[i] \in Nat /\ Total(w) \in Nat /\ Total(w) > 0
    BY <1>1
  <2>2. 0 = F[i] * Total(w) + Fraction(w)[i]
    BY <1>1, <1>5, <1>11
  <2>3. F[i] * Total(w) >= 0
    BY <2>1
  <2>4. F[i] * Total(w) = 0 /\ Fraction(w)[i] = 0
    BY <2>1, <2>2, <2>3
  <2>5. F[i] = 0
    BY <2>1, <2>4
  <2>6. i \notin L
    BY <1>2, <2>4 DEF Fractional
  <2> QED BY <1>4, <2>5, <2>6
<1>12. \A i \in Rows : N[i] = F[i] + IF i \in L THEN 1 ELSE 0
  BY <1>4
<1> QED BY <1>9, <1>10, <1>11, <1>12 DEF N, F, L

\* Normalizing what is normalized changes nothing.
THEOREM NormalizedTwice ==
  ASSUME NEW w \in [Rows -> 0..Units], Total(w) = Units
  PROVE  Normalized(w) = w
<1>1. Units \in Nat /\ Units > 0 /\ w \in [Rows -> Nat] /\ w \in [Rows -> Int] /\ Total(w) > 0
  BY ScoringAssumption
<1>2. \A i \in Rows : w[i] \in Nat
  OBVIOUS
<1>3. \A a, u \in Nat : u > 0 => (a * u) \div u = a
  OBVIOUS
<1>4. \A i \in Rows : (w[i] * Units) \div Units = w[i]
  BY <1>1, <1>2, <1>3
<1>5. Floored(w) = w
  BY <1>4 DEF Floored
<1>6. Remainder(w) = 0
  BY <1>1, <1>5 DEF Remainder
<1>7. Lifted(w) = {}
  BY <1>1, <1>6, LiftedRows, FS_EmptySet
<1>8. \A i \in Rows : Normalized(w)[i] = w[i] + 0
  BY <1>1, <1>5, <1>7, NormalizedWhole
<1>9. \A i \in Rows : Normalized(w)[i] = w[i]
  BY <1>2, <1>8
<1>10. Normalized(w) \in [Rows -> 0..Units]
  BY <1>1, NormalizedWhole
<1> QED BY <1>9, <1>10
-----------------------------------------------------------------------------
(***************************************************************************)
(* Nothing is closer to the weights than what normalize_weights hands out. *)
(* Some fraction, rho of a common denominator T, divides the rows that get *)
(* a share of the rest from those that do not.  Priced at T - 2 * rho a    *)
(* share, no row can do better than it does; and as all distributions have *)
(* the same number of shares, the price is the same for each in total.     *)
(***************************************************************************)
Off(due, got) == IF due > got THEN due - got ELSE got - due

LEMMA RowExchange ==
  ASSUME NEW T \in Nat, T > 0, NEW F \in Int, NEW R \in Nat, R < T, NEW rho \in 0..T,
         NEW x \in Int, NEW delta \in {0, 1},
         delta = 1 => R >= rho, delta = 0 => R <= rho
  PROVE  Off(F * T + R, (F + delta) * T) + x * (T - 2 * rho)
           <= Off(F * T + R, x * T) + (F + delta) * (T - 2 * rho)
<1> DEFINE d == x - F
           p == d * T
           q == d * rho
           b == F * T
           e == F * rho
<1>1. /\ d \in Int /\ p \in Int /\ q \in Int /\ b \in Int /\ e \in Int /\ x = F + d
      /\ T \in Int /\ rho \in Int /\ 0 <= rho /\ rho <= T
  OBVIOUS
<1>2. x * T = b + p /\ x * rho = e + q
  OBVIOUS
<1>3. d <= 0 => p <= q
  <2>1. d <= 0 => d * (T - rho) <= 0
    BY <1>1
  <2>2. d * (T - rho) = p - q
    BY <1>1
  <2> QED BY <1>1, <2>1, <2>2
<1>4. d >= 1 => p >= T /\ q >= rho
  <2>1. d >= 1 => (d - 1) * T >= 0 /\ (d - 1) * rho >= 0
    BY <1>1
  <2>2. (d - 1) * T = p - T /\ (d - 1) * rho = q - rho
    BY <1>1
  <2> QED BY <1>1, <2>1, <2>2
<1>5. x * (T - 2 * rho) = (b + p) - 2 * (e + q)
  <2>1. x * (T - 2 * rho) = x * T - 2 * (x * rho)
    BY <1>1
  <2> QED BY <1>2, <2>1
<1>6. F * (T - 2 * rho) = b - 2 * e /\ (F + 1) * (T - 2 * rho) = b - 2 * e + T - 2 * rho
  BY <1>1
<1>7. (F + 1) * T = b + T
  BY <1>1
<1>8. Off(F * T + R, x * T) = IF R > p THEN R - p ELSE p - R
  <2>1. Off(b + R, b + p) = IF R > p THEN R - p ELSE p - R
    <3> HIDE DEF b, p
    <3> QED BY <1>1 DEF Off
  <2> QED BY <1>2, <2>1
<1>9. Off(F * T + R, b) = R /\ Off(F * T + R, b + T) = T - R
  <2>1. Off(b + R, b) = R /\ Off(b + R, b + T) = T - R
    <3> HIDE DEF b
    <3> QED BY <1>1 DEF Off
  <2> QED BY <2>1
<1>10. d <= 0 => /\ Off(F * T + R, x * T) = R - p
                 /\ p <= 0
  <2>1. d <= 0 => d * T <= 0
    BY <1>1
  <2> HIDE DEF p
  <2>2. p <= 0 => Off(F * T + R, x * T) = R - p
    BY <1>1, <1>8
  <2> QED BY <2>1, <2>2 DEF p
<1>11. d >= 1 => Off(F * T + R, x * T) = p - R
  <2> HIDE DEF p, d
  <2> QED BY <1>1, <1>4, <1>8
<1>12. d <= 0 \/ d >= 1
  BY <1>1
<1> DEFINE o == Off(F * T + R, x * T)
<1>13. \/ p <= q /\ o = R - p
       \/ q >= rho /\ o = p - R
  BY <1>3, <1>4, <1>10, <1>11, <1>12
<1>14. CASE delta = 0
  <2>1. R <= rho
    BY <1>14
  <2>2. F + delta = F /\ (F + delta) * T = b
    BY <1>14
  <2> HIDE DEF d, p, q, b, e, o
  <2>3. R + ((b + p) - 2 * (e + q)) <= o + (b - 2 * e)
    BY <1>1, <1>13, <2>1
  <2> QED BY <1>5, <1>6, <1>9, <2>2, <2>3 DEF o
<1>15. CASE delta = 1
  <2>1. R >= rho
    BY <1>15
  <2>2. F + delta = F + 1 /\ (F + delta) * T = b + T
    BY <1>7, <1>15
  <2> HIDE DEF d, p, q, b, e, o
  <2>3. (T - R) + ((b + p) - 2 * (e + q)) <= o + (b - 2 * e + T - 2 * rho)
    BY <1>1, <1>13, <2>1
  <2> QED BY <1>5, <1>6, <1>9, <2>2, <2>3 DEF o
<1> QED BY <1>14, <1>15

\* The fraction that divides the rows: that of the last row to get a share, or a
\* whole one if no row does.
LEMMA DividingFraction ==
  ASSUME NEW w \in [Rows -> Nat], Total(w) > 0
  PROVE  \E rho \in 0..Total(w) :
           \A i \in Rows : IF i \in Lifted(w) THEN Fraction(w)[i] >= rho
                                              ELSE Fraction(w)[i] <= rho
<1> DEFINE place == Standing(w)
           r == Remainder(w)
           R == Fraction(w)
           T == Total(w)
<1>1. /\ T \in Nat
      /\ \A i \in Rows : R[i] \in Nat /\ R[i] < T
  BY FlooredShares
<1>2. /\ r \in 0..(Count - 1)
      /\ \A i \in Rows : i \in Lifted(w) <=> place[i] < r
  BY RemainderFits DEF Lifted
<1>3. /\ \A i \in Rows : place[i] \in 0..(Count - 1)
      /\ \A k \in 0..(Count - 1) : \E i \in Rows : place[i] = k
      /\ \A i, j \in Rows : Before(w, i, j) <=> place[i] < place[j]
  BY StandingPlaces DEF Bijection, Injection, Surjection
<1>4. \A i, j \in Rows : ~(place[i] < place[j]) => R[i] <= R[j]
  BY <1>1, <1>3 DEF Before
<1> HIDE DEF place, r, R, T
<1>5. CASE r = 0
  <2>1. \A i \in Rows : i \notin Lifted(w) /\ R[i] <= T
    BY <1>1, <1>2, <1>3, <1>5
  <2>2. T \in 0..T
    BY <1>1
  <2> QED BY <2>1, <2>2 DEF R, T
<1>6. CASE r > 0
  <2>1. r - 1 \in 0..(Count - 1)
    BY <1>2, <1>6, RowsAre
  <2>2. PICK last \in Rows : place[last] = r - 1
    BY <1>3, <2>1
  <2>3. R[last] \in 0..T
    BY <1>1
  <2>4. ASSUME NEW i \in Rows
        PROVE  IF i \in Lifted(w) THEN R[i] >= R[last] ELSE R[i] <= R[last]
    <3>1. place[i] \in Int /\ r \in Int /\ R[i] \in Int /\ R[last] \in Int
      BY <1>1, <1>2, <1>3
    <3>2. CASE i \in Lifted(w)
      <4>1. ~(place[last] < place[i])
        BY <1>2, <2>2, <3>1, <3>2
      <4> QED BY <1>4, <3>1, <3>2, <4>1
    <3>3. CASE i \notin Lifted(w)
      <4>1. ~(place[i] < place[last])
        BY <1>2, <2>2, <3>1, <3>3
      <4> QED BY <1>4, <3>1, <3>3, <4>1
    <3> QED BY <3>2, <3>3
  <2> QED BY <2>3, <2>4 DEF R, T
<1> QED BY <1>2, <1>5, <1>6, RowsAre

\* No distribution of the whole is closer to the weights ("the shortfall lands where
\* it distorts the proportions least").
THEOREM NormalizedLeastDistorts ==
  ASSUME NEW w \in [Rows -> Nat], Total(w) > 0,
         NEW s \in [Rows -> Nat], Total(s) = Units
  PROVE  Distortion(w, Normalized(w)) <= Distortion(w, s)
<1> DEFINE T == Total(w)
           F == Floored(w)
           R == Fraction(w)
           N == Normalized(w)
           L == Lifted(w)
<1>1. /\ T \in Nat /\ T > 0 /\ F \in [Rows -> Nat]
      /\ \A i \in Rows : R[i] \in Nat /\ R[i] < T
      /\ \A i \in Rows : w[i] * Units = F[i] * T + R[i]
  BY FlooredShares
<1>2. /\ N \in [Rows -> 0..Units] /\ Total(N) = Units
      /\ \A i \in Rows : N[i] = F[i] + IF i \in L THEN 1 ELSE 0
  BY NormalizedWhole
<1>3. PICK rho \in 0..T : \A i \in Rows : IF i \in L THEN R[i] >= rho ELSE R[i] <= rho
  BY DividingFraction
<1>4. Units \in Nat
  BY ScoringAssumption
<1> DEFINE price == T - 2 * rho
           distN == [i \in Rows |-> Off(w[i] * Units, N[i] * T)]
           distS == [i \in Rows |-> Off(w[i] * Units, s[i] * T)]
           costN == [i \in Rows |-> N[i] * price]
           costS == [i \in Rows |-> s[i] * price]
           a == [i \in Rows |-> distN[i] + costS[i]]
           b == [i \in Rows |-> distS[i] + costN[i]]
<1>5. Distortion(w, N) = Total(distN) /\ Distortion(w, s) = Total(distS)
  BY DEF Distortion, Off
<1> HIDE DEF T, F, R, N, L
<1>6. price \in Int
  BY <1>1
<1> HIDE DEF price
<1>7. \A i \in Rows : N[i] \in Int /\ s[i] \in Int /\ F[i] \in Int /\ w[i] \in Nat
  BY <1>1, <1>2
<1>8. \A i \in Rows : /\ w[i] * Units \in Int /\ N[i] * T \in Int /\ s[i] * T \in Int
                      /\ N[i] * price \in Int /\ s[i] * price \in Int
  BY <1>1, <1>4, <1>6, <1>7
<1>9. \A x, y \in Int : Off(x, y) \in Int
  BY DEF Off
<1>10. /\ distN \in [Rows -> Int] /\ distS \in [Rows -> Int]
       /\ costN \in [Rows -> Int] /\ costS \in [Rows -> Int]
  BY <1>8, <1>9
<1>11. a \in [Rows -> Int] /\ b \in [Rows -> Int]
  <2>1. \A i \in Rows : distN[i] \in Int /\ distS[i] \in Int /\ costN[i] \in Int /\ costS[i] \in Int
    BY <1>8, <1>9
  <2> HIDE DEF distN, distS, costN, costS
  <2> QED BY <2>1
<1>12. ASSUME NEW i \in Rows PROVE a[i] <= b[i]
  <2> DEFINE delta == IF i \in L THEN 1 ELSE 0
  <2>1. delta \in {0, 1} /\ (delta = 1 => R[i] >= rho) /\ (delta = 0 => R[i] <= rho)
    BY <1>3
  <2>2. N[i] = F[i] + delta
    BY <1>2
  <2> HIDE DEF delta
  <2>3. Off(F[i] * T + R[i], (F[i] + delta) * T) + s[i] * (T - 2 * rho)
          <= Off(F[i] * T + R[i], s[i] * T) + (F[i] + delta) * (T - 2 * rho)
    BY <1>1, <1>7, <2>1, RowExchange
  <2>4. Off(w[i] * Units, N[i] * T) + s[i] * price <= Off(w[i] * Units, s[i] * T) + N[i] * price
    BY <1>1, <2>2, <2>3 DEF price
  <2> QED BY <2>4
<1>13. Total(a) <= Total(b)
  <2> HIDE DEF a, b
  <2> QED BY <1>11, <1>12, TotalGap
<1>14. Total(a) = Total(distN) + Total(costS) /\ Total(b) = Total(distS) + Total(costN)
  <2>1. \A i \in Rows : a[i] = distN[i] + costS[i] /\ b[i] = distS[i] + costN[i]
    OBVIOUS
  <2> HIDE DEF a, b, distN, distS, costN, costS
  <2> QED BY <1>10, <1>11, <2>1, TotalAdds
<1>15. Total(costN) = Units * price /\ Total(costS) = Units * price
  <2>1. /\ N \in [Rows -> Int] /\ s \in [Rows -> Int]
        /\ \A i \in Rows : costN[i] = N[i] * price
        /\ \A i \in Rows : costS[i] = s[i] * price
    BY <1>2, <1>4
  <2> HIDE DEF costN, costS
  <2>2. Total(costN) = Total(N) * price
    BY <1>6, <1>10, <2>1, TotalScales
  <2>3. Total(costS) = Total(s) * price
    BY <1>6, <1>10, <2>1, TotalScales
  <2> QED BY <1>2, <2>2, <2>3
<1>16. /\ Total(distN) \in Int /\ Total(distS) \in Int
       /\ Units * price \in Int
  BY <1>4, <1>6, <1>10, TotalType
<1>17. Total(distN) <= Total(distS)
  <2> HIDE DEF a, b, distN, distS, costN, costS
  <2> QED BY <1>13, <1>14, <1>15, <1>16
<1> QED BY <1>5, <1>17 DEF N
-----------------------------------------------------------------------------
(***************************************************************************)
(* Scores.                                                                 *)
(***************************************************************************)

LEMMA PointsBounds ==
  ASSUME NEW u \in Nat, NEW v \in Verdicts
  PROVE  /\ Points(u, v) \in Nat /\ Points(u, v) <= u
         /\ v = "met" \/ u = 0 => Points(u, v) = u
         /\ u > 0 /\ v \notin {"met", "partial"} => Points(u, v) < u
         /\ \A x \in Verdicts : Credit(x) >= Credit(v) => Points(u, x) >= Points(u, v)
<1>1. (u + 1) \div 2 \in Nat /\ (u + 1) \div 2 <= u
  OBVIOUS
<1> QED BY <1>1 DEF Points, Credit, Verdicts

\* The shares of a rubric, as far as scoring needs them.
Shares(u) == u \in [Rows -> 0..Units] /\ Total(u) = Units

LEMMA SharesNat ==
  ASSUME NEW u, Shares(u)
  PROVE  u \in [Rows -> Nat] /\ u \in [Rows -> Int] /\ Units \in Nat /\ \A i \in Rows : u[i] \in Nat
BY ScoringAssumption DEF Shares

\* The points of each row.
Earned(u, v) == [i \in Rows |-> Points(u[i], v[i])]

LEMMA EarnedType ==
  ASSUME NEW u, Shares(u), NEW v \in [Rows -> Verdicts]
  PROVE  /\ Earned(u, v) \in [Rows -> Nat] /\ Earned(u, v) \in [Rows -> Int]
         /\ Raw(u, v) = Total(Earned(u, v))
         /\ \A i \in Rows : Earned(u, v)[i] = Points(u[i], v[i]) /\ Earned(u, v)[i] <= u[i]
<1>1. \A i \in Rows : u[i] \in Nat /\ v[i] \in Verdicts
  BY SharesNat
<1>2. \A i \in Rows : Points(u[i], v[i]) \in Nat /\ Points(u[i], v[i]) <= u[i]
  BY <1>1, PointsBounds
<1>3. Earned(u, v) \in [Rows -> Nat] /\ \A i \in Rows : Earned(u, v)[i] = Points(u[i], v[i])
  BY <1>2 DEF Earned
<1>4. Earned(u, v) \in [Rows -> Int]
  BY <1>3
<1> QED BY <1>2, <1>3, <1>4 DEF Raw, Earned

\* A raw score is between nothing and the full score.
LEMMA RawBounds ==
  ASSUME NEW u, Shares(u), NEW v \in [Rows -> Verdicts]
  PROVE  Raw(u, v) \in 0..Units
<1>1. Total(Earned(u, v)) \in Nat
  BY EarnedType, TotalNatural
<1>2. Total(Earned(u, v)) <= Total(u)
  BY EarnedType, SharesNat, TotalGap
<1> QED BY <1>1, <1>2, EarnedType, SharesNat DEF Shares

\* Full marks are the full score, and a weighted row that earns nothing shows.
LEMMA RawFull ==
  ASSUME NEW u, Shares(u), NEW v \in [Rows -> Verdicts]
  PROVE  /\ (\A i \in Rows : u[i] > 0 => v[i] = "met") => Raw(u, v) = Units
         /\ Raw(u, v) = Units => \A i \in Rows : u[i] > 0 => v[i] \in {"met", "partial"}
<1>1. \A i \in Rows : u[i] \in Nat /\ v[i] \in Verdicts
  BY SharesNat
<1>2. ASSUME \A i \in Rows : u[i] > 0 => v[i] = "met" PROVE Raw(u, v) = Units
  <2>1. \A i \in Rows : v[i] = "met" \/ u[i] = 0
    BY <1>1, <1>2
  <2>2. \A i \in Rows : Points(u[i], v[i]) = u[i]
    BY <1>1, <2>1, PointsBounds
  <2>3. Earned(u, v) = u
    BY <2>2, SharesNat, EarnedType
  <2> QED BY <2>3, EarnedType DEF Shares
<1>3. ASSUME Raw(u, v) = Units, NEW i \in Rows, u[i] > 0 PROVE v[i] \in {"met", "partial"}
  <2> SUFFICES ASSUME v[i] \notin {"met", "partial"} PROVE FALSE
    OBVIOUS
  <2>1. Points(u[i], v[i]) \in Nat /\ Points(u[i], v[i]) < u[i]
    BY <1>1, <1>3, PointsBounds
  <2>2. u[i] - Earned(u, v)[i] <= Total(u) - Total(Earned(u, v))
    BY EarnedType, SharesNat, TotalGap
  <2>3. Total(u) = Units /\ Total(Earned(u, v)) = Units /\ Units \in Nat /\ u[i] \in Nat
    BY <1>1, <1>3, EarnedType, SharesNat DEF Shares
  <2> QED BY <2>1, <2>2, <2>3, EarnedType
<1> QED BY <1>2, <1>3

\* Better on every row is no worse in total.
LEMMA RawMonotone ==
  ASSUME NEW u, Shares(u), NEW v \in [Rows -> Verdicts], NEW x \in [Rows -> Verdicts],
         \A i \in Rows : Credit(x[i]) >= Credit(v[i])
  PROVE  Raw(u, v) <= Raw(u, x)
<1>1. \A i \in Rows : u[i] \in Nat /\ v[i] \in Verdicts /\ x[i] \in Verdicts
  BY SharesNat
<1>2. \A i \in Rows : Points(u[i], v[i]) <= Points(u[i], x[i])
  <2> SUFFICES ASSUME NEW i \in Rows PROVE Points(u[i], v[i]) <= Points(u[i], x[i])
    OBVIOUS
  <2>1. Points(u[i], x[i]) >= Points(u[i], v[i])
    BY <1>1, PointsBounds
  <2>2. Points(u[i], x[i]) \in Nat /\ Points(u[i], v[i]) \in Nat
    BY <1>1, PointsBounds
  <2> QED BY <2>1, <2>2
<1>3. \A i \in Rows : Earned(u, v)[i] <= Earned(u, x)[i]
  BY <1>2, EarnedType
<1>4. Total(Earned(u, v)) <= Total(Earned(u, x))
  BY <1>3, EarnedType, TotalGap
<1> QED BY <1>4, EarnedType
-----------------------------------------------------------------------------
(***************************************************************************)
(* The invariant.  The weights of a version are those of what was          *)
(* submitted, normalized, and what was submitted does not starve; the hash *)
(* of an approved version is the fingerprint of what it holds; a score was *)
(* computed from the version as it is; ranks were given once all had one.  *)
(***************************************************************************)
VersionInv ==
  /\ status \in {"none", "draft", "approved"}
  /\ must \subseteq Rows
  /\ relative \in [Rows -> Nat]
  /\ weight \in [Rows -> 0..Units]
  /\ status # "none" => /\ Total(relative) > 0
                        /\ ~Starved(relative)
                        /\ weight = Normalized(relative)
  /\ hash = IF status = "approved" THEN Fingerprint(must, weight) ELSE {}

Ranks(s) == [c \in Everyone |-> 1 + Cardinality({d \in Everyone : Ahead(s, d, c)})]

RunInv ==
  /\ scores = [c \in Everyone |-> scores[c]]
  /\ \A c \in Everyone :
       scores[c] # None =>
         status = "approved" /\ \E v \in [Rows -> Verdicts] : scores[c] = Result(v)
  /\ \/ rank = Unranked
     \/ (\A c \in Everyone : scores[c] # None) /\ rank = Ranks(scores)

Inv == VersionInv /\ RunInv

LEMMA InvInit == Init => Inv
<1> SUFFICES ASSUME Init PROVE Inv
  OBVIOUS
<1>1. VersionInv
  BY ScoringAssumption DEF Init, VersionInv
<1>2. RunInv
  BY DEF Init, RunInv, Unscored
<1> QED BY <1>1, <1>2 DEF Inv

LEMMA SharesStored ==
  ASSUME VersionInv, status # "none"
  PROVE  Shares(weight)
BY NormalizedWhole DEF VersionInv, Shares

LEMMA MintSame ==
  ASSUME VersionInv, Mint
  PROVE  weight' = weight /\ relative' = weight /\ must' = must /\ Total(weight) = Units
BY SharesStored, NormalizedTwice DEF Mint, Copied, Shares

LEMMA VersionStep == VersionInv /\ [Next]_vars => VersionInv'
<1> SUFFICES ASSUME VersionInv, [Next]_vars PROVE VersionInv'
  OBVIOUS
<1>1. ASSUME NEW w \in Submitted, NEW m \in Musts, Save(w, m) PROVE VersionInv'
  <2>1. w \in [Rows -> Nat] /\ m \subseteq Rows
    BY ScoringAssumption
  <2>2. Total(w) > 0 /\ ~Starved(w)
    BY <1>1 DEF Save
  <2>3. Normalized(w) \in [Rows -> 0..Units]
    BY <2>1, <2>2, NormalizedWhole
  <2>4. hash = {}
    BY <1>1 DEF Save, VersionInv
  <2>5. status' = "draft" /\ must' = m /\ relative' = w /\ weight' = Normalized(w) /\ hash' = hash
    BY <1>1 DEF Save
  <2> QED BY <2>1, <2>2, <2>3, <2>4, <2>5 DEF VersionInv
<1>2. CASE Approve
  BY <1>2 DEF Approve, VersionInv
<1>3. CASE Mint
  <2>1. weight' = weight /\ relative' = weight /\ must' = must /\ Total(weight) = Units
    BY <1>3, MintSame
  <2>2. status' = "draft" /\ hash' = {} /\ ~Starved(weight) /\ weight' = Normalized(weight)
    BY <1>3 DEF Mint, Copied
  <2>3. weight \in [Rows -> Nat] /\ Units > 0
    BY ScoringAssumption DEF VersionInv
  <2>4. must \subseteq Rows /\ weight \in [Rows -> 0..Units]
    BY DEF VersionInv
  <2> QED BY <2>1, <2>2, <2>3, <2>4 DEF VersionInv
<1>4. ASSUME NEW c \in Everyone, NEW v \in [Rows -> Verdicts], ScoreCandidate(c, v)
      PROVE  VersionInv'
  BY <1>4 DEF ScoreCandidate, rubricVars, VersionInv
<1>5. CASE Rank
  BY <1>5 DEF Rank, rubricVars, VersionInv
<1>6. CASE UNCHANGED vars
  BY <1>6 DEF vars, rubricVars, VersionInv
<1> QED BY <1>1, <1>2, <1>3, <1>4, <1>5, <1>6 DEF Next

LEMMA RunStep == Inv /\ [Next]_vars => RunInv'
<1> SUFFICES ASSUME Inv, [Next]_vars PROVE RunInv'
  OBVIOUS
<1>0. VersionInv /\ RunInv
  BY DEF Inv
<1>1. ASSUME NEW w \in Submitted, NEW m \in Musts, Save(w, m) PROVE RunInv'
  <2>1. scores' = scores /\ rank' = rank /\ status # "approved"
    BY <1>1 DEF Save, runVars
  <2>2. \A c \in Everyone : scores[c] = None
    BY <1>0, <2>1 DEF RunInv
  <2>3. rank = Unranked \/ rank = Ranks(scores)
    BY <1>0 DEF RunInv
  <2>4. scores = [c \in Everyone |-> scores[c]]
    BY <1>0 DEF RunInv
  <2>5. rank' = Unranked \/ ((\A c \in Everyone : scores'[c] # None) /\ rank' = Ranks(scores'))
    BY <1>0, <2>1 DEF RunInv, Unranked, Ranks, Ahead
  <2> QED BY <2>1, <2>2, <2>4, <2>5 DEF RunInv
<1>2. CASE Approve
  <2>1. scores' = scores /\ rank' = rank /\ weight' = weight /\ must' = must /\ status' = "approved"
    BY <1>2 DEF Approve, runVars
  <2>2. \A v : Result(v)' = Result(v)
    BY <2>1 DEF Result
  <2>3. rank' = Unranked \/ ((\A c \in Everyone : scores'[c] # None) /\ rank' = Ranks(scores'))
    BY <1>0, <2>1 DEF RunInv, Unranked, Ranks, Ahead
  <2>4. scores' = [c \in Everyone |-> scores'[c]]
    BY <1>0, <2>1 DEF RunInv
  <2>5. \A c \in Everyone : scores'[c] # None => \E v \in [Rows -> Verdicts] : scores'[c] = Result(v)'
    BY <1>0, <2>1, <2>2 DEF RunInv
  <2> QED BY <2>1, <2>3, <2>4, <2>5 DEF RunInv
<1>3. CASE Mint
  BY <1>3 DEF Mint, RunInv, Unscored, Unranked
<1>4. ASSUME NEW c \in Everyone, NEW v \in [Rows -> Verdicts], ScoreCandidate(c, v)
      PROVE  RunInv'
  <2>1. /\ status' = status /\ weight' = weight /\ must' = must /\ rank' = rank
        /\ status = "approved" /\ scores[c] = None
        /\ scores' = [scores EXCEPT ![c] = Result(v)]
    BY <1>4 DEF ScoreCandidate, rubricVars
  <2>2. \A x : Result(x)' = Result(x)
    BY <2>1 DEF Result
  <2>3. scores = [d \in Everyone |-> scores[d]]
    BY <1>0 DEF RunInv
  <2>4. scores' = [d \in Everyone |-> scores'[d]]
    BY <2>1, <2>3
  <2>5. ASSUME NEW d \in Everyone, scores'[d] # None
        PROVE  \E x \in [Rows -> Verdicts] : scores'[d] = Result(x)'
    <3>1. CASE d = c
      <4>1. scores'[d] = Result(v)'
        BY <2>1, <2>2, <2>3, <3>1
      <4> QED BY <4>1
    <3>2. CASE d # c
      <4>1. scores'[d] = scores[d]
        BY <2>1, <2>3, <3>2
      <4>2. PICK x \in [Rows -> Verdicts] : scores[d] = Result(x)
        BY <1>0, <2>5, <4>1 DEF RunInv
      <4> QED BY <2>2, <4>1, <4>2
    <3> QED BY <3>1, <3>2
  <2>6. rank = Unranked
    BY <1>0, <2>1 DEF RunInv
  <2>7. rank' = Unranked'
    BY <2>1, <2>6 DEF Unranked
  <2> QED BY <2>1, <2>4, <2>5, <2>7 DEF RunInv
<1>5. CASE Rank
  <2>1. /\ status' = status /\ weight' = weight /\ must' = must /\ scores' = scores
        /\ \A c \in Everyone : scores[c] # None
        /\ rank' = Ranks(scores)
    BY <1>5 DEF Rank, rubricVars, Ranks
  <2>2. \A x : Result(x)' = Result(x)
    BY <2>1 DEF Result
  <2>3. rank' = Ranks(scores')
    BY <2>1
  <2>4. scores' = [c \in Everyone |-> scores'[c]]
    BY <1>0, <2>1 DEF RunInv
  <2>5. \A c \in Everyone : scores'[c] # None =>
          status' = "approved" /\ \E v \in [Rows -> Verdicts] : scores'[c] = Result(v)'
    BY <1>0, <2>1, <2>2 DEF RunInv
  <2> QED BY <2>1, <2>3, <2>4, <2>5 DEF RunInv
<1>6. CASE UNCHANGED vars
  <2>1. scores' = scores /\ rank' = rank /\ weight' = weight /\ must' = must /\ status' = status
    BY <1>6 DEF vars, rubricVars, runVars
  <2>2. \A x : Result(x)' = Result(x)
    BY <2>1 DEF Result
  <2>3. rank' = Unranked \/ ((\A c \in Everyone : scores'[c] # None) /\ rank' = Ranks(scores'))
    BY <1>0, <2>1 DEF RunInv
  <2>4. scores' = [c \in Everyone |-> scores'[c]]
    BY <1>0, <2>1 DEF RunInv
  <2>5. \A c \in Everyone : scores'[c] # None =>
          status' = "approved" /\ \E v \in [Rows -> Verdicts] : scores'[c] = Result(v)'
    BY <1>0, <2>1, <2>2 DEF RunInv
  <2> QED BY <2>3, <2>4, <2>5 DEF RunInv
<1> QED BY <1>1, <1>2, <1>3, <1>4, <1>5, <1>6 DEF Next

THEOREM InvHolds == Spec => []Inv
<1>1. Init => Inv
  BY InvInit
<1>2. Inv /\ [Next]_vars => Inv'
  BY VersionStep, RunStep DEF Inv
<1> QED BY <1>1, <1>2, PTL DEF Spec
-----------------------------------------------------------------------------
(***************************************************************************)
(* The properties.                                                         *)
(***************************************************************************)

LEMMA InvWeights == Inv => WeightsFair
<1> SUFFICES ASSUME Inv PROVE WeightsFair
  OBVIOUS
<1>0. VersionInv
  BY DEF Inv
<1>1. SumsToOne
  BY <1>0, SharesStored DEF SumsToOne, Shares
<1>2. LeastDistortion
  <2> SUFFICES ASSUME status = "draft", NEW shares \in [Rows -> 0..Units], Total(shares) = Units
               PROVE  Distortion(relative, weight) <= Distortion(relative, shares)
    BY DEF LeastDistortion
  <2>1. relative \in [Rows -> Nat] /\ Total(relative) > 0 /\ weight = Normalized(relative)
    BY <1>0 DEF VersionInv
  <2>2. shares \in [Rows -> Nat]
    BY ScoringAssumption
  <2> QED BY <2>1, <2>2, NormalizedLeastDistorts
<1>3. NoneStarved
  <2> SUFFICES ASSUME NEW i \in Rows, status # "none"
               PROVE  weight[i] > 0 <=> relative[i] > 0
    BY DEF NoneStarved
  <2>1. relative \in [Rows -> Nat] /\ Total(relative) > 0 /\ weight = Normalized(relative)
    BY <1>0 DEF VersionInv
  <2>2. relative[i] = 0 => weight[i] = 0
    BY <2>1, NormalizedWhole
  <2>3. ~(relative[i] > 0 /\ weight[i] = 0)
    BY <1>0, <2>1 DEF VersionInv, Starved
  <2>4. relative[i] \in Nat /\ weight[i] \in Nat
    BY <1>0, ScoringAssumption DEF VersionInv
  <2> QED BY <2>2, <2>3, <2>4
<1> QED BY <1>1, <1>2, <1>3 DEF WeightsFair

\* Stored weights sum to the whole, are as close to what was submitted as shares can
\* be, and are positive where, and only where, what was submitted is.
THEOREM WeightsAreFair == Spec => []WeightsFair
BY InvHolds, InvWeights, PTL

\* Minting a successor keeps the fingerprint of the criteria.
THEOREM MintKeepsTheCriteria == Spec => MintKeepsCriteria
<1>1. Inv /\ [Next]_vars
        => [status = "approved" /\ status' = "draft" => Fingerprint(must', weight') = hash]_vars
  <2> SUFFICES ASSUME VersionInv, Next, status = "approved", status' = "draft"
               PROVE  Fingerprint(must', weight') = hash
    BY DEF Inv
  <2>1. Mint
    BY DEF Next, Save, Approve, ScoreCandidate, Rank, rubricVars
  <2>2. weight' = weight /\ must' = must
    BY <2>1, MintSame
  <2> QED BY <2>2 DEF VersionInv
<1> QED BY <1>1, InvHolds, PTL DEF Spec, MintKeepsCriteria

\* What the score of a candidate is computed from, and what it is.
LEMMA ScoredAre ==
  ASSUME Inv, NEW c \in Scored
  PROVE  /\ c \in Everyone
         /\ Shares(weight)
         /\ \E v \in [Rows -> Verdicts] :
              /\ scores[c] = Result(v)
              /\ scores[c].raw = Raw(weight, v)
              /\ scores[c].raw \in 0..Units
              /\ scores[c].failed = Fails(must, v)
              /\ scores[c].final = Final(scores[c].raw, Fails(must, v))
              /\ scores[c].final \in 0..Units
              /\ scores[c].verdicts = v
<1>1. c \in Everyone /\ scores[c] # None
  BY DEF Scored
<1>2. status = "approved" /\ \E v \in [Rows -> Verdicts] : scores[c] = Result(v)
  BY <1>1 DEF Inv, RunInv
<1>3. Shares(weight)
  BY <1>2, SharesStored DEF Inv
<1>4. PICK v \in [Rows -> Verdicts] : scores[c] = Result(v)
  BY <1>2
<1>5. Raw(weight, v) \in 0..Units
  BY <1>3, RawBounds
<1>6. /\ scores[c].raw = Raw(weight, v)
      /\ scores[c].failed = Fails(must, v)
      /\ scores[c].final = Final(Raw(weight, v), Fails(must, v))
      /\ scores[c].verdicts = v
  BY <1>4 DEF Result
<1>7. Final(Raw(weight, v), Fails(must, v)) \in 0..Units
  BY <1>5, ScoringAssumption DEF Final
<1> QED BY <1>1, <1>3, <1>4, <1>5, <1>6, <1>7

LEMMA ResultType ==
  ASSUME NEW v \in [Rows -> Verdicts], Shares(weight)
  PROVE  Result(v) \in Results
<1> DEFINE raw == Raw(weight, v)
           failed == Fails(must, v)
<1>1. raw \in 0..Units
  BY RawBounds
<1>2. failed \in BOOLEAN /\ (failed /\ raw > Cap) \in BOOLEAN
  BY DEF Fails
<1>3. Final(raw, failed) \in 0..Units
  BY <1>1, ScoringAssumption DEF Final
<1>4. Result(v) = [raw |-> raw, failed |-> failed, capped |-> failed /\ raw > Cap,
                   final |-> Final(raw, failed), verdicts |-> v]
  BY DEF Result
<1> HIDE DEF raw, failed
<1> QED BY <1>1, <1>2, <1>3, <1>4 DEF Results

\* The order of a ranking has no ties.
LEMMA RanksPlaces ==
  ASSUME Inv, \A c \in Everyone : scores[c] # None
  PROVE  /\ \A c \in Everyone : Ranks(scores)[c] \in 1..Candidates
         /\ \A k \in 1..Candidates : \E c \in Everyone : Ranks(scores)[c] = k
         /\ \A c, d \in Everyone : Ahead(scores, c, d) => Ranks(scores)[c] < Ranks(scores)[d]
<1> DEFINE before == {p \in Everyone \X Everyone : Ahead(scores, p[1], p[2])}
           place == [c \in Everyone |-> Cardinality({d \in Everyone : <<d, c>> \in before})]
<1>1. \A c, d \in Everyone : <<c, d>> \in before <=> Ahead(scores, c, d)
  OBVIOUS
<1>2. \A c \in Everyone : scores[c].final \in Int /\ c \in Nat
  BY ScoredAre DEF Scored, Everyone
<1>3. Candidates \in Nat
  BY ScoringAssumption
<1>4. IsFiniteSet(Everyone) /\ Cardinality(Everyone) = Candidates
  <2>1. 1 \in Int /\ Candidates \in Int /\ Candidates >= 0
    BY <1>3
  <2>2. Cardinality(1..Candidates) = IF 1 > Candidates THEN 0 ELSE Candidates - 1 + 1
    BY <2>1, FS_Interval
  <2>3. Cardinality(1..Candidates) = Candidates
    BY <2>1, <2>2
  <2> QED BY <2>1, <2>3, FS_Interval DEF Everyone
<1>5. \A c \in Everyone : ~Ahead(scores, c, c)
  BY <1>2 DEF Ahead
<1>6. \A c, d, e \in Everyone : Ahead(scores, c, d) /\ Ahead(scores, d, e) => Ahead(scores, c, e)
  BY <1>2 DEF Ahead
<1>7. \A c, d \in Everyone : c # d => Ahead(scores, c, d) \/ Ahead(scores, d, c)
  BY <1>2 DEF Ahead
<1> HIDE DEF before
<1>8. /\ \A c \in Everyone : <<c, c>> \notin before
      /\ \A c, d, e \in Everyone : <<c, d>> \in before /\ <<d, e>> \in before => <<c, e>> \in before
      /\ \A c, d \in Everyone : c # d => <<c, d>> \in before \/ <<d, c>> \in before
  BY <1>1, <1>5, <1>6, <1>7
<1>9. \A c \in Everyone : Ranks(scores)[c] = 1 + place[c]
  <2>1. \A c \in Everyone : {d \in Everyone : <<d, c>> \in before} = {d \in Everyone : Ahead(scores, d, c)}
    BY <1>1
  <2> QED BY <2>1 DEF Ranks
<1> HIDE DEF place
<1>10. /\ place \in Bijection(Everyone, 0..(Candidates - 1))
       /\ \A c, d \in Everyone : <<c, d>> \in before <=> place[c] < place[d]
  BY <1>3, <1>4, <1>8, Places DEF place
<1>11. /\ \A c \in Everyone : place[c] \in 0..(Candidates - 1)
       /\ \A k \in 0..(Candidates - 1) : \E c \in Everyone : place[c] = k
  BY <1>10 DEF Bijection, Injection, Surjection
<1>12. \A c \in Everyone : Ranks(scores)[c] \in 1..Candidates
  BY <1>3, <1>9, <1>11
<1>13. ASSUME NEW k \in 1..Candidates PROVE \E c \in Everyone : Ranks(scores)[c] = k
  <2>1. k - 1 \in 0..(Candidates - 1)
    BY <1>3
  <2>2. PICK c \in Everyone : place[c] = k - 1
    BY <1>11, <2>1
  <2>3. Ranks(scores)[c] = k
    BY <1>9, <2>2
  <2> QED BY <2>3
<1>14. ASSUME NEW c \in Everyone, NEW d \in Everyone, Ahead(scores, c, d)
       PROVE  Ranks(scores)[c] < Ranks(scores)[d]
  <2>1. <<c, d>> \in before
    BY <1>1, <1>14
  <2>2. place[c] < place[d]
    BY <1>10, <2>1
  <2>3. place[c] \in Int /\ place[d] \in Int
    BY <1>3, <1>11
  <2> QED BY <1>9, <2>2, <2>3
<1> QED BY <1>12, <1>13, <1>14

LEMMA InvType == Inv => TypeOK
<1> SUFFICES ASSUME Inv PROVE TypeOK
  OBVIOUS
<1>0. VersionInv /\ RunInv
  BY DEF Inv
<1>1. hash \subseteq Rows \X BOOLEAN \X (0..Units)
  <2>1. weight \in [Rows -> 0..Units]
    BY <1>0 DEF VersionInv
  <2>2. Fingerprint(must, weight) \subseteq Rows \X BOOLEAN \X (0..Units)
    <3>1. \A i \in Rows : <<i, i \in must, weight[i]>> \in Rows \X BOOLEAN \X (0..Units)
      <4> SUFFICES ASSUME NEW i \in Rows
                   PROVE  <<i, i \in must, weight[i]>> \in Rows \X BOOLEAN \X (0..Units)
        OBVIOUS
      <4>1. weight[i] \in 0..Units
        BY <2>1
      <4> DEFINE b == i \in must
      <4>2. b \in BOOLEAN
        OBVIOUS
      <4> HIDE DEF b
      <4>3. <<i, b, weight[i]>> \in Rows \X BOOLEAN \X (0..Units)
        BY <4>1, <4>2
      <4> QED BY <4>3 DEF b
    <3>2. \A x \in Fingerprint(must, weight) : x \in Rows \X BOOLEAN \X (0..Units)
      BY <3>1, Zenon DEF Fingerprint
    <3> QED BY <3>2
  <2> QED BY <1>0, <2>2 DEF VersionInv
<1>2. scores \in [Everyone -> Results \cup {None}]
  <2>1. ASSUME NEW c \in Everyone PROVE scores[c] \in Results \cup {None}
    <3>1. CASE scores[c] = None
      BY <3>1
    <3>2. CASE scores[c] # None
      <4>1. status = "approved" /\ \E v \in [Rows -> Verdicts] : scores[c] = Result(v)
        BY <1>0, <3>2 DEF RunInv
      <4>2. Shares(weight)
        BY <1>0, <4>1, SharesStored
      <4> QED BY <4>1, <4>2, ResultType
    <3> QED BY <3>1, <3>2
  <2>2. scores = [c \in Everyone |-> scores[c]]
    BY <1>0 DEF RunInv
  <2> QED BY <2>1, <2>2
<1>3. rank \in [Everyone -> 0..Candidates]
  <2>1. CASE rank = Unranked
    BY <2>1, ScoringAssumption DEF Unranked
  <2>2. CASE (\A c \in Everyone : scores[c] # None) /\ rank = Ranks(scores)
    <3>1. \A c \in Everyone : Ranks(scores)[c] \in 0..Candidates
      BY <2>2, RanksPlaces, ScoringAssumption
    <3> QED BY <2>2, <3>1 DEF Ranks
  <2> QED BY <1>0, <2>1, <2>2 DEF RunInv
<1> QED BY <1>0, <1>1, <1>2, <1>3 DEF VersionInv, TypeOK

LEMMA InvFullMarks == Inv => FullMarks
<1> SUFFICES ASSUME Inv, NEW c \in Scored
             PROVE  /\ (\A i \in Rows : relative[i] > 0 => scores[c].verdicts[i] = "met")
                          => scores[c].raw = Units
                    /\ scores[c].raw = Units
                          => \A i \in Rows : relative[i] > 0 => scores[c].verdicts[i] \in {"met", "partial"}
  BY DEF FullMarks
<1>1. PICK v \in [Rows -> Verdicts] : scores[c].raw = Raw(weight, v) /\ scores[c].verdicts = v
  BY ScoredAre
<1>2. Shares(weight) /\ status # "none"
  BY ScoredAre DEF Inv, RunInv, Scored
<1>3. \A i \in Rows : weight[i] > 0 <=> relative[i] > 0
  BY <1>2, InvWeights DEF WeightsFair, NoneStarved
<1>4. /\ (\A i \in Rows : weight[i] > 0 => v[i] = "met") => Raw(weight, v) = Units
      /\ Raw(weight, v) = Units => \A i \in Rows : weight[i] > 0 => v[i] \in {"met", "partial"}
  BY <1>2, RawFull
<1> QED BY <1>1, <1>3, <1>4

LEMMA InvBetter == Inv => BetterNeverHurts
<1> SUFFICES ASSUME Inv, NEW c \in Scored, NEW d \in Scored,
                    \A i \in Rows : Credit(scores[c].verdicts[i]) >= Credit(scores[d].verdicts[i])
             PROVE  scores[c].final >= scores[d].final
  BY DEF BetterNeverHurts
<1>1. PICK v \in [Rows -> Verdicts] :
        /\ scores[c].raw = Raw(weight, v) /\ scores[c].verdicts = v
        /\ scores[c].raw \in 0..Units
        /\ scores[c].final = Final(scores[c].raw, Fails(must, v))
  BY ScoredAre
<1>2. PICK x \in [Rows -> Verdicts] :
        /\ scores[d].raw = Raw(weight, x) /\ scores[d].verdicts = x
        /\ scores[d].raw \in 0..Units
        /\ scores[d].final = Final(scores[d].raw, Fails(must, x))
  BY ScoredAre
<1>3. \A i \in Rows : Credit(v[i]) >= Credit(x[i])
  BY <1>1, <1>2
<1>4. scores[d].raw <= scores[c].raw
  BY <1>1, <1>2, <1>3, ScoredAre, RawMonotone
<1>5. Fails(must, v) => Fails(must, x)
  <2> SUFFICES ASSUME NEW i \in must, v[i] # "met" PROVE x[i] # "met"
    BY DEF Fails
  <2>1. i \in Rows
    BY DEF Inv, VersionInv
  <2> QED BY <1>3, <2>1 DEF Credit
<1>6. \A a, b \in 0..Units : a <= b => \A e, f \in BOOLEAN : (f => e) => Final(a, e) <= Final(b, f)
  BY ScoringAssumption DEF Final
<1>7. Fails(must, v) \in BOOLEAN /\ Fails(must, x) \in BOOLEAN
  BY DEF Fails
<1>8. Final(scores[d].raw, Fails(must, x)) <= Final(scores[c].raw, Fails(must, v))
  BY <1>1, <1>2, <1>4, <1>5, <1>6, <1>7
<1>9. scores[c].final \in Int /\ scores[d].final \in Int
  BY ScoredAre
<1> QED BY <1>1, <1>2, <1>8, <1>9

LEMMA InvCap == Inv => CapHolds
<1> SUFFICES ASSUME Inv, NEW c \in Scored
             PROVE  IF \E i \in must : scores[c].verdicts[i] # "met"
                    THEN scores[c].final <= Cap /\ scores[c].final <= scores[c].raw
                    ELSE scores[c].final = scores[c].raw
  BY DEF CapHolds
<1>1. PICK v \in [Rows -> Verdicts] :
        /\ scores[c].raw \in 0..Units
        /\ scores[c].final = Final(scores[c].raw, Fails(must, v))
        /\ scores[c].verdicts = v
  BY ScoredAre
<1>2. Fails(must, v) <=> \E i \in must : scores[c].verdicts[i] # "met"
  BY <1>1 DEF Fails
<1> QED BY <1>1, <1>2, ScoringAssumption DEF Final

\* Scores are between nothing and the full score, and full exactly as they should be;
\* a candidate judged better never scores less; the cap is a ceiling and only that.
THEOREM ScoresAreFair == Spec => []ScoresFair
<1>1. Inv => ScoresFair
  BY InvType, InvFullMarks, InvBetter, InvCap DEF ScoresFair
<1> QED BY <1>1, InvHolds, PTL

LEMMA InvRanking == Inv => RankingAgrees
<1> SUFFICES ASSUME Inv, Range(rank) # {0}
             PROVE  /\ Range(rank) = Everyone
                    /\ \A c, d \in Everyone : scores[c].final > scores[d].final => rank[c] < rank[d]
  BY DEF RankingAgrees
<1>1. CASE rank = Unranked
  <2>1. Everyone = {}
    BY <1>1 DEF Unranked, Range
  <2>2. Range(rank) = {}
    BY <1>1, <2>1 DEF Unranked, Range
  <2> QED BY <2>1, <2>2
<1>2. CASE (\A c \in Everyone : scores[c] # None) /\ rank = Ranks(scores)
  <2>1. /\ \A c \in Everyone : rank[c] \in 1..Candidates
        /\ \A k \in 1..Candidates : \E c \in Everyone : rank[c] = k
        /\ \A c, d \in Everyone : Ahead(scores, c, d) => rank[c] < rank[d]
    BY <1>2, RanksPlaces
  <2>2. DOMAIN rank = Everyone
    BY <1>2 DEF Ranks
  <2>3. Range(rank) = Everyone
    BY <2>1, <2>2 DEF Range, Everyone
  <2> QED BY <2>1, <2>3 DEF Ahead
<1> QED BY <1>1, <1>2 DEF Inv, RunInv

\* The ranks of a completed run are one, two and so on without ties, by score.
THEOREM RankingsAgree == Spec => []RankingAgrees
BY InvHolds, InvRanking, PTL
=============================================================================
