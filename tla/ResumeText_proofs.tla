------------------------- MODULE ResumeText_proofs -------------------------
(***************************************************************************)
(* ResumeText: what is chunked and stored leads back to the text that was  *)
(* read, and no hidden text is left whole in it, for every set of resumes, *)
(* every target and cap and every batch size.                              *)
(***************************************************************************)
EXTENDS ResumeText, Orders_proofs

LEMMA FirstIs ==
  ASSUME NEW S \in SUBSET Nat, S # {}
  PROVE  FirstOf(S) \in S /\ \A i \in S : FirstOf(S) <= i
BY LeastOf DEF FirstOf

LEMMA LastIs ==
  ASSUME NEW m \in Nat, NEW S \in SUBSET (0..m), S # {}
  PROVE  LastOf(S) \in S /\ \A i \in S : i <= LastOf(S)
<1>1. \E x \in S : \A y \in S : x >= y
  <2>1. PICK x \in S : \A y \in S : y <= x
    BY Greatest
  <2>2. \A y \in S : x >= y
    BY <2>1
  <2> QED BY <2>2
<1>2. LastOf(S) \in S /\ \A i \in S : LastOf(S) >= i
  BY <1>1 DEF LastOf
<1> QED BY <1>2

\* Words with something between any two of them: of the places from the first
\* to the one before a word, at most every other is a word.
Between(K, W) == \A i, j \in W : i < j => \E k \in K \ W : i < k /\ k < j

LEMMA Spacing ==
  ASSUME NEW K \in SUBSET Nat, IsFiniteSet(K), NEW W \in SUBSET K, Between(K, W),
         NEW U \in SUBSET W, NEW f \in Nat, NEW k \in W,
         \A w \in U : f <= w /\ w < k
  PROVE  /\ Cardinality(U) \in Nat
         /\ 2 * Cardinality(U) <= Cardinality({j \in K : f <= j /\ j < k})
<1> DEFINE range == {j \in K : f <= j /\ j < k}
           gaps(w) == {j \in K \ W : w < j}
           gap == [w \in U |-> FirstOf(gaps(w))]
           G == {gap[w] : w \in U}
<1>1. ASSUME NEW w \in U
      PROVE  /\ gap[w] \in K \ W /\ w < gap[w]
             /\ \A j \in K \ W : w < j => gap[w] <= j
  <2>1. gaps(w) \in SUBSET Nat
    OBVIOUS
  <2>2. gaps(w) # {}
    <3>1. w \in W /\ w < k
      OBVIOUS
    <3>2. PICK j \in K \ W : w < j /\ j < k
      BY <3>1 DEF Between
    <3> QED BY <3>2
  <2>3. FirstOf(gaps(w)) \in gaps(w) /\ \A i \in gaps(w) : FirstOf(gaps(w)) <= i
    BY <2>1, <2>2, FirstIs
  <2>4. gap[w] = FirstOf(gaps(w))
    OBVIOUS
  <2> HIDE DEF gap
  <2> QED BY <2>3, <2>4
<1>2. IsFiniteSet(U) /\ IsFiniteSet(range) /\ Cardinality(U) \in Nat /\ Cardinality(range) \in Nat
  <2>1. U \in SUBSET K /\ range \in SUBSET K
    OBVIOUS
  <2> HIDE DEF range
  <2> QED BY <2>1, FS_Subset, FS_CardinalityType
<1>3. \A w \in U : gap[w] \in range \ W
  <2> SUFFICES ASSUME NEW w \in U PROVE gap[w] \in range \ W
    OBVIOUS
  <2>1. w \in W /\ w < k /\ f <= w /\ k \in Nat /\ w \in Nat
    OBVIOUS
  <2>2. PICK j \in K \ W : w < j /\ j < k
    BY <2>1 DEF Between
  <2>3. gap[w] \in K \ W /\ w < gap[w] /\ gap[w] <= j
    BY <1>1, <2>2
  <2>4. gap[w] \in Nat /\ j \in Nat
    BY <2>3
  <2> HIDE DEF gap
  <2> QED BY <2>1, <2>2, <2>3, <2>4
<1>4. \A v, w \in U : v < w => gap[v] < gap[w]
  <2> SUFFICES ASSUME NEW v \in U, NEW w \in U, v < w PROVE gap[v] < gap[w]
    OBVIOUS
  <2>1. PICK j \in K \ W : v < j /\ j < w
    BY DEF Between
  <2>2. gap[v] <= j /\ w < gap[w]
    BY <1>1, <2>1
  <2>3. gap[v] \in Nat /\ gap[w] \in Nat /\ j \in Nat /\ w \in Nat
    BY <1>3
  <2> HIDE DEF gap
  <2> QED BY <2>1, <2>2, <2>3
<1>5. \A v, w \in U : gap[v] = gap[w] => v = w
  <2> SUFFICES ASSUME NEW v \in U, NEW w \in U, v # w PROVE gap[v] # gap[w]
    OBVIOUS
  <2>1. v \in Nat /\ w \in Nat /\ gap[v] \in Nat /\ gap[w] \in Nat
    BY <1>3
  <2>2. v < w \/ w < v
    BY <2>1
  <2> HIDE DEF gap
  <2> QED BY <2>1, <2>2, <1>4
<1>6. Cardinality(U) = Cardinality(G) /\ IsFiniteSet(G)
  <2>1. gap \in [U -> G]
    OBVIOUS
  <2>2. \A g \in G : \E w \in U : gap[w] = g
    OBVIOUS
  <2> HIDE DEF gap, G
  <2>3. gap \in Bijection(U, G)
    BY <2>1, <2>2, <1>5 DEF Bijection, Injection, Surjection, IsInjective
  <2> QED BY <2>3, <1>2, FS_Bijection DEF ExistsBijection
<1>7. U \cap G = {} /\ U \cup G \in SUBSET range
  <2>1. \A g \in G : g \in range \ W
    BY <1>3
  <2>2. \A w \in U : w \in range
    OBVIOUS
  <2> HIDE DEF G, range
  <2> QED BY <2>1, <2>2
<1> HIDE DEF G, range
<1>8. Cardinality(U \cup G) = Cardinality(U) + Cardinality(G)
  <2>1. Cardinality(U \cup G) = Cardinality(U) + Cardinality(G) - Cardinality(U \cap G)
    BY <1>2, <1>6, FS_Union
  <2>2. Cardinality(U \cap G) = 0
    BY <1>7, FS_EmptySet
  <2> QED BY <2>1, <2>2, <1>2, <1>6
<1>9. Cardinality(U \cup G) <= Cardinality(range)
  BY <1>7, <1>2, FS_Subset
<1> QED BY <1>2, <1>6, <1>8, <1>9 DEF range

-----------------------------------------------------------------------------
(* Offsets in the sanitized text. *)

TextKept ==
    /\ read \in Seq(Int) /\ kept \subseteq DOMAIN read
    /\ Between(kept, WordsOf(kept))

LEMMA Positions ==
  ASSUME TextKept
  PROVE  /\ kept \in SUBSET Nat /\ kept \in SUBSET (0..Len(read)) /\ Len(read) \in Nat
         /\ IsFiniteSet(kept) /\ \A i \in kept : i >= 1
         /\ WordsOf(kept) \in SUBSET kept
         /\ \A S \in SUBSET kept : IsFiniteSet(S) /\ Cardinality(S) \in Nat
<1>1. Len(read) \in Nat /\ DOMAIN read = 1..Len(read)
  BY DEF TextKept
<1>2. kept \in SUBSET (1..Len(read)) /\ IsFiniteSet(1..Len(read))
  BY <1>1, FS_Interval DEF TextKept
<1>3. IsFiniteSet(kept)
  BY <1>2, FS_Subset
<1>4. \A S \in SUBSET kept : IsFiniteSet(S) /\ Cardinality(S) \in Nat
  BY <1>3, FS_Subset, FS_CardinalityType
<1> QED BY <1>1, <1>2, <1>3, <1>4 DEF WordsOf

LEMMA OffsetSum ==
  ASSUME TextKept, NEW f \in Nat, NEW k \in Nat, f <= k
  PROVE  /\ Offset(f) \in Nat /\ Offset(k) \in Nat
         /\ Cardinality({j \in kept : f <= j /\ j < k}) \in Nat
         /\ Offset(k) = Offset(f) + Cardinality({j \in kept : f <= j /\ j < k})
<1> DEFINE A == {j \in kept : j < f}
           B == {j \in kept : f <= j /\ j < k}
           C == {j \in kept : j < k}
<1>1. A \in SUBSET kept /\ B \in SUBSET kept /\ C \in SUBSET kept /\ C = A \cup B /\ A \cap B = {}
  BY Positions
<1>2. Offset(f) = Cardinality(A) /\ Offset(k) = Cardinality(C)
  BY DEF Offset
<1> HIDE DEF A, B, C
<1>3. IsFiniteSet(A) /\ IsFiniteSet(B) /\ Cardinality(A) \in Nat /\ Cardinality(B) \in Nat
      /\ Cardinality(C) \in Nat
  BY <1>1, Positions
<1>4. Cardinality(A \cup B) = Cardinality(A) + Cardinality(B) - Cardinality(A \cap B)
  BY <1>3, FS_Union
<1>5. Cardinality(A \cap B) = 0
  BY <1>1, FS_EmptySet
<1> QED BY <1>1, <1>2, <1>3, <1>4, <1>5 DEF B

LEMMA OffsetBehind ==
  ASSUME TextKept, NEW i \in kept
  PROVE  Offset(i) \in Nat /\ Offset(i) <= i - 1
<1>1. i \in Nat /\ i >= 1
  BY Positions
<1> DEFINE A == {j \in kept : j < i}
<1>2. A \in SUBSET (1..(i - 1))
  <2>1. \A j \in kept : j \in Nat /\ j >= 1
    BY Positions
  <2>2. \A j \in A : j \in Nat /\ j >= 1 /\ j < i
    BY <2>1
  <2> HIDE DEF A
  <2> QED BY <1>1, <2>2
<1>3. IsFiniteSet(1..(i - 1)) /\ Cardinality(1..(i - 1)) = i - 1
  <2>1. 1 \in Int /\ i - 1 \in Int
    BY <1>1
  <2>2. Cardinality(1..(i - 1)) = IF 1 > i - 1 THEN 0 ELSE (i - 1) - 1 + 1
    BY <2>1, FS_Interval
  <2> QED BY <2>1, <2>2, <1>1, FS_Interval
<1> HIDE DEF A
<1>4. Cardinality(A) <= i - 1
  BY <1>2, <1>3, FS_Subset
<1>5. Offset(i) \in Nat
  BY <1>1, OffsetSum
<1> QED BY <1>4, <1>5 DEF Offset, A

-----------------------------------------------------------------------------
(* Pieces of the text: sections, parents and children. *)

Spans == [label : Int, words : SUBSET Nat, joined : BOOLEAN, start : Nat, end : Nat]

GoodPiece(s) ==
    /\ s \in Spans /\ s.words # {} /\ s.words \subseteq WordsOf(kept)
    /\ s.start < s.end
    /\ s.start <= Offset(FirstOf(s.words)) /\ s.end <= Offset(LastOf(s.words)) + 1

\* The first and last word of a set of words of the text.
LEMMA WordEnds ==
  ASSUME TextKept, NEW W \in SUBSET WordsOf(kept), W # {}
  PROVE  /\ FirstOf(W) \in W /\ LastOf(W) \in W /\ FirstOf(W) \in Nat /\ LastOf(W) \in Nat
         /\ \A i \in W : FirstOf(W) <= i /\ i <= LastOf(W)
         /\ IsFiniteSet(W) /\ Cardinality(W) \in Nat /\ Cardinality(W) >= 1
<1>1. W \in SUBSET kept /\ W \in SUBSET Nat /\ W \in SUBSET (0..Len(read)) /\ Len(read) \in Nat
  BY Positions
<1>2. IsFiniteSet(W) /\ Cardinality(W) \in Nat
  BY <1>1, Positions
<1>3. Cardinality(W) # 0 /\ Cardinality(W) >= 1
  BY <1>2, FS_EmptySet
<1>4. FirstOf(W) \in W /\ \A i \in W : FirstOf(W) <= i
  BY <1>1, FirstIs
<1>5. LastOf(W) \in W /\ \A i \in W : i <= LastOf(W)
  BY <1>1, LastIs
<1>6. FirstOf(W) \in Nat /\ LastOf(W) \in Nat
  BY <1>1, <1>4, <1>5
<1> QED BY <1>2, <1>3, <1>4, <1>5, <1>6

\* One of the runs a piece is cut into: it begins with its first word, and its
\* offsets do not run ahead, for in the text a word and what follows it take
\* two characters at least.
LEMMA RunSound ==
  ASSUME TextKept, NEW s, GoodPiece(s), NEW starts \in SUBSET s.words, NEW first \in starts
  PROVE  /\ GoodPiece(Run(s, starts, first))
         /\ \A i : i \in Run(s, starts, first).words <=>
               i \in s.words /\ first <= i /\ \A o \in starts : o <= first \/ i < o
         /\ first \in Run(s, starts, first).words
         /\ Run(s, starts, first).label = s.label
<1> DEFINE W == s.words
           R == {i \in W : first <= i /\ \A o \in starts : o <= first \/ i < o}
           U == {i \in W : i < first}
           start == s.start + 2 * Cardinality(U)
           end == start + 2 * Cardinality(R) - 1
           f == FirstOf(W)
           l == LastOf(R)
           U2 == R \ {l}
<1>1. /\ W \in SUBSET WordsOf(kept) /\ W \in SUBSET Nat /\ W # {} /\ first \in W /\ first \in Nat
      /\ s \in Spans /\ s.start \in Nat /\ s.start <= Offset(FirstOf(s.words))
  BY DEF GoodPiece, Spans
<1>2. /\ R \in SUBSET W /\ first \in R
      /\ U \in SUBSET W /\ U2 \in SUBSET W
  BY <1>1
<1>3. /\ Run(s, starts, first) = [s EXCEPT !.words = R, !.joined = TRUE, !.start = start, !.end = end]
  BY DEF Run
<1> HIDE DEF R, U, U2
<1>4. f \in W /\ f \in Nat /\ \A i \in W : f <= i
  BY <1>1, WordEnds
<1>5. R \in SUBSET WordsOf(kept) /\ R # {} /\ U \in SUBSET WordsOf(kept)
  BY <1>1, <1>2
<1>6. /\ l \in R /\ l \in Nat /\ FirstOf(R) \in R /\ FirstOf(R) \in Nat
      /\ \A i \in R : FirstOf(R) <= i /\ i <= l
      /\ IsFiniteSet(R) /\ Cardinality(R) \in Nat /\ Cardinality(R) >= 1
  BY <1>5, WordEnds
<1>7. FirstOf(R) = first
  BY <1>1, <1>2, <1>6 DEF R
<1>8. /\ kept \in SUBSET Nat /\ IsFiniteSet(kept) /\ WordsOf(kept) \in SUBSET kept
      /\ Between(kept, WordsOf(kept))
  BY Positions DEF TextKept
<1>9. Cardinality(U) \in Nat /\ start \in Nat /\ start <= Offset(first) /\ Offset(first) \in Nat
  <2>1. \A w \in U : f <= w /\ w < first
    BY <1>2, <1>4 DEF U
  <2>2. first \in WordsOf(kept)
    BY <1>1
  <2> DEFINE range == {j \in kept : f <= j /\ j < first}
  <2>3. Cardinality(U) \in Nat /\ 2 * Cardinality(U) <= Cardinality(range)
    BY <1>4, <1>5, <1>8, <2>1, <2>2, Spacing
  <2>4. f <= first
    BY <1>1, <1>4
  <2>5. /\ Offset(f) \in Nat /\ Offset(first) \in Nat /\ Cardinality(range) \in Nat
        /\ Offset(first) = Offset(f) + Cardinality(range)
    BY <1>1, <1>4, <2>4, OffsetSum
  <2> HIDE DEF range
  <2> QED BY <1>1, <2>3, <2>5
<1>10. end \in Nat /\ start < end /\ end <= Offset(l) + 1
  <2>1. \A w \in U2 : first <= w /\ w < l
    <3>1. \A w \in U2 : w \in R /\ w # l
      BY DEF U2
    <3>2. \A w \in U2 : first <= w /\ w <= l /\ w \in Nat
      BY <3>1, <1>2, <1>1, <1>6, <1>7
    <3> QED BY <3>1, <3>2, <1>6
  <2>2. l \in WordsOf(kept) /\ U2 \in SUBSET WordsOf(kept)
    BY <1>2, <1>5, <1>6, <1>1
  <2> DEFINE range == {j \in kept : first <= j /\ j < l}
  <2>3. Cardinality(U2) \in Nat /\ 2 * Cardinality(U2) <= Cardinality(range)
    BY <1>1, <1>8, <2>1, <2>2, Spacing
  <2>4. first <= l
    BY <1>2, <1>6
  <2>5. /\ Offset(l) \in Nat /\ Cardinality(range) \in Nat
        /\ Offset(l) = Offset(first) + Cardinality(range)
    BY <1>1, <1>6, <2>4, OffsetSum
  <2>6. Cardinality(U2) = Cardinality(R) - 1
    BY <1>6, FS_RemoveElement DEF U2
  <2> HIDE DEF range
  <2> QED BY <1>6, <1>9, <2>3, <2>5, <2>6
<1> HIDE DEF start, end, l
<1>11. GoodPiece(Run(s, starts, first))
  <2>1. Run(s, starts, first) \in Spans
    BY <1>1, <1>3, <1>5, <1>2, <1>9, <1>10 DEF Spans
  <2>2. /\ Run(s, starts, first).words = R
        /\ Run(s, starts, first).start = start /\ Run(s, starts, first).end = end
    BY <1>1, <1>3 DEF Spans
  <2> QED BY <2>1, <2>2, <1>5, <1>7, <1>9, <1>10 DEF GoodPiece, l
<1>12. Run(s, starts, first).words = R /\ Run(s, starts, first).label = s.label
  BY <1>1, <1>3 DEF Spans
<1> QED BY <1>2, <1>11, <1>12 DEF R

\* Pieces that hold every word of W in Need, in order, none of them twice.
Divides(pieces, W, Need) ==
    /\ \A a \in pieces : GoodPiece(a) /\ a.words \subseteq W
    /\ \A i \in Need : \E a \in pieces : i \in a.words
    /\ \A a, b \in pieces : a = b \/ EndsBefore(a.words, b.words) \/ EndsBefore(b.words, a.words)

LEMMA SplitSound ==
  ASSUME TextKept, NEW s, GoodPiece(s), NEW target
  PROVE  /\ Divides(SplitIntoWordChunks(s, target), s.words, s.words)
         /\ \A a \in SplitIntoWordChunks(s, target) : a.label = s.label
<1> DEFINE W == s.words
<1>1. CASE Cardinality(W) <= target
  <2>1. SplitIntoWordChunks(s, target) = {s}
    BY <1>1 DEF SplitIntoWordChunks
  <2> QED BY <2>1 DEF Divides
<1>2. CASE ~(Cardinality(W) <= target)
  <2> DEFINE starts == ChunkStarts(W, target)
  <2>1. SplitIntoWordChunks(s, target) = {Run(s, starts, first) : first \in starts}
    BY <1>2 DEF SplitIntoWordChunks
  <2>2. W \in SUBSET WordsOf(kept) /\ W # {} /\ W \in SUBSET Nat
    BY DEF GoodPiece, Spans
  <2>3. starts \in SUBSET W /\ FirstOf(W) \in starts
    <3>1. FirstOf(W) \in W
      BY <2>2, WordEnds
    <3> QED BY <3>1 DEF ChunkStarts
  <2> HIDE DEF starts
  <2>4. ASSUME NEW first \in starts
        PROVE  /\ GoodPiece(Run(s, starts, first)) /\ Run(s, starts, first).label = s.label
               /\ Run(s, starts, first).words \subseteq W
               /\ \A i : i \in Run(s, starts, first).words <=>
                    i \in W /\ first <= i /\ \A o \in starts : o <= first \/ i < o
    <3>1. /\ GoodPiece(Run(s, starts, first)) /\ Run(s, starts, first).label = s.label
          /\ \A i : i \in Run(s, starts, first).words <=>
               i \in s.words /\ first <= i /\ \A o \in starts : o <= first \/ i < o
      <4>1. starts \in SUBSET s.words
        BY <2>3
      <4> QED BY <4>1, RunSound
    <3> QED BY <3>1
  <2>5. ASSUME NEW i \in W PROVE \E first \in starts : i \in Run(s, starts, first).words
    <3> DEFINE begun == {o \in starts : o <= i}
    <3>1. i \in Nat /\ starts \in SUBSET Nat
      BY <2>2, <2>3
    <3>2. begun \in SUBSET (0..i)
      <4>1. \A o \in begun : o \in Nat /\ o <= i
        BY <3>1
      <4> HIDE DEF begun
      <4> QED BY <4>1, <3>1
    <3>3. FirstOf(W) \in begun
      <4>1. FirstOf(W) <= i
        BY <2>2, WordEnds
      <4> QED BY <4>1, <2>3
    <3>4. PICK first \in begun : \A o \in begun : o <= first
      <4> HIDE DEF begun
      <4> QED BY <3>1, <3>2, <3>3, Greatest
    <3>5. \A o \in starts : o <= first \/ i < o
      BY <3>1, <3>4
    <3>6. first \in starts /\ first <= i
      BY <3>4
    <3> HIDE DEF begun
    <3> QED BY <2>4, <3>5, <3>6
  <2>6. ASSUME NEW k \in starts, NEW m \in starts, k < m
        PROVE  EndsBefore(Run(s, starts, k).words, Run(s, starts, m).words)
    <3>1. \A i \in Run(s, starts, k).words : i \in W /\ (m <= k \/ i < m)
      BY <2>4
    <3>2. \A j \in Run(s, starts, m).words : j \in W /\ m <= j
      BY <2>4
    <3>3. k \in Nat /\ m \in Nat
      BY <2>2, <2>3
    <3>4. SUFFICES ASSUME NEW i \in Run(s, starts, k).words, NEW j \in Run(s, starts, m).words
                   PROVE  i < j
      BY DEF EndsBefore
    <3>5. i \in Nat /\ j \in Nat
      BY <3>1, <3>2, <2>2
    <3> QED BY <3>1, <3>2, <3>3, <3>5, <1>2, <2>6
  <2>7. ASSUME NEW k \in starts, NEW m \in starts
        PROVE  \/ Run(s, starts, k) = Run(s, starts, m)
               \/ EndsBefore(Run(s, starts, k).words, Run(s, starts, m).words)
               \/ EndsBefore(Run(s, starts, m).words, Run(s, starts, k).words)
    <3>1. k \in Nat /\ m \in Nat
      BY <2>2, <2>3
    <3>2. k = m \/ k < m \/ m < k
      BY <3>1
    <3> QED BY <3>2, <2>6
  <2> QED BY <2>1, <2>4, <2>5, <2>7 DEF Divides
<1> QED BY <1>1, <1>2

\* Nor does it matter that a parent which makes one child is that child.
LEMMA ChildrenSound ==
  ASSUME TextKept, NEW s, GoodPiece(s)
  PROVE  Divides(ChildSpans(s), s.words, s.words)
<1>1. Divides(SplitIntoWordChunks(s, ChildWords), s.words, s.words)
  BY SplitSound
<1>2. Divides({s}, s.words, s.words)
  BY DEF Divides
<1> QED BY <1>1, <1>2 DEF ChildSpans

\* Where a line starts, before its words.
LEMMA SectionStartEarly ==
  ASSUME TextKept, NEW h \in Nat, NEW i \in WordsOf(kept), h < i
  PROVE  SectionStart(h) \in Nat /\ SectionStart(h) <= Offset(i)
<1> DEFINE A == {j \in kept : \E b \in BreaksBefore(h) : j <= b}
           B == {j \in kept : j < i}
<1>1. i \in kept /\ i \in Nat
  BY Positions
<1>2. A \in SUBSET B
  <2> SUFFICES ASSUME NEW j \in A PROVE j \in B
    OBVIOUS
  <2>1. PICK b \in BreaksBefore(h) : j <= b
    OBVIOUS
  <2>2. b \in kept /\ b < h /\ j \in kept
    BY DEF BreaksBefore
  <2>3. b \in Nat /\ j \in Nat
    BY <2>2, Positions
  <2> QED BY <1>1, <2>1, <2>2, <2>3
<1>3. B \in SUBSET kept
  OBVIOUS
<1> HIDE DEF A, B
<1>4. /\ IsFiniteSet(B) /\ Cardinality(A) \in Nat /\ Cardinality(A) <= Cardinality(B)
  <2>1. IsFiniteSet(B) /\ A \in SUBSET kept
    BY <1>2, <1>3, Positions
  <2> QED BY <2>1, <1>2, Positions, FS_Subset
<1> QED BY <1>4 DEF A, B, SectionStart, Offset

LEMMA SectionGood ==
  ASSUME TextKept, NEW W \in SUBSET WordsOf(kept), W # {}, NEW label \in Int, NEW start \in Nat,
         start <= Offset(FirstOf(W))
  PROVE  /\ GoodPiece(Section(label, W, start)) /\ Section(label, W, start).words = W
         /\ Section(label, W, start).label = label
<1> DEFINE f == FirstOf(W)
           l == LastOf(W)
           width == Cardinality({i \in kept : f <= i /\ i <= l})
           below == {i \in kept : f <= i /\ i < l}
<1>1. f \in W /\ l \in W /\ f \in Nat /\ l \in Nat /\ f <= l
  BY WordEnds
<1>2. l \in kept /\ kept \in SUBSET Nat
  BY <1>1, Positions
<1>3. {i \in kept : f <= i /\ i <= l} = below \cup {l}
  <2>1. \A i : i \in kept /\ f <= i /\ i <= l <=> i \in below \/ i = l
    <3>1. \A i \in kept : i \in Nat /\ (i <= l <=> i < l \/ i = l)
      BY <1>1, <1>2
    <3> HIDE DEF f, l
    <3> QED BY <1>1, <1>2, <3>1
  <2> HIDE DEF below, f, l
  <2> QED BY <2>1
<1>4. below \in SUBSET kept /\ l \notin below
  BY <1>1
<1>5. /\ Offset(f) \in Nat /\ Offset(l) \in Nat /\ Cardinality(below) \in Nat
      /\ Offset(l) = Offset(f) + Cardinality(below)
  BY <1>1, OffsetSum
<1> HIDE DEF below
<1>6. width = Cardinality(below) + 1
  <2>1. IsFiniteSet(below)
    BY <1>4, Positions
  <2> QED BY <2>1, <1>3, <1>4, FS_AddElement
<1>7. Section(label, W, start) =
         [label |-> label, words |-> W, joined |-> FALSE, start |-> start, end |-> start + width]
  BY DEF Section
<1>8. W \in SUBSET Nat
  BY Positions
<1> HIDE DEF f, l, width
<1>9. start + width \in Nat /\ start < start + width /\ start + width <= Offset(l) + 1
      /\ start <= Offset(f)
  BY <1>5, <1>6 DEF f
<1>10. Section(label, W, start) \in Spans
  BY <1>7, <1>8, <1>9 DEF Spans
<1> QED BY <1>7, <1>9, <1>10 DEF GoodPiece, f, l

LEMMA CutsAreHeadings ==
  ASSUME TextKept
  PROVE  Cuts \in SUBSET {h \in WordsOf(kept) : IsHeading(h)}
BY DEF Cuts

LEMMA SectionsSound ==
  ASSUME TextKept, WordsOf(kept) # {}
  PROVE  Divides(SegmentIntoSections, WordsOf(kept), {i \in WordsOf(kept) : ~OnHeadingLine(i)})
<1> DEFINE words == WordsOf(kept)
           cuts == Cuts
           all == {0} \cup cuts
           filled == {h \in all : Body(cuts, h) # {}}
           S(h) == Section(IF h = 0 THEN Summary ELSE read[h], Body(cuts, h), SectionStart(h))
<1>1. words \in SUBSET Nat /\ words \in SUBSET kept /\ \A i \in words : i \in Nat /\ i >= 1
  BY Positions
<1>2. /\ cuts \in SUBSET words /\ \A h \in cuts : IsHeading(h)
      /\ \A h \in all : h \in Nat
  BY <1>1, CutsAreHeadings
<1>3. \A h, i : i \in Body(cuts, h) <=>
                  /\ i \in words
                  /\ h < i /\ \A c \in cuts : c <= h \/ i < c
                  /\ h \in cuts => BreaksBefore(i) # BreaksBefore(h)
  BY DEF Body
<1> HIDE DEF cuts
<1>4. ASSUME NEW h \in filled
      PROVE  GoodPiece(S(h)) /\ S(h).words = Body(cuts, h)
  <2>1. h \in Nat /\ Body(cuts, h) \in SUBSET WordsOf(kept) /\ Body(cuts, h) # {}
    BY <1>2, <1>3
  <2>2. (IF h = 0 THEN Summary ELSE read[h]) \in Int
    <3>1. CASE h = 0
      BY <3>1 DEF Summary
    <3>2. CASE h # 0
      <4>1. h \in kept
        BY <3>2, <1>1, <1>2
      <4>2. read[h] \in Int
        BY <4>1 DEF TextKept
      <4> QED BY <3>2, <4>2
    <3> QED BY <3>1, <3>2
  <2>3. FirstOf(Body(cuts, h)) \in Body(cuts, h)
    BY <2>1, WordEnds
  <2>4. FirstOf(Body(cuts, h)) \in WordsOf(kept) /\ h < FirstOf(Body(cuts, h))
    BY <2>3, <1>3
  <2>5. SectionStart(h) \in Nat /\ SectionStart(h) <= Offset(FirstOf(Body(cuts, h)))
    BY <2>1, <2>4, SectionStartEarly
  <2> QED BY <2>1, <2>2, <2>5, SectionGood
<1>5. ASSUME NEW h \in filled, NEW g \in filled, h < g
      PROVE  EndsBefore(Body(cuts, h), Body(cuts, g))
  <2>1. h \in Nat /\ g \in Nat /\ g \in cuts
    BY <1>2, <1>5
  <2>2. SUFFICES ASSUME NEW i \in Body(cuts, h), NEW j \in Body(cuts, g) PROVE i < j
    BY DEF EndsBefore
  <2>3. i \in words /\ j \in words /\ g < j /\ (g <= h \/ i < g)
    BY <1>3, <2>1
  <2>4. i \in Nat /\ j \in Nat
    BY <1>1, <2>3
  <2> QED BY <1>5, <2>1, <2>3, <2>4
<1>6. ASSUME NEW i \in words, ~OnHeadingLine(i)
      PROVE  \E h \in filled : i \in Body(cuts, h)
  <2> DEFINE begun == {c \in all : c <= i}
  <2>1. i \in Nat /\ i >= 1
    BY <1>1
  <2>2. begun \in SUBSET (0..i) /\ 0 \in begun
    <3>1. \A c \in begun : c \in Nat /\ c <= i
      BY <1>2
    <3>2. 0 \in begun
      BY <2>1
    <3> HIDE DEF begun
    <3> QED BY <3>1, <3>2, <2>1
  <2>3. PICK h \in begun : \A c \in begun : c <= h
    <3> HIDE DEF begun
    <3> QED BY <2>1, <2>2, Greatest
  <2>4. h \in all /\ h <= i /\ h \in Nat
    BY <2>3, <1>2
  <2>5. h # i /\ (h \in cuts => BreaksBefore(i) # BreaksBefore(h))
    <3>1. \A c \in cuts : c \in words /\ IsHeading(c)
      BY <1>2
    <3>2. \A c \in cuts : BreaksBefore(c) # BreaksBefore(i)
      BY <1>6, <3>1 DEF OnHeadingLine
    <3>3. h = i => h \in cuts
      BY <2>1, <2>4
    <3> QED BY <3>2, <3>3
  <2>6. \A c \in cuts : c <= h \/ i < c
    <3> SUFFICES ASSUME NEW c \in cuts PROVE c <= h \/ i < c
      OBVIOUS
    <3>1. c \in Nat
      BY <1>2
    <3>2. CASE c <= i
      BY <2>3, <3>2
    <3>3. CASE ~(c <= i)
      BY <3>1, <3>3, <2>1
    <3> QED BY <3>2, <3>3
  <2>7. h < i
    BY <2>1, <2>4, <2>5
  <2>8. i \in Body(cuts, h)
    BY <1>3, <2>5, <2>6, <2>7
  <2> QED BY <2>4, <2>8
<1>7. CASE filled = {}
  <2>1. SegmentIntoSections = {Section(Other, words, 0)}
    BY <1>7 DEF SegmentIntoSections, cuts
  <2>2. 0 <= Offset(FirstOf(words))
    <3>1. FirstOf(words) \in words
      BY WordEnds
    <3>2. FirstOf(words) \in kept
      BY <3>1, <1>1
    <3>3. Offset(FirstOf(words)) \in Nat
      BY <3>2, OffsetBehind
    <3> QED BY <3>3
  <2>3. GoodPiece(Section(Other, words, 0)) /\ Section(Other, words, 0).words = words
    <3>1. Other \in Int
      BY DEF Other
    <3> QED BY <2>2, <3>1, SectionGood
  <2> QED BY <2>1, <2>3 DEF Divides
<1>8. CASE filled # {}
  <2>1. SegmentIntoSections = {S(h) : h \in filled}
    BY <1>8 DEF SegmentIntoSections, cuts
  <2>2. \A h, g \in filled : \/ S(h) = S(g) \/ EndsBefore(Body(cuts, h), Body(cuts, g))
                             \/ EndsBefore(Body(cuts, g), Body(cuts, h))
    <3> SUFFICES ASSUME NEW h \in filled, NEW g \in filled, h # g
                 PROVE  EndsBefore(Body(cuts, h), Body(cuts, g)) \/ EndsBefore(Body(cuts, g), Body(cuts, h))
      OBVIOUS
    <3>1. h \in Nat /\ g \in Nat
      BY <1>2
    <3>2. h < g \/ g < h
      BY <3>1
    <3> QED BY <3>2, <1>5
  <2>3. \A h \in filled : Body(cuts, h) \subseteq words
    BY <1>3
  <2> HIDE DEF S, filled
  <2> QED BY <2>1, <2>2, <2>3, <1>4, <1>6 DEF Divides
<1> QED BY <1>7, <1>8

\* Pieces of pieces.
LEMMA DividedAgain ==
  ASSUME NEW S, NEW W, NEW Need, NEW parts, DOMAIN parts = S, Divides(S, W, Need),
         \A s \in S : Divides(parts[s], s.words, s.words)
  PROVE  Divides(UNION {parts[s] : s \in S}, W, Need)
<1> DEFINE U == UNION {parts[s] : s \in S}
<1>1. \A a : a \in U <=> \E s \in S : a \in parts[s]
  OBVIOUS
<1> HIDE DEF U
<1>2. \A a \in U : GoodPiece(a) /\ a.words \subseteq W
  <2> SUFFICES ASSUME NEW a \in U PROVE GoodPiece(a) /\ a.words \subseteq W
    OBVIOUS
  <2>1. PICK s \in S : a \in parts[s]
    BY <1>1
  <2>2. GoodPiece(a) /\ a.words \subseteq s.words /\ s.words \subseteq W
    BY <2>1 DEF Divides
  <2> QED BY <2>2
<1>3. \A i \in Need : \E a \in U : i \in a.words
  <2> SUFFICES ASSUME NEW i \in Need PROVE \E a \in U : i \in a.words
    OBVIOUS
  <2>1. PICK s \in S : i \in s.words
    BY DEF Divides
  <2>2. PICK a \in parts[s] : i \in a.words
    BY <2>1 DEF Divides
  <2> QED BY <1>1, <2>2
<1>4. \A a, b \in U : a = b \/ EndsBefore(a.words, b.words) \/ EndsBefore(b.words, a.words)
  <2> SUFFICES ASSUME NEW a \in U, NEW b \in U
               PROVE  a = b \/ EndsBefore(a.words, b.words) \/ EndsBefore(b.words, a.words)
    OBVIOUS
  <2>1. PICK s \in S : a \in parts[s]
    BY <1>1
  <2>2. PICK t \in S : b \in parts[t]
    BY <1>1
  <2>3. CASE s = t
    BY <2>1, <2>2, <2>3 DEF Divides
  <2>4. CASE s # t
    <3>1. EndsBefore(s.words, t.words) \/ EndsBefore(t.words, s.words)
      BY <2>4 DEF Divides
    <3>2. a.words \subseteq s.words /\ b.words \subseteq t.words
      BY <2>1, <2>2 DEF Divides
    <3> QED BY <3>1, <3>2 DEF EndsBefore
  <2> QED BY <2>3, <2>4
<1> QED BY <1>2, <1>3, <1>4 DEF Divides, U

Parents == UNION {SplitIntoWordChunks(s, ParentWords) : s \in SegmentIntoSections}

LEMMA ParentsSound ==
  ASSUME TextKept, WordsOf(kept) # {}
  PROVE  Divides(Parents, WordsOf(kept), {i \in WordsOf(kept) : ~OnHeadingLine(i)})
<1> DEFINE S == SegmentIntoSections
           parts == [s \in S |-> SplitIntoWordChunks(s, ParentWords)]
           need == {i \in WordsOf(kept) : ~OnHeadingLine(i)}
<1>1. Divides(S, WordsOf(kept), need)
  BY SectionsSound
<1>2. \A s \in S : Divides(parts[s], s.words, s.words)
  <2> SUFFICES ASSUME NEW s \in S PROVE Divides(parts[s], s.words, s.words)
    OBVIOUS
  <2>1. GoodPiece(s)
    BY <1>1 DEF Divides
  <2>2. Divides(SplitIntoWordChunks(s, ParentWords), s.words, s.words)
    BY <2>1, SplitSound
  <2> QED BY <2>2
<1>3. Parents = UNION {parts[s] : s \in S}
  BY DEF Parents
<1> HIDE DEF parts, need
<1>4. DOMAIN parts = S
  BY DEF parts
<1>5. Divides(UNION {parts[s] : s \in S}, WordsOf(kept), need)
  <2> HIDE DEF S
  <2> QED BY <1>1, <1>2, <1>4, DividedAgain
<1> QED BY <1>3, <1>5 DEF need

-----------------------------------------------------------------------------
(* Pages. *)

PagesHold ==
    /\ offsets \in Seq([start : Nat, end : Nat])
    /\ \A p, q \in DOMAIN offsets : p < q => offsets[p].end < offsets[q].start
    /\ \A i \in WordsOf(DOMAIN read) : \E p \in DOMAIN offsets : OnPage(offsets, p, i)

LEMMA ResolvedEarly ==
  ASSUME PagesHold, NEW char \in Nat, NEW i \in Nat, NEW p \in DOMAIN offsets,
         OnPage(offsets, p, i), char <= i - 1
  PROVE  ResolvePage(char) <= p
<1> DEFINE begun == {q \in DOMAIN offsets : offsets[q].start <= char}
<1>1. /\ DOMAIN offsets = 1..Len(offsets) /\ Len(offsets) \in Nat /\ p \in Nat
      /\ \A q \in DOMAIN offsets : q \in Nat /\ offsets[q].start \in Nat /\ offsets[q].end \in Nat
  <2>1. offsets \in Seq([start : Nat, end : Nat])
    BY DEF PagesHold
  <2>2. DOMAIN offsets = 1..Len(offsets) /\ Len(offsets) \in Nat
    BY <2>1
  <2>3. \A q \in DOMAIN offsets : offsets[q] \in [start : Nat, end : Nat] /\ q \in Nat
    <3> DEFINE places == [start : Nat, end : Nat]
    <3>1. offsets \in Seq(places)
      BY <2>1
    <3> HIDE DEF places
    <3>2. \A q \in 1..Len(offsets) : offsets[q] \in places /\ q \in Nat
      BY <3>1
    <3> QED BY <2>2, <3>2 DEF places
  <2> QED BY <2>2, <2>3
<1>2. CASE begun = {}
  <2>1. ResolvePage(char) = 0
    BY <1>2 DEF ResolvePage
  <2> QED BY <1>1, <2>1
<1>3. CASE begun # {}
  <2>1. ResolvePage(char) = LastOf(begun)
    BY <1>3 DEF ResolvePage
  <2>2. begun \in SUBSET (0..Len(offsets))
    BY <1>1
  <2>3. LastOf(begun) \in begun
    <3> HIDE DEF begun
    <3> QED BY <1>1, <1>3, <2>2, LastIs
  <2> DEFINE q == LastOf(begun)
  <2> HIDE DEF q
  <2>4. q \in DOMAIN offsets /\ offsets[q].start <= char
    BY <2>3 DEF q
  <2>5. ~(p < q)
    <3> SUFFICES ASSUME p < q PROVE FALSE
      OBVIOUS
    <3>1. offsets[p].end < offsets[q].start
      BY <2>4 DEF PagesHold
    <3>2. i <= offsets[p].end
      BY DEF OnPage
    <3>3. offsets[p].end \in Nat /\ offsets[q].start \in Nat
      BY <1>1, <2>4
    <3> QED BY <2>4, <3>1, <3>2, <3>3
  <2>6. q \in Nat
    BY <1>1, <2>4
  <2> QED BY <1>1, <2>1, <2>5, <2>6 DEF q
<1> QED BY <1>2, <1>3

-----------------------------------------------------------------------------
(* The chunks of a document. *)

ChunkGood(c) ==
    /\ c.isParent \in BOOLEAN /\ c.joined \in BOOLEAN
    /\ c.words # {} /\ c.words \subseteq WordsOf(kept)
    /\ c.start < c.end
    /\ c.start <= Offset(FirstOf(c.words)) /\ c.end <= Offset(LastOf(c.words)) + 1
    /\ \E p \in DOMAIN offsets : OnPage(offsets, p, FirstOf(c.words)) /\ c.pageFrom <= p

LEMMA RowGood ==
  ASSUME TextKept, PagesHold, NEW s, GoodPiece(s), NEW family, NEW isParent \in BOOLEAN
  PROVE  /\ ChunkGood(ChunkRow(s, family, isParent))
         /\ ChunkRow(s, family, isParent).words = s.words
         /\ ChunkRow(s, family, isParent).isParent = isParent
         /\ ChunkRow(s, family, isParent).family = family
<1> DEFINE c == ChunkRow(s, family, isParent)
           f == FirstOf(s.words)
<1>1. /\ c.words = s.words /\ c.joined = s.joined /\ c.start = s.start /\ c.end = s.end
      /\ c.isParent = isParent /\ c.family = family /\ c.pageFrom = ResolvePage(s.start)
  BY DEF ChunkRow
<1>2. /\ s.joined \in BOOLEAN /\ s.start \in Nat /\ s.words # {} /\ s.words \in SUBSET WordsOf(kept)
      /\ s.start < s.end /\ s.start <= Offset(f) /\ s.end <= Offset(LastOf(s.words)) + 1
  BY DEF GoodPiece, Spans
<1>3. f \in s.words /\ f \in Nat
  BY <1>2, WordEnds
<1>4. f \in kept
  BY <1>2, <1>3, Positions
<1>5. f \in WordsOf(DOMAIN read)
  BY <1>2, <1>3 DEF WordsOf, TextKept
<1>6. PICK p \in DOMAIN offsets : OnPage(offsets, p, f)
  BY <1>5 DEF PagesHold
<1>7. s.start <= f - 1
  <2>1. Offset(f) \in Nat /\ Offset(f) <= f - 1
    BY <1>4, OffsetBehind
  <2> QED BY <1>2, <1>3, <2>1
<1>8. ResolvePage(s.start) <= p
  BY <1>2, <1>3, <1>6, <1>7, ResolvedEarly
<1> HIDE DEF c, f
<1>9. ChunkGood(c)
  BY <1>1, <1>2, <1>6, <1>8 DEF ChunkGood, f
<1> QED BY <1>1, <1>9 DEF c

\* Every child in a parent, of its family and around it.
Housed(some) ==
    \A c \in some : \E p \in some : /\ p.isParent /\ p.family = c.family
                                    /\ c.words \subseteq p.words

Covers(some, isParent) ==
    LET these == {c \in some : c.isParent = isParent} IN
        /\ {i \in WordsOf(kept) : ~OnHeadingLine(i)} \subseteq UNION {c.words : c \in these}
        /\ \A c \in these : c.words # {} /\ c.words \subseteq WordsOf(kept)
        /\ \A c, d \in these : c = d \/ EndsBefore(c.words, d.words) \/ EndsBefore(d.words, c.words)

LEMMA DocumentSound ==
  ASSUME TextKept, PagesHold
  PROVE  /\ \A c \in ChunkDocument : ChunkGood(c)
         /\ ChunkDocument # {} => Covers(ChunkDocument, TRUE) /\ Covers(ChunkDocument, FALSE)
         /\ Housed(ChunkDocument)
<1> DEFINE D == ChunkDocument
           need == {i \in WordsOf(kept) : ~OnHeadingLine(i)}
           parent(p) == ChunkRow(p, FirstOf(p.words), TRUE)
           child(p, a) == ChunkRow(a, FirstOf(p.words), FALSE)
<1>1. CASE WordsOf(kept) = {}
  <2>1. D = {}
    BY <1>1 DEF ChunkDocument
  <2> QED BY <2>1 DEF Housed
<1>2. CASE WordsOf(kept) # {}
  <2>1. D = {parent(p) : p \in Parents}
            \cup UNION {{child(p, a) : a \in ChildSpans(p)} : p \in Parents}
    BY <1>2 DEF ChunkDocument, Parents
  <2>2. \A c : c \in D <=> \/ \E p \in Parents : c = parent(p)
                           \/ \E p \in Parents : \E a \in ChildSpans(p) : c = child(p, a)
    <3> DEFINE kids(p) == {child(p, a) : a \in ChildSpans(p)}
               A == {parent(p) : p \in Parents}
               B == UNION {kids(p) : p \in Parents}
    <3> HIDE DEF parent, child
    <3>1. \A c : c \in A <=> \E p \in Parents : c = parent(p)
      OBVIOUS
    <3>2. \A c, p : c \in kids(p) <=> \E a \in ChildSpans(p) : c = child(p, a)
      OBVIOUS
    <3>3. D = A \cup B
      BY <2>1
    <3> HIDE DEF kids
    <3>4. \A c : c \in B <=> \E p \in Parents : c \in kids(p)
      OBVIOUS
    <3> HIDE DEF A, B, D
    <3> QED BY <3>1, <3>2, <3>3, <3>4
  <2>3. Divides(Parents, WordsOf(kept), need)
    BY <1>2, ParentsSound
  <2>4. ASSUME NEW p \in Parents
        PROVE  /\ GoodPiece(p) /\ Divides(ChildSpans(p), p.words, p.words)
    <3>1. GoodPiece(p)
      BY <2>3 DEF Divides
    <3> QED BY <3>1, ChildrenSound
  <2>5. ASSUME NEW p \in Parents
        PROVE  /\ ChunkGood(parent(p)) /\ parent(p).isParent = TRUE
               /\ parent(p).words = p.words /\ parent(p).family = FirstOf(p.words)
    BY <2>4, RowGood
  <2>6. ASSUME NEW p \in Parents, NEW a \in ChildSpans(p)
        PROVE  /\ ChunkGood(child(p, a)) /\ child(p, a).isParent = FALSE
               /\ child(p, a).words = a.words /\ child(p, a).family = FirstOf(p.words)
               /\ a.words \subseteq p.words
    <3>1. GoodPiece(a) /\ a.words \subseteq p.words
      BY <2>4 DEF Divides
    <3> QED BY <3>1, RowGood
  <2> HIDE DEF parent, child, D, need
  <2>7. \A c \in D : ChunkGood(c)
    <3> SUFFICES ASSUME NEW c \in D PROVE ChunkGood(c)
      OBVIOUS
    <3>1. CASE \E p \in Parents : c = parent(p)
      BY <3>1, <2>5
    <3>2. CASE \E p \in Parents : \E a \in ChildSpans(p) : c = child(p, a)
      BY <3>2, <2>6
    <3> QED BY <3>1, <3>2, <2>2
  <2>8. Housed(D)
    <3> SUFFICES ASSUME NEW c \in D
                 PROVE  \E p \in D : p.isParent /\ p.family = c.family /\ c.words \subseteq p.words
      BY DEF Housed
    <3>1. PICK p \in Parents : \/ c = parent(p)
                              \/ \E a \in ChildSpans(p) : c = child(p, a)
      BY <2>2
    <3>2. c.family = FirstOf(p.words) /\ c.words \subseteq p.words
      <4>1. CASE c = parent(p)
        BY <4>1, <2>5
      <4>2. CASE \E a \in ChildSpans(p) : c = child(p, a)
        BY <4>2, <2>6
      <4> QED BY <3>1, <4>1, <4>2
    <3>3. parent(p) \in D
      BY <2>2
    <3> QED BY <3>2, <3>3, <2>5
  <2>9. \A c \in D : c.isParent = TRUE => \E p \in Parents : c = parent(p)
    BY <2>2, <2>6
  <2>10. \A c \in D : c.isParent = FALSE =>
            \E p \in Parents : \E a \in ChildSpans(p) : c = child(p, a)
    BY <2>2, <2>5
  <2>11. \A c \in D : c.words # {} /\ c.words \subseteq WordsOf(kept)
    BY <2>7 DEF ChunkGood
  <2>12. ASSUME NEW c \in D, NEW d \in D, c.isParent = TRUE, d.isParent = TRUE
         PROVE  c = d \/ EndsBefore(c.words, d.words) \/ EndsBefore(d.words, c.words)
    <3>1. PICK p \in Parents : c = parent(p)
      BY <2>9, <2>12
    <3>2. PICK q \in Parents : d = parent(q)
      BY <2>9, <2>12
    <3>3. p = q \/ EndsBefore(p.words, q.words) \/ EndsBefore(q.words, p.words)
      BY <2>3 DEF Divides
    <3> QED BY <3>1, <3>2, <3>3, <2>5
  <2>13. ASSUME NEW c \in D, NEW d \in D, c.isParent = FALSE, d.isParent = FALSE
         PROVE  c = d \/ EndsBefore(c.words, d.words) \/ EndsBefore(d.words, c.words)
    <3>1. PICK p \in Parents : \E a \in ChildSpans(p) : c = child(p, a)
      BY <2>10, <2>13
    <3>2. PICK q \in Parents : \E b \in ChildSpans(q) : d = child(q, b)
      BY <2>10, <2>13
    <3>a. PICK a \in ChildSpans(p) : c = child(p, a)
      BY <3>1
    <3>b. PICK b \in ChildSpans(q) : d = child(q, b)
      BY <3>2
    <3>3. c.words = a.words /\ d.words = b.words /\ a.words \subseteq p.words /\ b.words \subseteq q.words
      BY <3>a, <3>b, <2>6
    <3>4. CASE p = q
      <4>1. a = b \/ EndsBefore(a.words, b.words) \/ EndsBefore(b.words, a.words)
        BY <2>4, <3>4 DEF Divides
      <4> QED BY <4>1, <3>a, <3>b, <3>3, <3>4
    <3>5. CASE p # q
      <4>1. EndsBefore(p.words, q.words) \/ EndsBefore(q.words, p.words)
        BY <2>3, <3>5 DEF Divides
      <4> QED BY <4>1, <3>3 DEF EndsBefore
    <3> QED BY <3>4, <3>5
  <2>14. ASSUME NEW i \in need
         PROVE  /\ \E c \in D : c.isParent = TRUE /\ i \in c.words
                /\ \E c \in D : c.isParent = FALSE /\ i \in c.words
    <3>1. PICK p \in Parents : i \in p.words
      BY <2>3 DEF Divides
    <3>2. PICK a \in ChildSpans(p) : i \in a.words
      BY <2>4, <3>1 DEF Divides
    <3>3. parent(p) \in D /\ child(p, a) \in D
      BY <2>2
    <3> QED BY <3>1, <3>2, <3>3, <2>5, <2>6
  <2>15. Covers(D, TRUE)
    <3> DEFINE these == {c \in D : c.isParent = TRUE}
    <3>1. need \subseteq UNION {c.words : c \in these}
      BY <2>14
    <3> QED BY <3>1, <2>11, <2>12 DEF Covers, need
  <2>16. Covers(D, FALSE)
    <3> DEFINE these == {c \in D : c.isParent = FALSE}
    <3>1. need \subseteq UNION {c.words : c \in these}
      BY <2>14
    <3> QED BY <3>1, <2>11, <2>13 DEF Covers, need
  <2> QED BY <2>7, <2>8, <2>15, <2>16 DEF D
<1> QED BY <1>1, <1>2

-----------------------------------------------------------------------------
(* The order of the children. *)

LEMMA RanksSound ==
  ASSUME TextKept, \A c \in chunks : ChunkGood(c), chunks # {} => Covers(chunks, FALSE)
  PROVE  /\ IsFiniteSet(Children) /\ Cardinality(Children) \in Nat
         /\ \A c \in Children : Rank(c) \in 1..Cardinality(Children) /\ Nth(Rank(c)) = c
         /\ \A n \in 1..Cardinality(Children) : Nth(n) \in Children /\ Rank(Nth(n)) = n
<1> DEFINE n == Cardinality(Children)
           first == [c \in Children |-> FirstOf(c.words)]
           before == {x \in Children \X Children : first[x[1]] < first[x[2]]}
           place == [c \in Children |-> Cardinality({d \in Children : <<d, c>> \in before})]
<1>1. ASSUME NEW c \in Children
      PROVE  /\ c \in chunks /\ c.isParent = FALSE
             /\ first[c] \in c.words /\ first[c] \in kept /\ first[c] \in Nat
             /\ \A i \in c.words : first[c] <= i
  <2>1. c \in chunks /\ c.isParent = FALSE /\ c.words \in SUBSET WordsOf(kept) /\ c.words # {}
    BY DEF Children, ChunkGood
  <2>2. FirstOf(c.words) \in c.words /\ FirstOf(c.words) \in Nat
        /\ \A i \in c.words : FirstOf(c.words) <= i
    BY <2>1, WordEnds
  <2>3. FirstOf(c.words) \in kept
    BY <2>1, <2>2, Positions
  <2> QED BY <2>1, <2>2, <2>3
<1>2. ASSUME NEW c \in Children, NEW d \in Children, c # d
      PROVE  first[c] # first[d]
  <2>1. Covers(chunks, FALSE)
    BY <1>1
  <2>2. c \in {e \in chunks : e.isParent = FALSE} /\ d \in {e \in chunks : e.isParent = FALSE}
    BY <1>1
  <2>3. EndsBefore(c.words, d.words) \/ EndsBefore(d.words, c.words)
    BY <1>2, <2>1, <2>2 DEF Covers
  <2>4. first[c] < first[d] \/ first[d] < first[c]
    <3> HIDE DEF first
    <3> QED BY <1>1, <2>3 DEF EndsBefore
  <2>5. first[c] \in Nat /\ first[d] \in Nat
    BY <1>1
  <2> QED BY <2>4, <2>5
<1>3. IsFiniteSet(Children)
  <2>1. first \in [Children -> kept]
    BY <1>1
  <2> HIDE DEF first
  <2>2. first \in Injection(Children, kept)
    BY <2>1, <1>2 DEF Injection, IsInjective
  <2>3. IsFiniteSet(kept)
    BY Positions
  <2> QED BY <2>2, <2>3, FS_Injection
<1>4. n \in Nat
  BY <1>3, FS_CardinalityType
<1>5. \A c, d \in Children : <<c, d>> \in before <=> first[c] < first[d]
  OBVIOUS
<1>6. \A c \in Children : first[c] \in Nat
  BY <1>1
<1>7. ASSUME NEW c \in Children PROVE Rank(c) = place[c] + 1 /\ Cardinality({d \in Children : <<d, c>> \in before}) = place[c]
  <2>1. {d \in Children : <<d, c>> \in before} = {d \in Children : FirstOf(d.words) < FirstOf(c.words)}
    OBVIOUS
  <2>2. place[c] = Cardinality({d \in Children : <<d, c>> \in before})
    OBVIOUS
  <2>3. Rank(c) = 1 + place[c]
    BY <2>1, <2>2 DEF Rank
  <2>4. place[c] \in Nat
    <3>1. {d \in Children : <<d, c>> \in before} \in SUBSET Children
      OBVIOUS
    <3> HIDE DEF before
    <3> QED BY <3>1, <2>2, <1>3, FS_Subset, FS_CardinalityType
  <2> QED BY <2>2, <2>3, <2>4
<1>8. /\ place \in Bijection(Children, 0..(n - 1))
      /\ \A i, j \in Children : <<i, j>> \in before <=> place[i] < place[j]
  <2>1. \A i \in Children : <<i, i>> \notin before
    BY <1>5, <1>6
  <2>2. \A i, j, k \in Children : <<i, j>> \in before /\ <<j, k>> \in before => <<i, k>> \in before
    <3> HIDE DEF before, first
    <3> QED BY <1>5, <1>6
  <2>3. \A i, j \in Children : i # j => <<i, j>> \in before \/ <<j, i>> \in before
    <3> HIDE DEF before, first
    <3> QED BY <1>2, <1>5, <1>6
  <2>4. place = [i \in Children |-> Cardinality({j \in Children : <<j, i>> \in before})]
    OBVIOUS
  <2> HIDE DEF before, place, first
  <2> QED BY <1>3, <1>4, <2>1, <2>2, <2>3, <2>4, Places
<1> HIDE DEF place, before, first
<1>9. \A c \in Children : place[c] \in 0..(n - 1)
  BY <1>8 DEF Bijection, Injection
<1>10. \A c \in Children : Rank(c) \in 1..n
  <2> SUFFICES ASSUME NEW c \in Children PROVE Rank(c) \in 1..n
    OBVIOUS
  <2>1. place[c] \in 0..(n - 1)
    BY <1>9
  <2>2. Rank(c) = place[c] + 1
    BY <1>7
  <2> HIDE DEF n
  <2> QED BY <1>4, <2>1, <2>2
<1>11. \A c, d \in Children : Rank(c) = Rank(d) => c = d
  <2> SUFFICES ASSUME NEW c \in Children, NEW d \in Children, Rank(c) = Rank(d) PROVE c = d
    OBVIOUS
  <2>1. place[c] \in Int /\ place[d] \in Int
    BY <1>9
  <2>2. place[c] + 1 = place[d] + 1
    BY <1>7
  <2>3. place[c] = place[d]
    BY <2>1, <2>2
  <2> QED BY <2>3, <1>8 DEF Bijection, Injection, IsInjective
<1>12. ASSUME NEW m \in 1..n PROVE \E c \in Children : Rank(c) = m
  <2>1. m - 1 \in 0..(n - 1)
    BY <1>4
  <2>2. PICK c \in Children : place[c] = m - 1
    BY <2>1, <1>8 DEF Bijection, Surjection
  <2>3. Rank(c) = (m - 1) + 1
    BY <1>7, <2>2
  <2> QED BY <2>3
<1>13. \A m \in 1..n : Nth(m) \in Children /\ Rank(Nth(m)) = m
  BY <1>12 DEF Nth
<1>14. \A c \in Children : Nth(Rank(c)) = c
  BY <1>10, <1>11, <1>13
<1> QED BY <1>3, <1>4, <1>10, <1>13, <1>14
-----------------------------------------------------------------------------
(* Sanitizing. *)

TextRead ==
    /\ read \in Seq(Int)
    /\ Between(DOMAIN read, WordsOf(DOMAIN read))

LEMMA CollapsedSound ==
  ASSUME TextRead, NEW V \in SUBSET DOMAIN read, Between(V, WordsOf(V))
  PROVE  /\ CollapseBlankRuns(V) \in SUBSET V
         /\ WordsOf(CollapseBlankRuns(V)) = WordsOf(V)
         /\ Between(CollapseBlankRuns(V), WordsOf(CollapseBlankRuns(V)))
<1> DEFINE W == WordsOf(V)
           surplus == {i \in V : /\ read[i] = Break /\ Cardinality(TwoBefore(V, i)) = 2
                                 /\ \A j \in TwoBefore(V, i) : read[j] = Break}
           K == CollapseBlankRuns(V)
<1>1. /\ \A i \in V : i \in W <=> IsWord(read[i])
      /\ W \in SUBSET V
  BY DEF WordsOf
<1>2. DOMAIN read = 1..Len(read) /\ Len(read) \in Nat
  BY DEF TextRead
<1>3. V \in SUBSET Nat
  BY <1>2
<1>4. \A i : i \in K <=> i \in V \ surplus /\ (\E w \in W : w <= i) /\ (\E w \in W : i <= w)
  BY DEF CollapseBlankRuns
<1>a. \A i \in W : i \notin surplus
  BY <1>1 DEF IsWord
<1> HIDE DEF K, surplus
<1>5. WordsOf(K) = W /\ \A i \in K : i \in WordsOf(K) <=> IsWord(read[i])
  <2>1. \A i \in W : i \in Nat /\ i <= i
    BY <1>1, <1>3
  <2>2. \A i \in W : i \in K /\ IsWord(read[i])
    BY <1>1, <1>4, <1>a, <2>1
  <2>3. \A i \in K : i \in V
    BY <1>4
  <2>4. WordsOf(K) = {i \in K : IsWord(read[i])}
    BY DEF WordsOf
  <2> HIDE DEF W
  <2> QED BY <1>1, <2>2, <2>3, <2>4
<1>6. ASSUME NEW i \in W, NEW j \in W, i < j
      PROVE  \E k \in V \ W : i < k /\ k < j
  BY <1>6 DEF Between
<1> HIDE DEF W
<1>7. ASSUME NEW i \in WordsOf(K), NEW j \in WordsOf(K), i < j
      PROVE  \E k \in K \ WordsOf(K) : i < k /\ k < j
  <2> DEFINE after == {k \in V : i < k}
             k == FirstOf(after)
  <2>1. i \in W /\ j \in W /\ i \in V /\ j \in V /\ i \in Nat /\ j \in Nat
    BY <1>1, <1>3, <1>5
  <2>2. after \in SUBSET Nat /\ j \in after
    BY <1>3, <1>7, <2>1
  <2>3. k \in after /\ \A m \in after : k <= m
    <3> HIDE DEF after
    <3> QED BY <2>2, FirstIs
  <2> HIDE DEF k
  <2>4. k \in V /\ i < k /\ k \in Nat /\ k <= j
    BY <1>3, <2>2, <2>3
  <2>5. k \notin W
    <3> SUFFICES ASSUME k \in W PROVE FALSE
      OBVIOUS
    <3>1. PICK m \in V \ W : i < m /\ m < k
      BY <1>6, <2>1, <2>4
    <3>2. k <= m /\ m \in Nat
      BY <2>3, <3>1, <1>3
    <3> QED BY <3>1, <3>2, <2>4
  <2>6. k < j
    <3>1. k # j
      BY <2>1, <2>5
    <3> QED BY <2>1, <2>4, <3>1
  <2>7. i \in TwoBefore(V, k)
    <3> DEFINE from == {m \in V : i <= m /\ m < k}
    <3>1. from = {i}
      <4>1. \A m \in from : m = i
        <5> SUFFICES ASSUME NEW m \in V, i <= m, m < k PROVE m = i
          OBVIOUS
        <5>1. m \in Nat
          BY <1>3
        <5>2. ~(i < m)
          <6> SUFFICES ASSUME i < m PROVE FALSE
            OBVIOUS
          <6>1. k <= m
            BY <2>3
          <6> QED BY <5>1, <6>1, <2>4
        <5> QED BY <5>1, <5>2, <2>1
      <4>2. i \in from
        BY <2>1, <2>4
      <4> HIDE DEF from
      <4> QED BY <4>1, <4>2
    <3>2. Cardinality(from) = 1
      <4> HIDE DEF from
      <4> QED BY <3>1, FS_Singleton
    <3> QED BY <2>1, <2>4, <3>2 DEF TwoBefore
  <2>8. read[i] # Break
    BY <1>1, <2>1 DEF IsWord
  <2>9. k \notin surplus
    BY <2>7, <2>8 DEF surplus
  <2>10. k \in K
    <3>1. i <= k /\ k <= j
      BY <2>1, <2>4
    <3> QED BY <1>4, <2>1, <2>4, <2>9, <3>1
  <2>11. k \notin WordsOf(K)
    BY <1>5, <2>5
  <2> QED BY <2>4, <2>6, <2>10, <2>11
<1>8. Between(K, WordsOf(K))
  BY <1>7 DEF Between
<1>9. K \in SUBSET V
  BY <1>4
<1> QED BY <1>5, <1>8, <1>9 DEF K, W

-----------------------------------------------------------------------------
(* Taking the hidden texts out, one after the other. *)

HiddenText(k) == Strip(resume.spans[k].text)

Hiding == {k \in DOMAIN resume.spans : HidesText(resume.spans[k]) /\ HiddenText(k) # <<>>}

\* What has become of the place of t at i in the text S: a word of it is gone,
\* every word of it is, or nothing of it is.
Lost(S, t, i) == \E j \in PlaceWords(t, i) : j \notin S
Gone(S, t, i) == PlaceWords(t, i) \cap S = {}
Whole(S, t, i) == \A n \in DOMAIN t : i + n - 1 \in S

\* A place is whole or has lost a word, never only a space; those of the spans
\* before the next one have lost a word; and where the text is alone, a place that
\* is not whole is gone.
Undone(S, next, k, i) ==
    /\ Lost(S, HiddenText(k), i) \/ Whole(S, HiddenText(k), i)
    /\ k < next => Lost(S, HiddenText(k), i)
    /\ Alone(HiddenText(k)) => Gone(S, HiddenText(k), i) \/ Whole(S, HiddenText(k), i)

Clean(S, next) ==
    /\ \A i \in WordsOf(DOMAIN read) : i \in S \/ \E t \in HiddenTexts : read[i] \in Words(t)
    /\ \A k \in Hiding, i \in DOMAIN read :
          OccursAt(HiddenText(k), i) => Undone(S, next, k, i)

LEMMA StripSound ==
  ASSUME NEW t \in Seq(Int), Strip(t) # <<>>
  PROVE  /\ Strip(t) \in Seq(Int) /\ Len(Strip(t)) \in Nat /\ Len(Strip(t)) >= 1
         /\ DOMAIN Strip(t) = 1..Len(Strip(t)) /\ IsWord(Strip(t)[1])
<1> DEFINE filled == {i \in DOMAIN t : IsWord(t[i])}
           a == FirstOf(filled)
           b == LastOf(filled)
<1>1. DOMAIN t = 1..Len(t) /\ Len(t) \in Nat
  OBVIOUS
<1>2. filled # {} /\ Strip(t) = SubSeq(t, a, b)
  BY DEF Strip
<1>3. filled \in SUBSET Nat /\ filled \in SUBSET (0..Len(t))
  BY <1>1
<1>4. a \in filled /\ b \in filled /\ a <= b
  <2> HIDE DEF filled
  <2>1. a \in filled /\ \A i \in filled : a <= i
    BY <1>2, <1>3, FirstIs
  <2>2. b \in filled
    BY <1>1, <1>2, <1>3, LastIs
  <2> QED BY <2>1, <2>2
<1>5. a \in 1..Len(t) /\ b \in 1..Len(t) /\ IsWord(t[a])
  BY <1>1, <1>4
<1> HIDE DEF a, b, filled
<1> DEFINE cut == SubSeq(t, a, b)
<1>6. /\ cut \in Seq(Int) /\ Len(cut) = b - a + 1 /\ cut[1] = t[a]
  BY <1>1, <1>4, <1>5
<1>7. Len(cut) \in Nat /\ Len(cut) >= 1 /\ DOMAIN cut = 1..Len(cut)
  BY <1>4, <1>5, <1>6
<1> HIDE DEF cut
<1> QED BY <1>2, <1>5, <1>6, <1>7 DEF cut

\* A stretch that reads t begins at i with the first token of t, has only tokens of
\* t in it, and leaves nothing out between i and its last token.
LEMMA StretchSound ==
  ASSUME NEW V \in SUBSET Nat, IsFiniteSet(V), NEW t \in Seq(Int), t # <<>>, NEW i \in Found(V, t)
  PROVE  /\ i \in V /\ i \in Stretch(V, i, Len(t)) /\ Stretch(V, i, Len(t)) \in SUBSET V
         /\ \A j \in Stretch(V, i, Len(t)) : i <= j
         /\ \A j \in V, l \in Stretch(V, i, Len(t)) :
               i <= j /\ j <= l => j \in Stretch(V, i, Len(t))
         /\ read[i] = t[1]
         /\ \A j \in Stretch(V, i, Len(t)) :
               \E n \in DOMAIN t : read[j] = t[n] /\ (j # i => n # 1)
<1> DEFINE here == Stretch(V, i, Len(t))
           before(j) == {m \in V : i <= m /\ m < j}
           upto(j) == {m \in here : m <= j}
<1>1. Len(t) \in Nat /\ Len(t) >= 1 /\ DOMAIN t = 1..Len(t) /\ i \in V /\ i \in Nat
  <2>1. Len(t) \in Nat /\ DOMAIN t = 1..Len(t) /\ Len(t) # 0
    OBVIOUS
  <2>2. i \in V
    BY DEF Found
  <2> QED BY <2>1, <2>2
<1>2. \A j : j \in here <=> j \in V /\ i <= j /\ Cardinality(before(j)) < Len(t)
  BY DEF Stretch
<1>3. Cardinality(here) = Len(t) /\ \A j \in here : read[j] = t[Cardinality(upto(j))]
  BY DEF Found
<1> HIDE DEF here
<1>4. here \in SUBSET V /\ IsFiniteSet(here)
  BY <1>2, FS_Subset
<1>5. i \in here
  <2>1. before(i) = {}
    <3>1. \A m \in V : m \in Nat /\ ~(i <= m /\ m < i)
      BY <1>1
    <3> QED BY <3>1
  <2>2. Cardinality(before(i)) = 0
    <3> HIDE DEF before
    <3> QED BY <2>1, FS_EmptySet
  <2> HIDE DEF before
  <2> QED BY <1>1, <1>2, <2>2
<1>6. ASSUME NEW j \in V, NEW l \in here, i <= j, j <= l PROVE j \in here
  <2>1. l \in V /\ l \in Nat /\ j \in Nat /\ Cardinality(before(l)) < Len(t)
    BY <1>2
  <2>2. before(j) \in SUBSET before(l) /\ before(l) \in SUBSET V
    <3>1. \A m \in V : m < j => m < l
      BY <1>6, <2>1
    <3> QED BY <3>1
  <2> HIDE DEF before
  <2>3. /\ IsFiniteSet(before(l)) /\ Cardinality(before(l)) \in Nat
        /\ Cardinality(before(j)) \in Nat /\ Cardinality(before(j)) <= Cardinality(before(l))
    BY <2>2, FS_Subset, FS_CardinalityType
  <2>4. Cardinality(before(j)) < Len(t)
    BY <1>1, <2>1, <2>3
  <2> QED BY <1>2, <1>6, <2>4
<1>7. ASSUME NEW j \in here
      PROVE  Cardinality(upto(j)) \in DOMAIN t /\ (j # i => Cardinality(upto(j)) # 1)
  <2>1. j \in Nat /\ i <= j
    BY <1>2
  <2>2. upto(j) \in SUBSET here /\ i \in upto(j) /\ j \in upto(j)
    BY <1>5, <2>1
  <2> HIDE DEF upto
  <2>3. /\ IsFiniteSet(upto(j)) /\ Cardinality(upto(j)) \in Nat
        /\ Cardinality(upto(j)) <= Len(t)
    BY <1>3, <1>4, <2>2, FS_Subset, FS_CardinalityType
  <2>4. Cardinality(upto(j)) # 0
    BY <2>2, <2>3, FS_EmptySet
  <2>5. j # i => Cardinality(upto(j)) # 1
    <3> SUFFICES ASSUME j # i, Cardinality(upto(j)) = 1 PROVE FALSE
      OBVIOUS
    <3>1. PICK x : upto(j) = {x}
      BY <2>3, FS_Singleton
    <3> QED BY <2>2, <3>1
  <2> QED BY <1>1, <2>3, <2>4, <2>5
<1>8. read[i] = t[1]
  <2>1. upto(i) = {i}
    <3>1. \A m \in here : m <= i <=> m = i
      <4>1. \A m \in here : m \in V /\ i <= m
        BY <1>2
      <4>2. \A m \in here : m \in Nat /\ i <= m
        BY <4>1
      <4> QED BY <1>1, <4>2
    <3>2. \A m : m \in upto(i) <=> m = i
      BY <1>5, <3>1
    <3> HIDE DEF upto
    <3> QED BY <3>2
  <2>2. Cardinality(upto(i)) = 1
    <3> HIDE DEF upto
    <3> QED BY <2>1, FS_Singleton
  <2> HIDE DEF upto
  <2> QED BY <1>3, <1>5, <2>2
<1>9. \A j \in here : \E n \in DOMAIN t : read[j] = t[n] /\ (j # i => n # 1)
  <2> HIDE DEF upto
  <2> QED BY <1>3, <1>7
<1>10. \A j \in here : i <= j
  BY <1>2
<1> HIDE DEF before, upto
<1> QED BY <1>1, <1>4, <1>5, <1>6, <1>8, <1>9, <1>10 DEF here

\* A place that is whole is found, and the stretch there is the place.
LEMMA WholeFound ==
  ASSUME NEW V \in SUBSET Nat, IsFiniteSet(V), NEW t \in Seq(Int), t # <<>>, NEW i \in Nat,
         \A n \in DOMAIN t : i + n - 1 \in V /\ read[i + n - 1] = t[n]
  PROVE  /\ i \in Found(V, t)
         /\ Stretch(V, i, Len(t)) = i..(i + Len(t) - 1)
<1> DEFINE len == Len(t)
           here == Stretch(V, i, Len(t))
           before(j) == {m \in V : i <= m /\ m < j}
           upto(j) == {m \in here : m <= j}
<1>1. len \in Nat /\ len >= 1 /\ DOMAIN t = 1..len
  <2>1. Len(t) \in Nat /\ DOMAIN t = 1..Len(t) /\ Len(t) # 0
    OBVIOUS
  <2> QED BY <2>1
<1>2. \A j : j \in here <=> j \in V /\ i <= j /\ Cardinality(before(j)) < len
  BY DEF Stretch
<1> HIDE DEF here, len
<1>3. \A j \in i..(i + len - 1) : j \in V /\ j - i + 1 \in DOMAIN t /\ read[j] = t[j - i + 1]
  <2> SUFFICES ASSUME NEW j \in i..(i + len - 1)
               PROVE  j \in V /\ j - i + 1 \in DOMAIN t /\ read[j] = t[j - i + 1]
    OBVIOUS
  <2>1. j - i + 1 \in 1..len /\ i + (j - i + 1) - 1 = j
    BY <1>1
  <2>2. i + (j - i + 1) - 1 \in V /\ read[i + (j - i + 1) - 1] = t[j - i + 1]
    BY <1>1, <2>1
  <2> QED BY <1>1, <2>1, <2>2
<1>4. \A a, b \in Int : a <= b + 1 => IsFiniteSet(a..b) /\ Cardinality(a..b) = b - a + 1
  <2> SUFFICES ASSUME NEW a \in Int, NEW b \in Int, a <= b + 1
               PROVE  IsFiniteSet(a..b) /\ Cardinality(a..b) = b - a + 1
    OBVIOUS
  <2>1. IsFiniteSet(a..b) /\ Cardinality(a..b) = IF a > b THEN 0 ELSE b - a + 1
    BY FS_Interval
  <2> QED BY <2>1
<1>5. ASSUME NEW j \in i..(i + len - 1) PROVE j \in here
  <2>1. before(j) = i..(j - 1)
    <3>1. \A m : m \in before(j) <=> m \in i..(j - 1)
      <4>1. \A m \in i..(j - 1) : m \in i..(i + len - 1) /\ m < j /\ i <= m
        BY <1>1
      <4>2. \A m \in before(j) : m \in Nat /\ i <= m /\ m < j
        OBVIOUS
      <4>3. \A m \in Nat : i <= m /\ m < j => m \in i..(j - 1)
        BY <1>1
      <4>4. \A m \in i..(j - 1) : m \in before(j)
        BY <1>3, <4>1
      <4> HIDE DEF before
      <4> QED BY <4>2, <4>3, <4>4
    <3> HIDE DEF before
    <3> QED BY <3>1
  <2>2. Cardinality(i..(j - 1)) = j - i
    BY <1>1, <1>4
  <2> HIDE DEF before
  <2> QED BY <1>1, <1>2, <1>3, <2>1, <2>2
<1>6. ASSUME NEW j \in here PROVE j \in i..(i + len - 1)
  <2>1. j \in V /\ j \in Nat /\ i <= j /\ Cardinality(before(j)) < len
    BY <1>2
  <2> SUFFICES ASSUME j >= i + len PROVE FALSE
    BY <1>1, <2>1
  <2>2. i..(i + len - 1) \in SUBSET before(j) /\ before(j) \in SUBSET V
    <3>1. \A m \in i..(i + len - 1) : m \in V /\ i <= m /\ m < j
      BY <1>1, <1>3, <2>1
    <3> QED BY <3>1
  <2>3. Cardinality(i..(i + len - 1)) = len
    BY <1>1, <1>4
  <2> HIDE DEF before
  <2>4. IsFiniteSet(before(j)) /\ Cardinality(before(j)) \in Nat
    BY <2>2, FS_Subset, FS_CardinalityType
  <2>5. Cardinality(i..(i + len - 1)) <= Cardinality(before(j))
    BY <2>2, <2>4, FS_Subset
  <2> QED BY <1>1, <2>1, <2>3, <2>4, <2>5
<1>7. here = i..(i + len - 1)
  BY <1>5, <1>6
<1>8. Cardinality(here) = len
  <2>1. Cardinality(i..(i + len - 1)) = len
    BY <1>1, <1>4
  <2> QED BY <1>7, <2>1
<1>9. ASSUME NEW j \in here PROVE read[j] = t[Cardinality(upto(j))]
  <2>1. upto(j) = i..j
    BY <1>1, <1>7
  <2>2. Cardinality(i..j) = j - i + 1
    BY <1>1, <1>4, <1>7
  <2> HIDE DEF upto
  <2> QED BY <1>3, <1>7, <2>1, <2>2
<1>10. i \in V
  <2>1. i \in i..(i + len - 1)
    BY <1>1
  <2> QED BY <1>3, <2>1
<1>11. i \in Found(V, t)
  BY <1>8, <1>9, <1>10 DEF Found, here, len
<1> QED BY <1>7, <1>11 DEF here, len

LEMMA HiddenSound ==
  ASSUME resume \in Resumes, resume.media = "pdf"
  PROVE  /\ StyledSpans(resume) = resume.spans /\ HiddenSpans(resume) = Hiding
         /\ DOMAIN resume.spans = 1..Len(resume.spans) /\ Len(resume.spans) \in Nat
         /\ HiddenTexts = {HiddenText(k) : k \in Hiding}
         /\ \A t \in HiddenTexts : /\ t \in Seq(Int) /\ t # <<>> /\ Len(t) \in Nat /\ Len(t) >= 1
                                   /\ DOMAIN t = 1..Len(t) /\ IsWord(t[1])
<1>1. StyledSpans(resume) = resume.spans
  BY DEF StyledSpans
<1> DEFINE styled == [text : Seq(Int), tiny : BOOLEAN, away : BOOLEAN, pale : BOOLEAN]
<1>2. resume.spans \in Seq(styled)
  BY TextAssumption
<1>3. /\ DOMAIN resume.spans = 1..Len(resume.spans) /\ Len(resume.spans) \in Nat
      /\ \A k \in DOMAIN resume.spans : resume.spans[k] \in styled
  <2> HIDE DEF styled
  <2> QED BY <1>2
<1>4. \A k \in DOMAIN resume.spans : resume.spans[k].text \in Seq(Int)
  BY <1>3
<1>5. HiddenSpans(resume) = Hiding
  <2>1. \A k : ClassifySpan(resume.spans[k]) # "visible" <=> HidesText(resume.spans[k])
    BY DEF ClassifySpan, HidesText
  <2> QED BY <1>1, <2>1 DEF HiddenSpans, Hiding, HiddenText
<1>6. HiddenTexts = {HiddenText(k) : k \in Hiding}
  BY DEF HiddenTexts, Hiding, HiddenText
<1>7. ASSUME NEW t \in HiddenTexts
      PROVE  /\ t \in Seq(Int) /\ t # <<>> /\ Len(t) \in Nat /\ Len(t) >= 1
             /\ DOMAIN t = 1..Len(t) /\ IsWord(t[1])
  <2>1. PICK k \in Hiding : t = HiddenText(k)
    BY <1>6
  <2>2. resume.spans[k].text \in Seq(Int) /\ Strip(resume.spans[k].text) # <<>>
    BY <1>4 DEF Hiding, HiddenText
  <2> QED BY <2>1, <2>2, StripSound DEF HiddenText
<1> QED BY <1>1, <1>3, <1>5, <1>6, <1>7

LEMMA LostIsNotWhole ==
  ASSUME TextRead, resume \in Resumes, resume.media = "pdf",
         NEW S, NEW t \in HiddenTexts, NEW i \in DOMAIN read, Lost(S, t, i)
  PROVE  ~Whole(S, t, i)
<1> SUFFICES ASSUME Whole(S, t, i) PROVE FALSE
  OBVIOUS
<1>1. PICK j \in PlaceWords(t, i) : j \notin S
  BY DEF Lost
<1>2. Len(t) \in Nat /\ DOMAIN t = 1..Len(t)
  BY HiddenSound
<1>3. j \in Nat /\ i \in Nat /\ i <= j /\ j < i + Len(t)
  <2>1. DOMAIN read = 1..Len(read) /\ Len(read) \in Nat
    BY DEF TextRead
  <2> QED BY <1>1, <2>1 DEF PlaceWords, WordsOf
<1>4. j - i + 1 \in DOMAIN t /\ i + (j - i + 1) - 1 = j
  BY <1>2, <1>3
<1>5. i + (j - i + 1) - 1 \in S
  BY <1>4 DEF Whole
<1> QED BY <1>1, <1>4, <1>5

\* One span's turn: the text K that S becomes.
Replaced(S, t, taken, K) ==
    /\ taken \subseteq Found(S, t)
    /\ \A i \in Found(S, t) :
          i \in taken <=> ~ \E j \in taken : j < i /\ i \in Stretch(S, j, Len(t))
    /\ K = S \ UNION {Stretch(S, j, Len(t)) : j \in taken}

LEMMA RemovedSound ==
  ASSUME TextRead, resume \in Resumes, resume.media = "pdf",
         NEW S, S \subseteq DOMAIN read, Between(S, WordsOf(S)),
         NEW next, next \in Hiding, Clean(S, next),
         NEW taken, NEW K, Replaced(S, HiddenText(next), taken, K)
  PROVE  /\ K \in SUBSET S /\ Between(K, WordsOf(K)) /\ Clean(K, next + 1)
<1> DEFINE t == HiddenText(next)
           J(j) == Stretch(S, j, Len(t))
<1>1. /\ t \in HiddenTexts /\ t \in Seq(Int) /\ t # <<>> /\ Len(t) \in Nat /\ Len(t) >= 1
      /\ DOMAIN t = 1..Len(t) /\ IsWord(t[1])
  BY HiddenSound
<1>2. S \in SUBSET Nat /\ IsFiniteSet(S) /\ DOMAIN read = 1..Len(read) /\ Len(read) \in Nat
  <2>1. DOMAIN read = 1..Len(read) /\ Len(read) \in Nat
    BY DEF TextRead
  <2>2. IsFiniteSet(1..Len(read))
    BY <2>1, FS_Interval
  <2> QED BY <2>1, <2>2, FS_Subset
<1>3. ASSUME NEW j \in taken
      PROVE  /\ j \in S /\ j \in Nat /\ j \in J(j) /\ J(j) \in SUBSET S
             /\ \A x \in J(j) : j <= x
             /\ \A x \in S, l \in J(j) : j <= x /\ x <= l => x \in J(j)
             /\ IsWord(read[j])
             /\ \A x \in J(j) : \E n \in DOMAIN t : read[x] = t[n] /\ (x # j => n # 1)
  <2>1. j \in Found(S, t)
    BY DEF Replaced
  <2> HIDE DEF t
  <2>2. /\ j \in S /\ j \in Stretch(S, j, Len(t)) /\ Stretch(S, j, Len(t)) \in SUBSET S
        /\ \A x \in Stretch(S, j, Len(t)) : j <= x
        /\ \A x \in S, l \in Stretch(S, j, Len(t)) :
              j <= x /\ x <= l => x \in Stretch(S, j, Len(t))
        /\ read[j] = t[1]
        /\ \A x \in Stretch(S, j, Len(t)) :
              \E n \in DOMAIN t : read[x] = t[n] /\ (x # j => n # 1)
    BY <1>1, <1>2, <2>1, StretchSound
  <2> QED BY <1>1, <1>2, <2>2
<1>4. /\ \A x : x \in K <=> x \in S /\ \A j \in taken : x \notin J(j)
      /\ \A i \in Found(S, t) : i \in taken <=> ~ \E j \in taken : j < i /\ i \in J(j)
  BY DEF Replaced
<1> HIDE DEF J, t
<1>5. K \in SUBSET S
  BY <1>4
<1>6. \A x \in S \ K : IsWord(read[x]) => read[x] \in Words(t)
  BY <1>3, <1>4 DEF Words
<1>7. Between(K, WordsOf(K))
  <2> SUFFICES ASSUME NEW a \in WordsOf(K), NEW b \in WordsOf(K), a < b
               PROVE  \E m \in K \ WordsOf(K) : a < m /\ m < b
    BY DEF Between
  <2>1. /\ a \in K /\ b \in K /\ a \in WordsOf(S) /\ b \in WordsOf(S)
        /\ a \in Nat /\ b \in Nat
    BY <1>2, <1>5 DEF WordsOf
  <2> DEFINE after == {m \in S \ WordsOf(S) : a < m}
             m == FirstOf(after)
  <2>2. PICK c \in after : c < b
    BY <2>1 DEF Between
  <2>3. m \in after /\ \A x \in after : m <= x
    <3>1. after \in SUBSET Nat /\ after # {}
      BY <1>2, <2>2
    <3> HIDE DEF after
    <3> QED BY <3>1, FirstIs
  <2> HIDE DEF m
  <2>4. m \in S /\ m \in Nat /\ a < m /\ m < b /\ ~IsWord(read[m])
    <3>1. m \in S /\ a < m /\ m <= c /\ ~IsWord(read[m])
      BY <2>2, <2>3 DEF WordsOf
    <3>2. m \in Nat /\ c \in Nat
      BY <1>2, <2>2, <3>1
    <3> QED BY <2>1, <2>2, <3>1, <3>2
  <2>5. ASSUME NEW j \in taken, m \in J(j) PROVE FALSE
    <3>1. j \in WordsOf(S) /\ j <= m /\ j \in Nat
      BY <1>3, <2>5 DEF WordsOf
    <3>2. ~(j <= a)
      <4> SUFFICES ASSUME j <= a PROVE FALSE
        OBVIOUS
      <4>1. a \in S /\ a <= m
        BY <2>1, <2>4, <1>5
      <4>2. a \in J(j)
        BY <1>3, <2>5, <4>1
      <4> QED BY <1>4, <2>1, <4>2
    <3>3. PICK x \in S \ WordsOf(S) : a < x /\ x < j
      BY <2>1, <3>1, <3>2 DEF Between
    <3>4. m <= x /\ x \in Nat
      BY <1>2, <2>3, <3>3
    <3> QED BY <2>4, <3>1, <3>3, <3>4
  <2>6. m \in K /\ m \notin WordsOf(K)
    BY <1>4, <2>4, <2>5 DEF WordsOf
  <2> QED BY <2>4, <2>6
<1>8. ASSUME NEW i \in WordsOf(DOMAIN read)
      PROVE  i \in K \/ \E u \in HiddenTexts : read[i] \in Words(u)
  <2>1. i \in S \/ \E u \in HiddenTexts : read[i] \in Words(u)
    BY DEF Clean
  <2>2. IsWord(read[i])
    BY DEF WordsOf
  <2> QED BY <1>1, <1>6, <2>1, <2>2
<1>9. ASSUME NEW k \in Hiding, NEW i \in DOMAIN read, OccursAt(HiddenText(k), i)
      PROVE  Undone(K, next + 1, k, i)
  <2> DEFINE u == HiddenText(k)
             P == PlaceWords(u, i)
  <2>1. /\ u \in HiddenTexts /\ u \in Seq(Int) /\ u # <<>> /\ Len(u) \in Nat /\ Len(u) >= 1
        /\ DOMAIN u = 1..Len(u) /\ IsWord(u[1]) /\ i \in Nat
    BY <1>2, HiddenSound
  <2>2. /\ \A n \in DOMAIN u : i + n - 1 \in DOMAIN read /\ read[i + n - 1] = u[n]
        /\ Undone(S, next, k, i)
    BY <1>9 DEF OccursAt, Clean
  <2> HIDE DEF u
  <2>3. \A x : x \in P <=> x \in DOMAIN read /\ IsWord(read[x]) /\ i <= x /\ x < i + Len(u)
    BY DEF PlaceWords, WordsOf
  <2> HIDE DEF P
  <2>4. read[i] = u[1] /\ i \in P /\ u[1] \in Words(u)
    <3>1. 1 \in DOMAIN u /\ i + 1 - 1 = i
      BY <2>1
    <3>2. read[i] = u[1]
      BY <2>2, <3>1
    <3>3. i <= i /\ i < i + Len(u)
      BY <2>1
    <3> QED BY <2>1, <2>3, <3>1, <3>2, <3>3 DEF Words
  <2>5. \A x \in P : read[x] \in Words(u)
    <3> SUFFICES ASSUME NEW x \in P PROVE read[x] \in Words(u)
      OBVIOUS
    <3>1. x \in DOMAIN read /\ IsWord(read[x]) /\ i <= x /\ x < i + Len(u) /\ x \in Nat
      BY <1>2, <2>3
    <3>2. x - i + 1 \in DOMAIN u /\ i + (x - i + 1) - 1 = x
      BY <2>1, <3>1
    <3>3. read[i + (x - i + 1) - 1] = u[x - i + 1]
      BY <2>2, <3>2
    <3> QED BY <3>1, <3>2, <3>3 DEF Words
  <2>6. Lost(S, u, i) => Lost(K, u, i)
    BY <1>5 DEF Lost
  <2>7. Gone(S, u, i) => Gone(K, u, i)
    BY <1>5 DEF Gone
  \* A replacement that touches a whole place takes a word of it.
  <2>8. ASSUME Whole(S, u, i), ~Whole(K, u, i)
        PROVE  \E x \in P : x \notin K /\ \E j \in taken : x \in J(j)
    <3>1. PICK n \in DOMAIN u : i + n - 1 \notin K
      BY <2>8 DEF Whole
    <3> DEFINE x == i + n - 1
    <3>2. x \in S /\ x \in Nat /\ i <= x /\ x < i + Len(u) /\ i \in S
      <4>1. x \in S
        BY <2>8 DEF Whole
      <4>2. i + 1 - 1 \in S
        <5>1. 1 \in DOMAIN u
          BY <2>1
        <5> QED BY <2>8, <5>1 DEF Whole
      <4>3. i + 1 - 1 = i
        BY <2>1
      <4> QED BY <2>1, <4>1, <4>2, <4>3
    <3>3. PICK j \in taken : x \in J(j)
      BY <1>4, <3>1, <3>2
    <3> HIDE DEF x
    <3>4. j \in S /\ j \in Nat /\ j \in J(j) /\ j <= x /\ IsWord(read[j])
      BY <1>3, <3>3
    <3>5. CASE i <= j
      <4>1. j < i + Len(u)
        BY <2>1, <3>2, <3>4
      <4>2. j \in P
        BY <2>3, <3>4, <3>5, <4>1
      <4> QED BY <1>4, <3>4, <4>2
    <3>6. CASE j < i
      <4>1. j <= i
        BY <2>1, <3>4, <3>6
      <4>2. i \in J(j)
        BY <1>3, <3>2, <3>3, <4>1
      <4> QED BY <1>4, <2>4, <4>2
    <3> QED BY <2>1, <3>4, <3>5, <3>6
  <2>9. Lost(K, u, i) \/ Whole(K, u, i)
    <3>1. Lost(S, u, i) \/ Whole(S, u, i)
      BY <2>2 DEF Undone, u
    <3>2. ASSUME Whole(S, u, i), ~Whole(K, u, i) PROVE Lost(K, u, i)
      BY <2>8, <3>2 DEF Lost, P
    <3> QED BY <2>6, <3>1, <3>2
  \* A whole place of the text that is taken out is found.
  <2>10. ASSUME u = t, Whole(S, u, i)
         PROVE  /\ i \in Found(S, t) /\ J(i) = i..(i + Len(t) - 1)
                /\ i \in taken \/ \E j \in taken : j < i /\ i \in J(j)
    <3>1. \A n \in DOMAIN t : i + n - 1 \in S /\ read[i + n - 1] = t[n]
      BY <2>2, <2>10 DEF Whole
    <3>2. i \in Found(S, t) /\ J(i) = i..(i + Len(t) - 1)
      BY <1>1, <1>2, <2>1, <3>1, WholeFound DEF J
    <3> QED BY <1>4, <3>2
  <2>11. ASSUME k < next + 1 PROVE Lost(K, u, i)
    <3>1. k < next \/ k = next
      <4>1. k \in Nat /\ next \in Nat
        BY HiddenSound DEF Hiding
      <4> QED BY <2>11, <4>1
    <3>2. CASE k < next
      BY <2>2, <2>6, <3>2 DEF Undone, u
    <3>3. CASE k = next
      <4>1. u = t
        BY <3>3 DEF u, t
      <4>2. ASSUME Whole(S, u, i) PROVE i \notin K
        <5>1. \E j \in taken : i \in J(j)
          BY <1>3, <2>10, <4>1, <4>2
        <5> QED BY <1>4, <5>1
      <4>3. ASSUME Whole(S, u, i) PROVE Lost(K, u, i)
        BY <2>4, <4>2, <4>3 DEF Lost, P
      <4>4. Lost(S, u, i) \/ Whole(S, u, i)
        BY <2>2 DEF Undone, u
      <4> QED BY <2>6, <4>3, <4>4
    <3> QED BY <3>1, <3>2, <3>3
  <2>12. ASSUME Alone(u), Whole(S, u, i) PROVE Gone(K, u, i) \/ Whole(K, u, i)
    <3>1. CASE u = t
      <4>1. ~ \E j \in taken : j < i /\ i \in J(j)
        <5> SUFFICES ASSUME NEW j \in taken, j < i, i \in J(j) PROVE FALSE
          OBVIOUS
        <5>1. i # j
          BY <1>3, <2>1
        <5>2. PICK n \in DOMAIN t : read[i] = t[n] /\ n # 1
          BY <1>3, <5>1
        <5>3. 1 \in DOMAIN t /\ t[n] = t[1] /\ IsWord(t[n])
          BY <1>1, <2>4, <3>1, <5>2
        <5> QED BY <2>12, <3>1, <5>2, <5>3 DEF Alone
      <4>2. i \in taken /\ J(i) = i..(i + Len(t) - 1)
        BY <2>10, <2>12, <3>1, <4>1
      <4>3. \A x \in P : x \in J(i)
        <5> SUFFICES ASSUME NEW x \in P PROVE x \in J(i)
          OBVIOUS
        <5>1. x \in Nat /\ i <= x /\ x < i + Len(t)
          BY <1>2, <2>3, <3>1
        <5> QED BY <1>1, <2>1, <4>2, <5>1
      <4>4. \A x \in P : x \notin K
        BY <1>4, <4>2, <4>3
      <4> QED BY <4>4 DEF Gone, P
    <3>2. CASE u # t
      <4>1. Words(t) \cap Words(u) = {}
        BY <1>1, <2>12, <3>2 DEF Alone
      <4>2. \A x \in P : ~(x \in S /\ x \notin K)
        <5> SUFFICES ASSUME NEW x \in P, x \in S, x \notin K PROVE FALSE
          OBVIOUS
        <5>1. IsWord(read[x]) /\ read[x] \in Words(u)
          BY <2>3, <2>5
        <5> QED BY <1>6, <4>1, <5>1
      <4>3. \A j \in taken : J(j) \in SUBSET S
        BY <1>3
      <4> QED BY <2>8, <2>12, <4>2, <4>3
    <3> QED BY <3>1, <3>2
  <2>13. Alone(u) => Gone(K, u, i) \/ Whole(K, u, i)
    BY <2>2, <2>7, <2>12 DEF Undone, u
  <2> QED BY <2>9, <2>11, <2>13 DEF Undone, u
<1> QED BY <1>5, <1>7, <1>8, <1>9 DEF Clean

-----------------------------------------------------------------------------
(* Reading: the pages one after the other. *)

LEMMA CharsSum ==
  ASSUME NEW pages \in Seq(Seq(Int))
  PROVE  /\ \A p \in 1..(Len(pages) + 1) : CharsBefore(pages, p) \in Nat
         /\ \A p \in 1..Len(pages) : CharsBefore(pages, p + 1) = CharsBefore(pages, p) + Len(pages[p])
         /\ \A p, q \in 1..(Len(pages) + 1) : p <= q => CharsBefore(pages, p) <= CharsBefore(pages, q)
<1> DEFINE n == Len(pages)
           page(q) == {q} \X DOMAIN pages[q]
           B(p) == UNION {page(q) : q \in 1..(p - 1)}
<1>1. n \in Nat /\ DOMAIN pages = 1..n
  OBVIOUS
<1>2. ASSUME NEW q \in 1..n
      PROVE  /\ Len(pages[q]) \in Nat /\ IsFiniteSet(page(q)) /\ Cardinality(page(q)) = Len(pages[q])
  <2>1. pages[q] \in Seq(Int)
    OBVIOUS
  <2>2. Len(pages[q]) \in Nat /\ DOMAIN pages[q] = 1..Len(pages[q])
    BY <2>1
  <2> DEFINE m == Len(pages[q])
  <2>3. IsFiniteSet(1..m) /\ Cardinality(1..m) = m
    <3>1. 1 \in Int /\ m \in Int /\ m \in Nat
      BY <2>2
    <3> HIDE DEF m
    <3>2. IsFiniteSet(1..m) /\ Cardinality(1..m) = IF 1 > m THEN 0 ELSE m - 1 + 1
      BY <3>1, FS_Interval
    <3> QED BY <3>1, <3>2
  <2>4. IsFiniteSet({q}) /\ Cardinality({q}) = 1
    BY FS_Singleton
  <2>5. IsFiniteSet({q} \X (1..m)) /\ Cardinality({q} \X (1..m)) = 1 * m
    <3> HIDE DEF m
    <3>1. /\ IsFiniteSet({q} \X (1..m))
          /\ Cardinality({q} \X (1..m)) = Cardinality({q}) * Cardinality(1..m)
      BY <2>3, <2>4, FS_Product
    <3> QED BY <2>3, <2>4, <3>1
  <2>6. page(q) = {q} \X (1..m) /\ m \in Nat
    BY <2>2
  <2> HIDE DEF m, page
  <2>7. Cardinality(page(q)) = m
    BY <2>5, <2>6
  <2> QED BY <2>5, <2>6, <2>7 DEF m
<1>3. \A p : CharsBefore(pages, p) = Cardinality(B(p))
  BY DEF CharsBefore
<1>4. \A q : \A x \in page(q) : x[1] = q
  OBVIOUS
<1> HIDE DEF page
<1>5. \A p, x : x \in B(p) <=> \E q \in 1..(p - 1) : x \in page(q)
  OBVIOUS
<1> HIDE DEF B
<1>6. ASSUME NEW p \in 1..n PROVE B(p + 1) = B(p) \cup page(p) /\ B(p) \cap page(p) = {}
  <2>1. \A q : q \in 1..((p + 1) - 1) <=> q \in 1..(p - 1) \/ q = p
    BY <1>1
  <2>2. \A x : x \in B(p + 1) <=> x \in B(p) \/ x \in page(p)
    BY <1>5, <2>1
  <2>3. \A x : x \in B(p) => x \notin page(p)
    <3> SUFFICES ASSUME NEW x \in B(p), x \in page(p) PROVE FALSE
      OBVIOUS
    <3>1. PICK q \in 1..(p - 1) : x \in page(q)
      BY <1>5
    <3>2. q = p
      BY <1>4, <3>1
    <3> QED BY <3>1, <3>2, <1>1
  <2> QED BY <2>2, <2>3
<1>7. \A p \in 1..(n + 1) : IsFiniteSet(B(p))
  <2> SUFFICES ASSUME NEW p \in 1..(n + 1), ~IsFiniteSet(B(p)) PROVE FALSE
    OBVIOUS
  <2> DEFINE bad == {q \in 1..(n + 1) : ~IsFiniteSet(B(q))}
  <2>1. bad \in SUBSET Nat /\ bad # {}
    <3>1. p \in bad /\ \A q \in bad : q \in Nat
      BY <1>1
    <3> HIDE DEF bad
    <3> QED BY <3>1
  <2>2. PICK q \in bad : \A r \in bad : q <= r
    <3> HIDE DEF bad
    <3> QED BY <2>1, LeastOf
  <2>3. q \in 1..(n + 1) /\ ~IsFiniteSet(B(q)) /\ q \in Nat
    BY <2>1
  <2>4. CASE q = 1
    <3>1. \A x : x \notin B(1)
      BY <1>5
    <3>2. B(1) = {}
      BY <3>1
    <3>3. IsFiniteSet(B(1))
      BY <3>2, FS_EmptySet
    <3> QED BY <2>3, <2>4, <3>3
  <2>5. CASE q # 1
    <3>1. q - 1 \in 1..n /\ (q - 1) + 1 = q /\ ~(q <= q - 1)
      BY <1>1, <2>3, <2>5
    <3>2. IsFiniteSet(B(q - 1))
      <4>1. q - 1 \in 1..(n + 1)
        BY <1>1, <3>1
      <4> QED BY <2>2, <3>1, <4>1
    <3>3. B(q) = B(q - 1) \cup page(q - 1)
      BY <1>6, <3>1
    <3>4. IsFiniteSet(page(q - 1))
      BY <1>2, <3>1
    <3> QED BY <2>3, <3>2, <3>3, <3>4, FS_Union
  <2> QED BY <2>4, <2>5
<1>8. \A p \in 1..(n + 1) : Cardinality(B(p)) \in Nat
  BY <1>7, FS_CardinalityType
<1>9. ASSUME NEW p \in 1..n PROVE Cardinality(B(p + 1)) = Cardinality(B(p)) + Len(pages[p])
  <2>1. p \in 1..(n + 1)
    BY <1>1
  <2>2. IsFiniteSet(B(p)) /\ IsFiniteSet(page(p)) /\ Cardinality(page(p)) = Len(pages[p])
        /\ Len(pages[p]) \in Nat /\ Cardinality(B(p)) \in Nat
    BY <1>2, <1>7, <1>8, <2>1
  <2>3. Cardinality(B(p) \cup page(p)) =
          Cardinality(B(p)) + Cardinality(page(p)) - Cardinality(B(p) \cap page(p))
    BY <2>2, FS_Union
  <2>4. Cardinality(B(p) \cap page(p)) = 0
    BY <1>6, FS_EmptySet
  <2>5. Cardinality(B(p + 1)) = Cardinality(B(p) \cup page(p))
    BY <1>6
  <2> DEFINE a == Cardinality(B(p))
             b == Len(pages[p])
  <2>6. a \in Nat /\ b \in Nat /\ Cardinality(B(p + 1)) = a + b - 0
    BY <2>2, <2>3, <2>4, <2>5
  <2> HIDE DEF a, b
  <2>7. a + b - 0 = a + b
    BY <2>6
  <2> QED BY <2>6, <2>7 DEF a, b
<1>10. ASSUME NEW p \in 1..(n + 1), NEW q \in 1..(n + 1), p <= q
       PROVE  Cardinality(B(p)) <= Cardinality(B(q))
  <2>1. \A r \in 1..(p - 1) : r \in 1..(q - 1)
    BY <1>1, <1>10
  <2>2. B(p) \in SUBSET B(q)
    BY <1>5, <2>1
  <2> QED BY <1>7, <2>2, FS_Subset
<1> QED BY <1>3, <1>8, <1>9, <1>10

LEMMA OffsetsSound ==
  ASSUME NEW pages \in Seq(Seq(Int))
  PROVE  /\ DOMAIN PageOffsets(pages) = 1..Len(pages)
         /\ PageOffsets(pages) \in Seq([start : Nat, end : Nat])
         /\ \A p \in 1..Len(pages) :
               /\ PageOffsets(pages)[p].start \in Nat
               /\ PageOffsets(pages)[p].end = PageOffsets(pages)[p].start + Len(pages[p])
               /\ Len(pages[p]) \in Nat
         /\ \A p, q \in 1..Len(pages) :
               p < q => PageOffsets(pages)[p].end + 2 <= PageOffsets(pages)[q].start
<1> DEFINE n == Len(pages)
           o == PageOffsets(pages)
           start(p) == CharsBefore(pages, p) + (p - 1) * 2
<1>1. n \in Nat /\ DOMAIN pages = 1..n /\ \A p \in 1..n : Len(pages[p]) \in Nat
  OBVIOUS
<1>2. Len(PageSeparator) = 2
  BY DEF PageSeparator
<1>3. o = [p \in 1..n |-> [start |-> start(p), end |-> start(p) + Len(pages[p])]]
  BY <1>1, <1>2 DEF PageOffsets
<1>4. ASSUME NEW p \in 1..n PROVE start(p) \in Nat
  <2>1. p \in 1..(n + 1) /\ p - 1 \in Nat
    BY <1>1
  <2>2. CharsBefore(pages, p) \in Nat
    BY <2>1, CharsSum
  <2> QED BY <2>1, <2>2
<1>5. ASSUME NEW p \in 1..n, NEW q \in 1..n, p < q
      PROVE  start(p) + Len(pages[p]) + 2 <= start(q)
  <2>1. p \in Nat /\ q \in Nat /\ p + 1 \in 1..(n + 1) /\ q \in 1..(n + 1) /\ p \in 1..(n + 1) /\ p + 1 <= q
    BY <1>1, <1>5
  <2>2. CharsBefore(pages, p + 1) = CharsBefore(pages, p) + Len(pages[p])
    BY CharsSum
  <2>3. CharsBefore(pages, p + 1) <= CharsBefore(pages, q)
    BY <2>1, CharsSum
  <2>4. CharsBefore(pages, p) \in Nat /\ CharsBefore(pages, q) \in Nat /\ Len(pages[p]) \in Nat
    BY <1>1, <2>1, CharsSum
  <2> DEFINE a == CharsBefore(pages, p)
             b == CharsBefore(pages, q)
             l == Len(pages[p])
  <2>5. a \in Nat /\ b \in Nat /\ l \in Nat /\ a + l <= b
    BY <2>2, <2>3, <2>4
  <2> HIDE DEF a, b, l
  <2>6. (a + (p - 1) * 2) + l + 2 <= b + (q - 1) * 2
    BY <2>1, <2>5
  <2> QED BY <2>6 DEF a, b, l
<1> HIDE DEF start, o
<1>6. \A p \in 1..n : o[p] = [start |-> start(p), end |-> start(p) + Len(pages[p])]
                      /\ o[p] \in [start : Nat, end : Nat]
  BY <1>1, <1>3, <1>4
<1>7. DOMAIN o = 1..n /\ o \in Seq([start : Nat, end : Nat])
  <2>1. DOMAIN o = 1..n
    BY <1>3
  <2> DEFINE spots == [start : Nat, end : Nat]
  <2>2. o \in [1..n -> spots]
    BY <1>3, <1>6, <2>1
  <2>3. n \in Nat
    BY <1>1
  <2> HIDE DEF spots, n
  <2>4. o \in Seq(spots)
    BY <2>2, <2>3
  <2> QED BY <2>1, <2>4 DEF spots
<1> QED BY <1>1, <1>4, <1>5, <1>6, <1>7 DEF o

\* What a parse or an OCR leaves: words apart, each on one of the pages, which
\* come one after the other.
ReadSound(t, places) ==
    /\ t \in Seq(Int)
    /\ \A i, j \in DOMAIN t : IsWord(t[i]) /\ IsWord(t[j]) /\ i < j =>
          \E k \in DOMAIN t : ~IsWord(t[k]) /\ i < k /\ k < j
    /\ places \in Seq([start : Nat, end : Nat])
    /\ \A p, q \in DOMAIN places : p < q => places[p].end < places[q].start
    /\ \A i \in DOMAIN t : IsWord(t[i]) => \E p \in DOMAIN places : OnPage(places, p, i)

LEMMA ReadMeans ==
  ASSUME ReadSound(read, offsets)
  PROVE  TextRead /\ PagesHold
<1>1. Between(DOMAIN read, WordsOf(DOMAIN read))
  BY DEF ReadSound, Between, WordsOf
<1> QED BY <1>1 DEF ReadSound, TextRead, PagesHold, WordsOf

LEMMA AssembledSound ==
  ASSUME NEW pages \in Seq(Seq(Int)), \A p \in DOMAIN pages : WordsApart(pages[p])
  PROVE  ReadSound(Assemble(pages), PageOffsets(pages))
<1> DEFINE n == Len(pages)
           o == PageOffsets(pages)
           t == Assemble(pages)
           length == IF pages = <<>> THEN 0 ELSE o[n].end
           token(i) == IF \E p \in DOMAIN pages : OnPage(o, p, i)
                       THEN LET p == CHOOSE p \in DOMAIN pages : OnPage(o, p, i)
                            IN  pages[p][i - o[p].start]
                       ELSE Break
<1>1. n \in Nat /\ DOMAIN pages = 1..n /\ (pages = <<>> <=> n = 0)
  OBVIOUS
<1>2. /\ DOMAIN o = 1..n /\ o \in Seq([start : Nat, end : Nat])
      /\ \A p \in 1..n : /\ o[p].start \in Nat /\ o[p].end \in Nat
                         /\ o[p].end = o[p].start + Len(pages[p]) /\ Len(pages[p]) \in Nat
      /\ \A p, q \in 1..n : p < q => o[p].end + 2 <= o[q].start
  BY OffsetsSound
<1>3. t = [i \in 1..length |-> token(i)]
  BY DEF Assemble
<1> HIDE DEF o
<1>13. \A p \in 1..n : p \in Nat
  BY <1>1
<1>4. length \in Nat
  <2>1. CASE n = 0
    BY <1>1, <2>1
  <2>2. CASE n # 0
    <3>1. n \in 1..n
      BY <1>1, <2>2
    <3>2. length = o[n].end
      BY <1>1, <2>2
    <3> HIDE DEF n, length
    <3> QED BY <1>2, <3>1, <3>2
  <2> QED BY <2>1, <2>2
<1> HIDE DEF n
<1>5. ASSUME NEW i \in Int, NEW p \in 1..n, NEW q \in 1..n, OnPage(o, p, i), OnPage(o, q, i)
      PROVE  p = q
  <2>1. p \in Nat /\ q \in Nat
    BY <1>13
  <2>2. o[p].start < i /\ i <= o[p].end /\ o[q].start < i /\ i <= o[q].end
    BY <1>5 DEF OnPage
  <2>3. /\ o[p].start \in Nat /\ o[p].end \in Nat /\ o[q].start \in Nat /\ o[q].end \in Nat
        /\ (p < q => o[p].end + 2 <= o[q].start) /\ (q < p => o[q].end + 2 <= o[p].start)
    BY <1>2
  <2> DEFINE ps == o[p].start
             pe == o[p].end
             qs == o[q].start
             qe == o[q].end
  <2> HIDE DEF ps, pe, qs, qe
  <2>4. /\ ps < i /\ i <= pe /\ qs < i /\ i <= qe
        /\ ps \in Nat /\ pe \in Nat /\ qs \in Nat /\ qe \in Nat
        /\ (p < q => pe + 2 <= qs) /\ (q < p => qe + 2 <= ps)
    BY <2>2, <2>3 DEF ps, pe, qs, qe
  <2>5. ~(p < q) /\ ~(q < p)
    BY <2>4
  <2> QED BY <2>1, <2>5
<1>6. ASSUME NEW i \in Int, NEW p \in 1..n, OnPage(o, p, i)
      PROVE  /\ token(i) = pages[p][i - o[p].start] /\ token(i) \in Int
             /\ i - o[p].start \in 1..Len(pages[p])
  <2> DEFINE q == CHOOSE q \in DOMAIN pages : OnPage(o, q, i)
  <2>1. q \in 1..n /\ OnPage(o, q, i)
    BY <1>1, <1>6
  <2>2. q = p
    BY <1>5, <1>6, <2>1
  <2>3. token(i) = pages[q][i - o[q].start]
    BY <1>1, <1>6
  <2>4. i - o[p].start \in 1..Len(pages[p])
    BY <1>2, <1>6 DEF OnPage
  <2>5. pages[p] \in Seq(Int)
    BY <1>1
  <2> HIDE DEF q, token
  <2>6. pages[p][i - o[p].start] \in Int
    BY <2>4, <2>5
  <2> QED BY <2>2, <2>3, <2>4, <2>6
<1>7. ASSUME NEW i, ~ \E p \in 1..n : OnPage(o, p, i)
      PROVE  token(i) = Break
  BY <1>1, <1>7
<1> HIDE DEF token, length
<1>8. DOMAIN t = 1..length /\ \A i \in 1..length : t[i] = token(i) /\ token(i) \in Int
  <2>1. DOMAIN t = 1..length /\ \A i \in 1..length : t[i] = token(i)
    BY <1>3
  <2>2. Break \in Int
    BY DEF Break
  <2>3. \A i \in 1..length : i \in Int
    BY <1>4
  <2>4. \A i \in 1..length : token(i) \in Int
    BY <1>6, <1>7, <2>2, <2>3
  <2> QED BY <2>1, <2>4
<1>9. t \in Seq(Int)
  <2>1. t \in [1..length -> Int]
    BY <1>3, <1>8
  <2> QED BY <1>4, <2>1
<1> HIDE DEF t
<1>10. ASSUME NEW i \in DOMAIN t, IsWord(t[i])
       PROVE  \E p \in 1..n : OnPage(o, p, i)
  <2>1. t[i] # Break
    BY <1>10 DEF IsWord
  <2> QED BY <1>7, <1>8, <2>1
<1>11. ASSUME NEW i \in DOMAIN t, NEW j \in DOMAIN t, IsWord(t[i]), IsWord(t[j]), i < j
       PROVE  \E k \in DOMAIN t : ~IsWord(t[k]) /\ i < k /\ k < j
  <2>1. PICK p \in 1..n : OnPage(o, p, i)
    BY <1>10, <1>11
  <2>2. PICK q \in 1..n : OnPage(o, q, j)
    BY <1>10, <1>11
  <2>3. /\ i \in 1..length /\ j \in 1..length /\ i \in Int /\ j \in Int /\ p \in Nat /\ q \in Nat
    BY <1>1, <1>4, <1>8
  <2>4. /\ o[p].start < i /\ i <= o[p].end /\ o[q].start < j /\ j <= o[q].end
        /\ o[p].start \in Nat /\ o[p].end \in Nat /\ o[q].start \in Nat /\ o[q].end \in Nat
    BY <1>2, <2>1, <2>2 DEF OnPage
  <2>5. CASE p = q
    <3> DEFINE a == i - o[p].start
               b == j - o[p].start
    <3>1. /\ a \in 1..Len(pages[p]) /\ b \in 1..Len(pages[p]) /\ a < b
          /\ t[i] = pages[p][a] /\ t[j] = pages[p][b] /\ a \in Int /\ b \in Int
      <4>1. a \in 1..Len(pages[p]) /\ token(i) = pages[p][a]
        BY <1>6, <2>1, <2>3
      <4>2. b \in 1..Len(pages[p]) /\ token(j) = pages[p][b]
        BY <1>6, <2>2, <2>3, <2>5
      <4>3. a < b /\ a \in Int /\ b \in Int
        <5>1. i \in Int /\ j \in Int /\ o[p].start \in Int /\ i < j
          BY <1>11, <2>3, <2>4
        <5>2. \A x, y, z \in Int : x < y => x - z < y - z /\ x - z \in Int /\ y - z \in Int
          OBVIOUS
        <5> HIDE DEF a, b
        <5>3. a = i - o[p].start /\ b = j - o[p].start
          BY DEF a, b
        <5> QED BY ONLY <5>1, <5>2, <5>3
      <4> QED BY <4>1, <4>2, <4>3, <1>8, <2>3
    <3>2. Len(pages[p]) \in Nat
      BY <1>2
    <3>3. i + 1 \in Int /\ OnPage(o, p, i + 1) /\ (i + 1) - o[p].start = a + 1 /\ i + 1 <= j
      <4> DEFINE s == o[p].start
                 e == o[p].end
      <4>1. s \in Nat /\ e \in Nat /\ s < i /\ j <= e /\ a = i - s
        BY <2>4, <2>5
      <4> HIDE DEF s, e, a
      <4>2. /\ i + 1 \in Int /\ s < i + 1 /\ i + 1 <= e
            /\ (i + 1) - s = a + 1 /\ i + 1 <= j
        BY <1>11, <2>3, <4>1
      <4> QED BY <4>2 DEF OnPage, s, e
    <3>4. i + 1 \in 1..length
      BY <2>3, <3>3, <1>4
    <3> HIDE DEF a, b
    <3>5. t[i + 1] = pages[p][a + 1]
      <4>1. token(i + 1) = pages[p][(i + 1) - o[p].start]
        BY <1>6, <3>3
      <4> QED BY <4>1, <3>3, <3>4, <1>8
    <3>6. ~IsWord(pages[p][a + 1])
      <4>1. a \in 1..(Len(pages[p]) - 1)
        BY <3>1, <3>2
      <4>2. WordsApart(pages[p])
        BY <1>1
      <4>3. IsWord(pages[p][a])
        BY <1>11, <3>1
      <4> QED BY <4>1, <4>2, <4>3 DEF WordsApart
    <3>7. i + 1 # j
      BY <3>5, <3>6, <1>11
    <3>8. i < i + 1 /\ i + 1 < j
      BY <2>3, <3>3, <3>7
    <3> QED BY <1>8, <3>4, <3>5, <3>6, <3>8
  <2>6. CASE p # q
    <3> DEFINE k == o[p].end + 1
    <3>1. p < q
      <4>1. q < p => o[q].end + 2 <= o[p].start
        BY <1>2
      <4> QED BY <1>11, <2>3, <2>4, <2>6, <4>1
    <3>2. o[p].end + 2 <= o[q].start
      BY <1>2, <3>1
    <3>3. k \in Int /\ i < k /\ k < j /\ k \in 1..length
      <4> DEFINE e == o[p].end
                 s == o[q].start
      <4>1. e \in Nat /\ s \in Nat /\ i <= e /\ s < j /\ e + 2 <= s /\ k = e + 1
        BY <2>4, <3>2
      <4> HIDE DEF e, s, k
      <4> QED BY <2>3, <4>1, <1>4
    <3>4. ~ \E r \in 1..n : OnPage(o, r, k)
      <4> SUFFICES ASSUME NEW r \in 1..n, OnPage(o, r, k) PROVE FALSE
        OBVIOUS
      <4>1. o[r].start < k /\ k <= o[r].end
        BY DEF OnPage
      <4>2. /\ (p < r => o[p].end + 2 <= o[r].start) /\ (r < p => o[r].end + 2 <= o[p].start)
            /\ o[r].start \in Nat /\ o[r].end \in Nat
        BY <1>2
      <4>3. r \in Nat
        BY <1>13
      <4> DEFINE e == o[p].end
                 s == o[p].start
                 rs == o[r].start
                 re == o[r].end
      <4>4. /\ e \in Nat /\ s \in Nat /\ rs \in Nat /\ re \in Nat /\ k = e + 1
            /\ rs < k /\ k <= re /\ (p < r => e + 2 <= rs) /\ (r < p => re + 2 <= s)
            /\ (r = p => re = e) /\ s < i /\ i <= e
        BY <2>4, <4>1, <4>2
      <4> HIDE DEF e, s, rs, re, k
      <4>5. ~(p < r) /\ ~(r < p) /\ r # p
        BY <2>3, <4>3, <4>4
      <4> QED BY <2>3, <4>3, <4>5
    <3>5. t[k] = Break
      BY <1>7, <1>8, <3>3, <3>4
    <3>6. ~IsWord(t[k])
      BY <3>5 DEF IsWord
    <3> QED BY <1>8, <3>3, <3>6
  <2> QED BY <2>5, <2>6
<1>12. \A p, q \in DOMAIN o : p < q => o[p].end < o[q].start
  <2> SUFFICES ASSUME NEW p \in 1..n, NEW q \in 1..n, p < q PROVE o[p].end < o[q].start
    BY <1>2
  <2>1. o[p].end + 2 <= o[q].start /\ o[p].end \in Nat /\ o[q].start \in Nat
    BY <1>2
  <2> QED BY <2>1
<1> QED BY <1>2, <1>9, <1>10, <1>11, <1>12 DEF ReadSound, o, t

LEMMA StrippedApart ==
  ASSUME NEW page \in Seq(Int), WordsApart(page)
  PROVE  Strip(page) \in Seq(Int) /\ WordsApart(Strip(page))
<1> DEFINE filled == {i \in DOMAIN page : IsWord(page[i])}
           a == FirstOf(filled)
           b == LastOf(filled)
<1>1. DOMAIN page = 1..Len(page) /\ Len(page) \in Nat
  OBVIOUS
<1>2. CASE filled = {}
  <2>1. Strip(page) = <<>>
    BY <1>2 DEF Strip
  <2> QED BY <2>1 DEF WordsApart
<1>3. CASE filled # {}
  <2>1. Strip(page) = SubSeq(page, a, b)
    BY <1>3 DEF Strip
  <2>2. a \in filled /\ b \in filled
    <3>1. filled \in SUBSET Nat /\ filled \in SUBSET (0..Len(page))
      BY <1>1
    <3> HIDE DEF filled
    <3> QED BY <1>1, <1>3, <3>1, FirstIs, LastIs
  <2>3. a \in 1..Len(page) /\ b \in 1..Len(page)
    BY <1>1, <2>2
  <2> HIDE DEF a, b
  <2> DEFINE cut == SubSeq(page, a, b)
  <2>4. cut \in Seq(Int)
    BY <2>3
  <2>5. ASSUME NEW i \in 1..Len(cut)
        PROVE  cut[i] = page[a + i - 1] /\ i \in Nat /\ a + i - 1 <= b
    BY <2>3, <2>5
  <2>6. Len(cut) \in Nat
    BY <2>4
  <2>7. ASSUME NEW i \in 1..(Len(cut) - 1)
        PROVE  ~(IsWord(cut[i]) /\ IsWord(cut[i + 1]))
    <3>1. i \in 1..Len(cut) /\ i + 1 \in 1..Len(cut) /\ i \in Nat
      <4> DEFINE m == Len(cut)
      <4>1. m \in Nat /\ i \in 1..(m - 1)
        BY <2>6, <2>7
      <4> HIDE DEF m
      <4>2. i \in 1..m /\ i + 1 \in 1..m /\ i \in Nat
        BY <4>1
      <4> QED BY <4>2 DEF m
    <3>2. /\ cut[i] = page[a + i - 1] /\ cut[i + 1] = page[a + (i + 1) - 1]
          /\ a + (i + 1) - 1 <= b
      BY <2>5, <3>1
    <3> DEFINE m == a + i - 1
    <3>3. m \in 1..(Len(page) - 1) /\ a + (i + 1) - 1 = m + 1
      BY <1>1, <2>3, <3>1, <3>2
    <3>4. ~(IsWord(page[m]) /\ IsWord(page[m + 1]))
      BY <3>3 DEF WordsApart
    <3> QED BY <3>2, <3>3, <3>4
  <2> HIDE DEF cut
  <2>8. WordsApart(cut)
    BY <2>7 DEF WordsApart
  <2> QED BY <2>1, <2>4, <2>8 DEF cut
<1> QED BY <1>2, <1>3

-----------------------------------------------------------------------------
(* The inductive invariant. *)

Indexing == {"chunked", "short", "unavailable", "indexed"}

ChunksSound(some) ==
    /\ \A c \in some : ChunkGood(c)
    /\ some # {} => Covers(some, TRUE) /\ Covers(some, FALSE)
    /\ Housed(some)

\* The vectors of the children embedded so far, in the order of the document,
\* until a batch fails.
VectorsSound ==
    /\ vectors \in Seq([words : SUBSET kept, joined : BOOLEAN])
    /\ stage = "chunked" =>
          /\ Len(vectors) <= Embedded
          /\ \A n \in 1..Len(vectors) : vectors[n] = Content(Nth(n))

RowsSound ==
    /\ rows # {} <=> stage = "indexed"
    /\ \A r \in rows : r.chunk \in chunks
    /\ RowsAligned

Unsanitized == {"uploaded", "unreadable", "parsed", "read"}

\* The text and the spans of it that had their turn.
Sanitizing ==
    /\ turn \in 0..(Len(StyledSpans(resume)) + 1)
    /\ stage \in Unsanitized => kept = {} /\ turn = 0
    /\ stage \in Sanitized => turn > Len(StyledSpans(resume))
    /\ (stage \notin Unsanitized /\ resume.media = "pdf") => Clean(kept, turn)

TextIInv ==
    /\ resume \in Resumes
    /\ stage \in Unsanitized \cup {"sanitizing"} \cup Sanitized
    /\ ReadSound(read, offsets)
    /\ TextKept
    /\ risk \in 0..100
    /\ Sanitizing
    /\ ChunksSound(chunks)
    /\ chunks # {} <=> stage \in Indexing
    /\ stage \notin Indexing => vectors = <<>>
    /\ VectorsSound
    /\ RowsSound

\* Before anything is chunked there is only the text.
Unchunked ==
    /\ stage \in Unsanitized \cup {"sanitizing", "sanitized"}
    /\ chunks = {} /\ vectors = <<>> /\ rows = {}

\* Before anything is sanitized there is only what was read.
Bare ==
    /\ resume \in Resumes
    /\ stage \in Unsanitized
    /\ ReadSound(read, offsets)
    /\ kept = {} /\ turn = 0 /\ risk \in 0..100 /\ Unchunked

LEMMA UnchunkedHolds ==
  ASSUME Unchunked, resume \in Resumes, ReadSound(read, offsets), TextKept, risk \in 0..100,
         Sanitizing
  PROVE  TextIInv
<1>1. /\ stage \notin Indexing /\ stage # "chunked" /\ stage # "indexed"
      /\ stage \in Unsanitized \cup {"sanitizing"} \cup Sanitized
  BY DEF Unchunked, Unsanitized, Sanitized, Indexing
<1>2. ChunksSound(chunks)
  BY DEF Unchunked, ChunksSound, Housed
<1>3. VectorsSound
  <2> DEFINE contents == [words : SUBSET kept, joined : BOOLEAN]
  <2> HIDE DEF contents
  <2>1. <<>> \in Seq(contents)
    OBVIOUS
  <2> QED BY <2>1, <1>1 DEF Unchunked, VectorsSound, contents
<1>4. RowsSound
  BY <1>1 DEF Unchunked, RowsSound, RowsAligned
<1> QED BY <1>1, <1>2, <1>3, <1>4 DEF Unchunked, TextIInv

LEMMA BareHolds == Bare => TextIInv
<1> SUFFICES ASSUME Bare PROVE TextIInv
  OBVIOUS
<1>1. TextKept
  BY DEF Bare, TextKept, ReadSound, WordsOf, Between
<1>2. Len(StyledSpans(resume)) \in Nat
  <2> DEFINE styled == [text : Seq(Int), tiny : BOOLEAN, away : BOOLEAN, pale : BOOLEAN]
  <2>1. resume.spans \in Seq(styled)
    BY TextAssumption DEF Bare
  <2> HIDE DEF styled
  <2> QED BY <2>1 DEF StyledSpans
<1>3. Sanitizing
  BY <1>2 DEF Bare, Sanitizing, Unsanitized, Sanitized
<1> QED BY <1>1, <1>3, UnchunkedHolds DEF Bare

LEMMA InitHolds == TextInit => TextIInv
<1> SUFFICES ASSUME TextInit PROVE TextIInv
  OBVIOUS
<1>1. ReadSound(read, offsets)
  <2> DEFINE places == [start : Nat, end : Nat]
  <2> HIDE DEF places
  <2>1. <<>> \in Seq(places)
    OBVIOUS
  <2> QED BY <2>1 DEF TextInit, ReadSound, places
<1>2. Bare
  BY <1>1 DEF TextInit, Bare, Unchunked, Unsanitized
<1> QED BY <1>2, BareHolds

LEMMA IsUnchunked ==
  ASSUME TextIInv, stage \in Unsanitized \cup {"sanitizing", "sanitized"}
  PROVE  Unchunked
BY DEF TextIInv, Unchunked, Unsanitized, Indexing, RowsSound

LEMMA IsBare ==
  ASSUME TextIInv, stage \in Unsanitized
  PROVE  Bare
BY IsUnchunked DEF TextIInv, Bare, Sanitizing

LEMMA ParseHolds ==
  ASSUME TextIInv, Parse
  PROVE  TextIInv'
<1>1. Bare
  BY IsBare DEF Parse, Unsanitized
<1>2. resume \in Resumes /\ resume' = resume
  BY <1>1 DEF Bare, Parse
<1>3. ReadSound(read, offsets)'
  <2>1. CASE Unparseable(resume)
    BY <1>1, <2>1 DEF Parse, Bare, ReadSound
  <2>2. CASE ~Unparseable(resume)
    <3>1. ReadSound(Assemble(resume.pages), PageOffsets(resume.pages))
      BY <1>2, AssembledSound, TextAssumption
    <3>2. read' = Assemble(resume.pages) /\ offsets' = PageOffsets(resume.pages)
      BY <2>2 DEF Parse
    <3> QED BY <3>1, <3>2
  <2> QED BY <2>1, <2>2
<1>4. Bare'
  BY <1>1, <1>3 DEF Bare, Parse, Unchunked, Unsanitized
<1>5. Bare' => TextIInv'
  BY BareHolds, PTL
<1> QED BY <1>4, <1>5

LEMMA OcrHolds ==
  ASSUME TextIInv, OcrFallback
  PROVE  TextIInv'
<1>1. Bare
  BY IsBare DEF OcrFallback, Unsanitized
<1>2. resume \in Resumes /\ resume' = resume
  BY <1>1 DEF Bare, OcrFallback
<1> DEFINE pages == [p \in DOMAIN resume.ocr |-> Strip(resume.ocr[p])]
<1>3. pages \in Seq(Seq(Int)) /\ \A p \in DOMAIN pages : WordsApart(pages[p])
  <2>1. resume.ocr \in Seq(Seq(Int)) /\ \A p \in DOMAIN resume.ocr : WordsApart(resume.ocr[p])
    BY <1>2, TextAssumption
  <2>2. DOMAIN resume.ocr = 1..Len(resume.ocr) /\ Len(resume.ocr) \in Nat
        /\ \A p \in DOMAIN resume.ocr : resume.ocr[p] \in Seq(Int)
    BY <2>1
  <2>3. \A p \in DOMAIN resume.ocr :
            pages[p] = Strip(resume.ocr[p]) /\ pages[p] \in Seq(Int) /\ WordsApart(pages[p])
    BY <2>1, <2>2, StrippedApart
  <2> DEFINE texts == Seq(Int)
             n == Len(resume.ocr)
  <2>4. pages \in [1..n -> texts] /\ n \in Nat /\ DOMAIN pages = DOMAIN resume.ocr
    BY <2>2, <2>3
  <2> HIDE DEF texts, n, pages
  <2>5. pages \in Seq(texts)
    BY <2>4
  <2> QED BY <2>3, <2>4, <2>5 DEF texts
<1>4. ReadSound(read, offsets)'
  <2>1. CASE UNCHANGED <<read, offsets>>
    BY <1>1, <2>1 DEF Bare, ReadSound
  <2>2. CASE read' = Assemble(pages) /\ offsets' = PageOffsets(pages)
    <3>1. ReadSound(Assemble(pages), PageOffsets(pages))
      BY <1>3, AssembledSound
    <3> QED BY <2>2, <3>1
  <2> QED BY <2>1, <2>2 DEF OcrFallback
<1>5. Bare'
  BY <1>1, <1>4 DEF Bare, OcrFallback, Unchunked, Unsanitized
<1>6. Bare' => TextIInv'
  BY BareHolds, PTL
<1> QED BY <1>5, <1>6

LEMMA RiskBounded ==
  ASSUME NEW kinds \in Nat, NEW metadata \in BOOLEAN, NEW patterns \in Nat
  PROVE  InjectionRisk(kinds, metadata, patterns) \in 0..100
<1> DEFINE m == IF metadata THEN 25 ELSE 0
           score == 35 * kinds + m + 20 * patterns
<1>1. m \in Nat
  OBVIOUS
<1> HIDE DEF m
<1>2. score \in Nat
  BY <1>1
<1>3. InjectionRisk(kinds, metadata, patterns) = IF score > 100 THEN 100 ELSE score
  BY DEF InjectionRisk, m
<1> HIDE DEF score
<1> QED BY <1>2, <1>3

LEMMA CleanStays ==
  ASSUME resume' = resume, read' = read
  PROVE  (Clean(kept, turn))' <=> Clean(kept', turn')
BY DEF Clean, Undone, Hiding, HiddenText, HiddenTexts, OccursAt, PlaceWords, Alone, Lost, Gone,
       Whole, WordsOf

\* Every place is whole in the text as it was read, and no span had its turn.
LEMMA StartHolds ==
  ASSUME TextIInv, StartSanitizing
  PROVE  TextIInv'
<1>1. Bare
  BY IsBare DEF StartSanitizing, Unsanitized
<1>2. /\ resume \in Resumes /\ resume' = resume /\ read' = read /\ offsets' = offsets
      /\ ReadSound(read, offsets) /\ TextRead /\ stage' = "sanitizing"
      /\ kept' = DOMAIN read /\ turn' = 1 /\ risk' = risk
  BY <1>1, ReadMeans DEF Bare, StartSanitizing
<1>3. TextKept'
  BY <1>2 DEF TextKept, TextRead, WordsOf, Between
<1>4. resume.media = "pdf" => Clean(DOMAIN read, 1)
  <2> SUFFICES ASSUME resume.media = "pdf" PROVE Clean(DOMAIN read, 1)
    OBVIOUS
  <2>1. ASSUME NEW k \in Hiding, NEW i \in DOMAIN read, OccursAt(HiddenText(k), i)
        PROVE  Undone(DOMAIN read, 1, k, i)
    <3>1. Whole(DOMAIN read, HiddenText(k), i)
      BY <2>1 DEF OccursAt, Whole
    <3>2. ~(k < 1)
      <4>1. k \in 1..Len(resume.spans) /\ Len(resume.spans) \in Nat
        BY <1>2, HiddenSound DEF Hiding
      <4> QED BY <4>1
    <3> QED BY <3>1, <3>2 DEF Undone
  <2>2. \A i \in WordsOf(DOMAIN read) : i \in DOMAIN read
    BY DEF WordsOf
  <2> QED BY <2>1, <2>2 DEF Clean
<1>5. Sanitizing'
  <2>1. turn' \in 0..(Len(StyledSpans(resume)) + 1)
    <3>1. 0 \in 0..(Len(StyledSpans(resume)) + 1)
      BY <1>1, BareHolds DEF TextIInv, Sanitizing, Bare
    <3> DEFINE m == Len(StyledSpans(resume))
    <3>2. m \in Nat
      <4> DEFINE styled == [text : Seq(Int), tiny : BOOLEAN, away : BOOLEAN, pale : BOOLEAN]
      <4>1. resume.spans \in Seq(styled)
        BY <1>2, TextAssumption
      <4> HIDE DEF styled
      <4> QED BY <4>1 DEF StyledSpans
    <3> HIDE DEF m
    <3>3. 1 \in 0..(m + 1)
      BY <3>2
    <3> QED BY <1>2, <3>3 DEF m
  <2>2. (Clean(kept, turn))' <=> Clean(kept', turn')
    BY <1>2, CleanStays
  <2> QED BY <1>2, <1>4, <2>1, <2>2 DEF Sanitizing, Unsanitized, Sanitized
<1>6. Unchunked'
  BY <1>1, <1>2 DEF Bare, Unchunked, StartSanitizing
<1>7. ReadSound(read, offsets)' /\ (resume \in Resumes)' /\ (risk \in 0..100)'
  BY <1>1, <1>2 DEF Bare
<1>8. (Unchunked /\ resume \in Resumes /\ ReadSound(read, offsets) /\ TextKept
        /\ risk \in 0..100 /\ Sanitizing => TextIInv)'
  BY UnchunkedHolds, PTL
<1> QED BY <1>3, <1>5, <1>6, <1>7, <1>8

LEMMA SpanDone ==
  ASSUME TextIInv, SanitizeSpan,
         kept' \in SUBSET DOMAIN read, Between(kept', WordsOf(kept')),
         resume.media = "pdf" => Clean(kept', turn + 1)
  PROVE  TextIInv'
<1>1. /\ Unchunked /\ resume \in Resumes /\ ReadSound(read, offsets) /\ TextRead
      /\ Sanitizing /\ risk \in 0..100
  BY IsUnchunked, ReadMeans DEF TextIInv, SanitizeSpan
<1>2. /\ stage = "sanitizing" /\ turn <= Len(StyledSpans(resume)) /\ turn' = turn + 1
      /\ UNCHANGED <<resume, stage, read, offsets, risk, chunks, vectors, rows>>
  BY DEF SanitizeSpan
<1>3. TextKept'
  <2>1. WordsOf(kept') = WordsOf(kept)'
    BY <1>2 DEF WordsOf
  <2> QED BY <1>1, <1>2, <2>1 DEF TextKept, TextRead
<1>4. Sanitizing'
  <2>1. turn + 1 \in 0..(Len(StyledSpans(resume)) + 1)
    <3> DEFINE m == Len(StyledSpans(resume))
    <3>1. m \in Nat
      <4> DEFINE styled == [text : Seq(Int), tiny : BOOLEAN, away : BOOLEAN, pale : BOOLEAN]
      <4>1. resume.spans \in Seq(styled)
        BY <1>1, TextAssumption
      <4> HIDE DEF styled
      <4> QED BY <4>1 DEF StyledSpans
    <3>2. turn \in 0..(m + 1) /\ turn <= m
      BY <1>1, <1>2 DEF Sanitizing
    <3> HIDE DEF m
    <3>3. turn + 1 \in 0..(m + 1)
      BY <3>1, <3>2
    <3> QED BY <3>3 DEF m
  <2>2. (Clean(kept, turn))' <=> Clean(kept', turn')
    BY <1>2, CleanStays
  <2> QED BY <1>2, <2>1, <2>2 DEF Sanitizing, Unsanitized, Sanitized
<1>5. Unchunked'
  BY <1>1, <1>2 DEF Unchunked
<1>6. ReadSound(read, offsets)' /\ (resume \in Resumes)' /\ (risk \in 0..100)'
  BY <1>1, <1>2
<1>7. (Unchunked /\ resume \in Resumes /\ ReadSound(read, offsets) /\ TextKept
        /\ risk \in 0..100 /\ Sanitizing => TextIInv)'
  BY UnchunkedHolds, PTL
<1> QED BY <1>3, <1>4, <1>5, <1>6, <1>7

LEMMA SpanHolds ==
  ASSUME TextIInv, SanitizeSpan
  PROVE  TextIInv'
<1>1. /\ Unchunked /\ resume \in Resumes /\ ReadSound(read, offsets) /\ TextRead
      /\ TextKept /\ Sanitizing /\ risk \in 0..100
  BY IsUnchunked, ReadMeans DEF TextIInv, SanitizeSpan
<1>2. /\ stage = "sanitizing" /\ turn <= Len(StyledSpans(resume)) /\ turn' = turn + 1
      /\ UNCHANGED <<resume, stage, read, offsets, risk, chunks, vectors, rows>>
  BY DEF SanitizeSpan
<1>3. /\ kept \in SUBSET DOMAIN read /\ Between(kept, WordsOf(kept))
      /\ resume.media = "pdf" => Clean(kept, turn)
  BY <1>1, <1>2 DEF TextKept, Sanitizing, Unsanitized
<1>4. CASE turn \in HiddenSpans(resume)
  <2> DEFINE t == Strip(StyledSpans(resume)[turn].text)
  <2>1. PICK taken \in SUBSET Found(kept, t) : RemoveText(kept, t, taken)
    BY <1>4 DEF SanitizeSpan
  <2>2. resume.media = "pdf"
    <3>1. resume.media \in {"pdf", "docx"}
      BY <1>1, TextAssumption
    <3>2. resume.media = "docx" => HiddenSpans(resume) = {}
      BY DEF HiddenSpans, StyledSpans
    <3> QED BY <1>4, <3>1, <3>2
  <2>3. turn \in Hiding /\ t = HiddenText(turn)
    BY <1>1, <1>4, <2>2, HiddenSound DEF HiddenText
  <2> HIDE DEF t
  <2>4. Replaced(kept, HiddenText(turn), taken, kept')
    BY <2>1, <2>3 DEF RemoveText, Replaced
  <2>5. PICK K : K = kept'
    OBVIOUS
  <2>6. Replaced(kept, HiddenText(turn), taken, K)
    BY <2>4, <2>5
  <2>7. Clean(kept, turn)
    BY <1>3, <2>2
  <2>8. K \in SUBSET kept /\ Between(K, WordsOf(K)) /\ Clean(K, turn + 1)
    BY <1>1, <1>3, <2>2, <2>3, <2>6, <2>7, RemovedSound
  <2> QED BY <1>3, <2>5, <2>8, SpanDone
<1>5. CASE turn \notin HiddenSpans(resume)
  <2>1. kept' = kept
    BY <1>5 DEF SanitizeSpan
  <2>2. resume.media = "pdf" => Clean(kept, turn + 1)
    <3> SUFFICES ASSUME resume.media = "pdf" PROVE Clean(kept, turn + 1)
      OBVIOUS
    <3>1. turn \notin Hiding
      BY <1>1, <1>5, HiddenSound
    <3>2. \A k \in Hiding : k < turn + 1 => k < turn
      <4>1. \A k \in Hiding : k \in Nat /\ k # turn
        BY <1>1, <3>1, HiddenSound DEF Hiding
      <4>2. turn \in Nat
        BY <1>1 DEF Sanitizing
      <4> QED BY <4>1, <4>2
    <3> QED BY <1>3, <3>2 DEF Clean, Undone
  <2> QED BY <1>1, <1>2, <1>3, <2>1, <2>2, SpanDone
<1> QED BY <1>4, <1>5

LEMMA SanitizeHolds ==
  ASSUME TextIInv, Sanitize
  PROVE  TextIInv'
<1> DEFINE K == CollapseBlankRuns(kept)
<1>1. /\ Unchunked /\ resume \in Resumes /\ ReadSound(read, offsets) /\ TextRead
      /\ TextKept /\ Sanitizing
  BY IsUnchunked, ReadMeans DEF TextIInv, Sanitize
<1>2. /\ stage = "sanitizing" /\ turn > Len(StyledSpans(resume)) /\ turn' = turn
      /\ kept' = K /\ read' = read /\ offsets' = offsets /\ stage' = "sanitized"
      /\ resume' = resume
  BY DEF Sanitize
<1>3. /\ kept \in SUBSET DOMAIN read /\ Between(kept, WordsOf(kept))
      /\ resume.media = "pdf" => Clean(kept, turn)
  BY <1>1, <1>2 DEF TextKept, Sanitizing, Unsanitized
<1>4. /\ K \in SUBSET kept /\ WordsOf(K) = WordsOf(kept) /\ Between(K, WordsOf(K))
  BY <1>1, <1>3, CollapsedSound
<1> HIDE DEF K
<1>5. TextKept'
  <2>1. WordsOf(K) = WordsOf(kept)'
    BY <1>2 DEF WordsOf
  <2> QED BY <1>1, <1>2, <1>3, <1>4, <2>1 DEF TextKept, TextRead
<1>6. resume.media = "pdf" => Clean(K, turn)
  <2> SUFFICES ASSUME resume.media = "pdf" PROVE Clean(K, turn)
    OBVIOUS
  <2>1. \A i \in WordsOf(DOMAIN read) : i \in K <=> i \in kept
    <3>1. \A i \in WordsOf(DOMAIN read) : i \in kept => i \in WordsOf(kept)
      BY DEF WordsOf
    <3>2. \A i \in WordsOf(K) : i \in K
      BY DEF WordsOf
    <3> QED BY <1>4, <3>1, <3>2
  <2>2. \A t, i : PlaceWords(t, i) \subseteq WordsOf(DOMAIN read)
    BY DEF PlaceWords
  <2>3. \A t, i : (Lost(kept, t, i) => Lost(K, t, i)) /\ (Gone(kept, t, i) => Gone(K, t, i))
    BY <2>1, <2>2 DEF Lost, Gone
  <2>4. ASSUME NEW k \in Hiding, NEW i \in DOMAIN read, OccursAt(HiddenText(k), i)
        PROVE  Undone(K, turn, k, i)
    <3> DEFINE t == HiddenText(k)
    <3>1. Undone(kept, turn, k, i)
      BY <1>3, <2>4 DEF Clean
    <3>2. k < turn
      <4>1. k \in 1..Len(resume.spans) /\ Len(resume.spans) \in Nat
        BY <1>1, HiddenSound DEF Hiding
      <4>2. turn > Len(resume.spans) /\ turn \in Nat
        BY <1>1, <1>2, HiddenSound DEF Sanitizing
      <4> QED BY <4>1, <4>2
    <3>3. Lost(kept, t, i)
      BY <3>1, <3>2 DEF Undone
    <3>4. ~Whole(kept, t, i)
      BY <1>1, <3>3, HiddenSound, LostIsNotWhole
    <3>5. Alone(t) => Gone(kept, t, i)
      BY <3>1, <3>4 DEF Undone
    <3> QED BY <2>3, <3>3, <3>5 DEF Undone
  <2>5. \A i \in WordsOf(DOMAIN read) : i \in K \/ \E t \in HiddenTexts : read[i] \in Words(t)
    BY <1>3, <2>1 DEF Clean
  <2> QED BY <2>4, <2>5 DEF Clean
<1>7. Sanitizing'
  <2>1. (Clean(kept, turn))' <=> Clean(kept', turn')
    BY <1>2, CleanStays
  <2> QED BY <1>1, <1>2, <1>6, <2>1 DEF Sanitizing, Unsanitized, Sanitized
<1>8. risk' \in 0..100
  <2> DEFINE kinds == {ClassifySpan(StyledSpans(resume)[k]) : k \in HiddenSpans(resume)}
             patterns == {read[i] : i \in kept} \cap Orders
  <2>1. Cardinality(kinds) \in Nat
    <3>1. kinds \in SUBSET ({"tiny_font"} \cup {"off_canvas"} \cup {"invisible_text"} \cup {"visible"})
      BY DEF ClassifySpan
    <3> DEFINE four == {"tiny_font"} \cup {"off_canvas"} \cup {"invisible_text"} \cup {"visible"}
    <3>2. IsFiniteSet(four)
      BY FS_Singleton, FS_Union
    <3> HIDE DEF four, kinds
    <3> QED BY <3>1, <3>2, FS_Subset, FS_CardinalityType DEF four
  <2>2. Cardinality(patterns) \in Nat
    <3> DEFINE words == {read[i] : i \in kept}
    <3>1. IsFiniteSet(kept)
      BY <1>1, Positions
    <3>2. IsFiniteSet(words)
      <4> DEFINE at == [i \in kept |-> read[i]]
      <4>1. at \in [kept -> words] /\ \A w \in words : \E i \in kept : at[i] = w
        OBVIOUS
      <4> HIDE DEF words, at
      <4>2. at \in Surjection(kept, words)
        BY <4>1 DEF Surjection
      <4> QED BY <3>1, <4>2, FS_Surjection
    <3>3. patterns \in SUBSET words
      OBVIOUS
    <3> HIDE DEF words, patterns
    <3> QED BY <3>2, <3>3, FS_Subset, FS_CardinalityType
  <2>3. resume.metadata \in BOOLEAN
    BY <1>1, TextAssumption
  <2>4. risk' = InjectionRisk(Cardinality(kinds), resume.metadata, Cardinality(patterns))
    BY DEF Sanitize
  <2> HIDE DEF kinds, patterns
  <2> QED BY <2>1, <2>2, <2>3, <2>4, RiskBounded
<1>9. Unchunked'
  BY <1>1, <1>2 DEF Unchunked, Sanitize
<1>10. ReadSound(read, offsets)' /\ (resume \in Resumes)'
  BY <1>1, <1>2
<1>11. (Unchunked /\ resume \in Resumes /\ ReadSound(read, offsets) /\ TextKept
        /\ risk \in 0..100 /\ Sanitizing => TextIInv)'
  BY UnchunkedHolds, PTL
<1> QED BY <1>5, <1>7, <1>8, <1>9, <1>10, <1>11

\* What depends only on the text carries over to the next step if the text does.
LEMMA TextStays ==
  ASSUME TextIInv, UNCHANGED <<resume, read, offsets, kept, turn, risk>>,
         stage' = stage \/ (stage \in Sanitized /\ stage' \in Sanitized)
  PROVE  /\ (resume \in Resumes)' /\ ReadSound(read, offsets)' /\ TextKept' /\ (risk \in 0..100)'
         /\ Sanitizing'
         /\ \A some : ChunksSound(some)' <=> ChunksSound(some)
<1>1. WordsOf(kept)' = WordsOf(kept)
  BY DEF WordsOf
<1>2. TextKept'
  BY <1>1 DEF TextIInv, TextKept
<1>3. \A i : Offset(i)' = Offset(i)
  BY DEF Offset
<1>4. \A c : ChunkGood(c)' <=> ChunkGood(c)
  BY <1>1, <1>3 DEF ChunkGood
<1>5. ASSUME NEW some PROVE ChunksSound(some)' <=> ChunksSound(some)
  <2>1. \A i : OnHeadingLine(i)' <=> OnHeadingLine(i)
    BY <1>1 DEF OnHeadingLine, IsHeading, BreaksBefore
  <2>2. \A isParent : Covers(some, isParent)' <=> Covers(some, isParent)
    BY <1>1, <2>1 DEF Covers
  <2> QED BY <1>4, <2>2 DEF ChunksSound, Housed
<1>6. Sanitizing'
  <2>1. (Clean(kept, turn))' <=> Clean(kept', turn')
    BY CleanStays
  <2> QED BY <2>1 DEF TextIInv, Sanitizing, Unsanitized, Sanitized
<1> QED BY <1>2, <1>5, <1>6 DEF TextIInv

RanksHold ==
    /\ IsFiniteSet(Children) /\ Cardinality(Children) \in Nat
    /\ \A c \in Children : Rank(c) \in 1..Cardinality(Children) /\ Nth(Rank(c)) = c
    /\ \A n \in 1..Cardinality(Children) : Nth(n) \in Children /\ Rank(Nth(n)) = n

LEMMA RanksFollow == TextKept /\ ChunksSound(chunks) => RanksHold
BY RanksSound DEF ChunksSound, RanksHold

LEMMA ChunkHolds ==
  ASSUME TextIInv, Chunk
  PROVE  TextIInv'
<1>1. UNCHANGED <<resume, read, offsets, kept, turn, risk>> /\ vectors' = vectors /\ rows' = rows
  BY DEF Chunk
<1>a. stage \in Sanitized /\ stage' \in Sanitized
  BY DEF Chunk, Sanitized
<1>2. chunks = {} /\ vectors = <<>> /\ rows = {} /\ TextKept /\ PagesHold
  BY ReadMeans DEF TextIInv, Chunk, Indexing, RowsSound
<1>3. ChunksSound(chunks')
  <2>1. chunks' = chunks \/ chunks' = ChunkDocument
    BY DEF Chunk
  <2>2. ChunksSound(ChunkDocument)
    BY <1>2, DocumentSound DEF ChunksSound
  <2>3. ChunksSound(chunks)
    BY DEF TextIInv
  <2> QED BY <2>1, <2>2, <2>3
<1>4. ChunksSound(chunks)'
  BY <1>1, <1>a, <1>3, TextStays
<1>5. /\ stage' \in Sanitized /\ (chunks' # {} <=> stage' \in Indexing)
      /\ stage' # "indexed" /\ (stage' = "chunked" \/ stage' \notin Indexing)
  BY <1>2 DEF Chunk, Sanitized, Indexing
<1>6. VectorsSound'
  <2> DEFINE contents == [words : SUBSET kept', joined : BOOLEAN]
  <2> HIDE DEF contents
  <2>1. vectors' = <<>> /\ <<>> \in Seq(contents) /\ Len(<<>>) = 0
    BY <1>1, <1>2
  <2>2. Cardinality(Children') \in Nat
    <3>1. (TextKept /\ ChunksSound(chunks) => RanksHold)'
      BY RanksFollow, PTL
    <3>2. TextKept'
      BY <1>1, <1>a, TextStays
    <3> QED BY <1>4, <3>1, <3>2 DEF RanksHold
  <2>3. Embedded' \in Nat
    BY <2>2, TextAssumption DEF Embedded
  <2> QED BY <2>1, <2>3 DEF VectorsSound, contents
<1>7. RowsSound'
  BY <1>1, <1>2, <1>5 DEF RowsSound, RowsAligned
<1> QED BY <1>1, <1>a, <1>2, <1>4, <1>5, <1>6, <1>7, TextStays DEF TextIInv

LEMMA EmbedHolds ==
  ASSUME TextIInv, EmbedBatch
  PROVE  TextIInv'
<1> DEFINE k == Len(vectors)
           room == Embedded - k
           size == IF room < EMBED_BATCH_SIZE THEN room ELSE EMBED_BATCH_SIZE
           batch == [i \in 1..size |-> Content(Nth(k + i))]
           contents == [words : SUBSET kept, joined : BOOLEAN]
<1>1. /\ UNCHANGED <<resume, read, offsets, kept, turn, risk>>
      /\ stage = "chunked" /\ k < Embedded /\ chunks' = chunks /\ rows' = rows
  BY DEF EmbedBatch
<1>2. \/ vectors' = vectors \o batch /\ stage' = stage
      \/ vectors' = vectors \o Tail(batch) /\ stage' = "short"
      \/ vectors' = vectors /\ stage' = "unavailable"
  BY DEF EmbedBatch
<1>3. /\ TextKept /\ ChunksSound(chunks) /\ RanksHold /\ rows = {} /\ chunks # {}
      /\ vectors \in Seq(contents)
      /\ \A n \in 1..k : vectors[n] = Content(Nth(n))
  BY <1>1, RanksFollow DEF TextIInv, VectorsSound, RowsSound, Indexing
<1>4. Embedded \in Nat /\ Embedded <= Cardinality(Children) /\ k \in Nat
  <2>1. Cardinality(Children) \in Nat /\ MaxChildChunks \in Nat
    BY <1>3, TextAssumption DEF RanksHold
  <2>2. Embedded \in Nat /\ Embedded <= Cardinality(Children)
    BY <2>1 DEF Embedded
  <2>3. Len(vectors) \in Nat
    <3> HIDE DEF contents
    <3> QED BY <1>3
  <2> QED BY <2>2, <2>3
<1> HIDE DEF k
<1>5. size \in Nat /\ size >= 1 /\ k + size <= Embedded
  BY <1>1, <1>4, TextAssumption
<1> HIDE DEF size
<1>6. \A n \in 1..Embedded : Content(Nth(n)) \in contents
  <2> SUFFICES ASSUME NEW n \in 1..Embedded PROVE Content(Nth(n)) \in contents
    OBVIOUS
  <2> DEFINE c == Nth(n)
  <2>1. c \in Children
    <3>1. n \in 1..Cardinality(Children)
      <4> DEFINE m == Cardinality(Children)
      <4>1. m \in Nat /\ Embedded <= m
        BY <1>3, <1>4 DEF RanksHold
      <4> HIDE DEF m
      <4>2. n \in 1..m
        BY <1>4, <4>1
      <4> QED BY <4>2 DEF m
    <3> QED BY <1>3, <3>1 DEF RanksHold
  <2>2. c \in chunks
    BY <2>1 DEF Children
  <2>3. ChunkGood(c)
    BY <1>3, <2>2 DEF ChunksSound
  <2>4. c.words \subseteq kept /\ c.joined \in BOOLEAN
    BY <2>3 DEF ChunkGood, WordsOf
  <2> HIDE DEF c
  <2> QED BY <2>4 DEF Content, c
<1>7. \A i \in 1..size : k + i \in 1..Embedded
  BY <1>4, <1>5
<1>8. batch \in Seq(contents) /\ Len(batch) = size /\ \A i \in 1..size : batch[i] = Content(Nth(k + i))
  <2>1. batch \in [1..size -> contents]
    <3>1. \A i \in 1..size : Content(Nth(k + i)) \in contents
      BY <1>6, <1>7
    <3> HIDE DEF contents
    <3> QED BY <3>1
  <2> HIDE DEF contents
  <2>2. batch \in Seq(contents) /\ Len(batch) = size
    BY <1>5, <2>1
  <2> QED BY <2>2
<1> HIDE DEF contents, batch
<1>9. vectors' \in Seq(contents)
  <2>1. Tail(batch) \in Seq(contents)
    <3>1. batch # <<>>
      BY <1>5, <1>8
    <3> QED BY <1>8, <3>1
  <2>2. vectors \o batch \in Seq(contents) /\ vectors \o Tail(batch) \in Seq(contents)
    BY <1>3, <1>8, <2>1
  <2> QED BY <1>2, <1>3, <2>2
<1>10. ASSUME stage' = "chunked"
       PROVE  Len(vectors') <= Embedded /\ \A n \in 1..Len(vectors') : vectors'[n] = Content(Nth(n))
  <2>1. vectors' = vectors \o batch
    BY <1>2, <1>10
  <2>2. Len(vectors') = k + size
    <3>1. Len(vectors \o batch) = Len(vectors) + Len(batch)
      BY <1>3, <1>8
    <3> QED BY <2>1, <3>1, <1>8 DEF k
  <2>3. \A n \in 1..(k + size) : vectors'[n] = IF n <= k THEN vectors[n] ELSE batch[n - k]
    BY <2>1, <1>3, <1>8 DEF k
  <2>4. ASSUME NEW n \in 1..(k + size) PROVE vectors'[n] = Content(Nth(n))
    <3>1. n \in Nat /\ n >= 1 /\ n <= k + size
      BY <1>4, <1>5
    <3>2. CASE n <= k
      <4>1. n \in 1..k
        BY <3>1, <3>2, <1>4
      <4> QED BY <1>3, <2>3, <3>2, <4>1
    <3>3. CASE ~(n <= k)
      <4>1. n - k \in 1..size /\ k + (n - k) = n
        BY <1>4, <1>5, <3>1, <3>3
      <4> QED BY <1>8, <2>3, <3>3, <4>1
    <3> QED BY <3>2, <3>3
  <2> QED BY <1>5, <2>2, <2>4
<1>11. /\ stage' \in Sanitized /\ stage' \in Indexing /\ stage' # "indexed"
  BY <1>1, <1>2 DEF Sanitized, Indexing
<1>12. Embedded' = Embedded /\ \A n : Nth(n)' = Nth(n)
  BY <1>1 DEF Embedded, Children, Nth, Rank
<1>13. VectorsSound'
  <2>1. contents = [words : SUBSET kept', joined : BOOLEAN]
    BY <1>1 DEF contents
  <2> QED BY <1>9, <1>10, <1>12, <2>1 DEF VectorsSound
<1>14. RowsSound'
  BY <1>1, <1>3, <1>11 DEF RowsSound, RowsAligned
<1>a. stage \in Sanitized
  BY <1>1 DEF Sanitized
<1>15. ChunksSound(chunks)'
  BY <1>1, <1>a, <1>3, <1>11, TextStays
<1> QED BY <1>1, <1>a, <1>3, <1>11, <1>13, <1>14, <1>15, TextStays DEF TextIInv

LEMMA StoreHolds ==
  ASSUME TextIInv, StoreRows
  PROVE  TextIInv'
<1> DEFINE stored == {c \in chunks : c.isParent \/ Rank(c) <= Embedded}
           row(c) == [chunk |-> c, embedding |-> IF c.isParent THEN {} ELSE {vectors[Rank(c)]}]
<1>1. /\ UNCHANGED <<resume, read, offsets, kept, turn, risk>>
      /\ stage = "chunked" /\ stage' = "indexed" /\ Len(vectors) = Embedded
      /\ chunks' = chunks /\ vectors' = vectors /\ rows' = {row(c) : c \in stored}
  BY DEF StoreRows
<1>2. /\ TextKept /\ ChunksSound(chunks) /\ RanksHold /\ chunks # {}
      /\ \A n \in 1..Len(vectors) : vectors[n] = Content(Nth(n))
      /\ vectors \in Seq([words : SUBSET kept, joined : BOOLEAN])
  BY <1>1, RanksFollow DEF TextIInv, VectorsSound, Indexing
<1>3. ASSUME NEW c \in chunks
      PROVE  /\ c.isParent \in BOOLEAN
             /\ c.isParent \/ c \in Children
             /\ \E p \in chunks : p.isParent /\ p.family = c.family /\ c.words \subseteq p.words
  BY <1>2 DEF ChunksSound, ChunkGood, Children, Housed
<1>4. ASSUME NEW c \in Children
      PROVE  /\ Rank(c) <= Embedded <=> Rank(c) <= MaxChildChunks
             /\ Rank(c) \in Nat /\ Rank(c) >= 1 /\ Nth(Rank(c)) = c
  <2>1. Cardinality(Children) \in Nat /\ MaxChildChunks \in Nat
    BY <1>2, TextAssumption DEF RanksHold
  <2>2. Rank(c) \in 1..Cardinality(Children) /\ Nth(Rank(c)) = c
    BY <1>2 DEF RanksHold
  <2> DEFINE n == Cardinality(Children)
             m == Rank(c)
  <2>3. n \in Nat /\ m \in 1..n /\ Embedded = IF n > MaxChildChunks THEN MaxChildChunks ELSE n
    BY <2>1, <2>2 DEF Embedded
  <2> HIDE DEF n, m
  <2>4. /\ m <= Embedded <=> m <= MaxChildChunks
        /\ m \in Nat /\ m >= 1
    BY <2>1, <2>3
  <2> QED BY <2>2, <2>4 DEF m
<1>5. ASSUME NEW c \in stored
      PROVE  /\ row(c).chunk = c /\ c \in chunks
             /\ row(c).embedding = IF c.isParent THEN {} ELSE {Content(c)}
  <2>1. CASE c.isParent
    BY <2>1
  <2>2. CASE ~c.isParent
    <3>1. c \in Children /\ Rank(c) <= Embedded
      BY <2>2 DEF Children
    <3>2. Rank(c) \in 1..Len(vectors) /\ Nth(Rank(c)) = c
      <4> DEFINE m == Rank(c)
                 n == Len(vectors)
      <4>1. m \in Nat /\ m >= 1 /\ m <= n /\ Nth(m) = c
        BY <1>1, <1>4, <3>1
      <4>2. n \in Nat
        <5> DEFINE contents == [words : SUBSET kept, joined : BOOLEAN]
        <5>1. vectors \in Seq(contents)
          BY <1>2
        <5> HIDE DEF contents
        <5> QED BY <5>1
      <4> HIDE DEF m, n
      <4>3. m \in 1..n
        BY <4>1, <4>2
      <4> QED BY <4>1, <4>3 DEF m, n
    <3>3. vectors[Rank(c)] = Content(c)
      BY <1>2, <3>2
    <3> QED BY <2>2, <3>3
  <2> QED BY <2>1, <2>2
<1> HIDE DEF row
<1>6. \A r \in rows' : r.chunk \in chunks
                       /\ r.embedding = IF r.chunk.isParent THEN {} ELSE {Content(r.chunk)}
  <2> SUFFICES ASSUME NEW r \in rows'
               PROVE  /\ r.chunk \in chunks
                      /\ r.embedding = IF r.chunk.isParent THEN {} ELSE {Content(r.chunk)}
    OBVIOUS
  <2> HIDE DEF stored
  <2>1. PICK c \in stored : r = row(c)
    BY <1>1
  <2>2. r.chunk = c /\ c \in chunks /\ r.embedding = IF c.isParent THEN {} ELSE {Content(c)}
    BY <1>5, <2>1
  <2> QED BY <2>2
<1>7. {r.chunk : r \in rows'} = {c \in chunks : c.isParent \/ Rank(c) <= MaxChildChunks}
  <2>1. \A c : c \in stored <=> c \in {d \in chunks : d.isParent \/ Rank(d) <= MaxChildChunks}
    <3> SUFFICES ASSUME NEW c \in chunks
                 PROVE  c.isParent \/ Rank(c) <= Embedded <=> c.isParent \/ Rank(c) <= MaxChildChunks
      OBVIOUS
    <3> QED BY <1>3, <1>4
  <2> HIDE DEF stored
  <2>2. ASSUME NEW c \in stored PROVE c \in {r.chunk : r \in rows'}
    <3>1. row(c) \in rows' /\ row(c).chunk = c
      BY <1>1, <1>5
    <3> QED BY <3>1
  <2>3. ASSUME NEW r \in rows' PROVE r.chunk \in stored
    <3>1. PICK c \in stored : r = row(c)
      BY <1>1
    <3> QED BY <1>5, <3>1
  <2> QED BY <2>1, <2>2, <2>3
<1>8. ASSUME NEW r \in rows'
      PROVE  \E s \in rows' : /\ s.chunk.isParent /\ s.chunk.family = r.chunk.family
                              /\ r.chunk.words \subseteq s.chunk.words
  <2>1. r.chunk \in chunks
    BY <1>6
  <2>2. PICK p \in chunks : p.isParent /\ p.family = r.chunk.family /\ r.chunk.words \subseteq p.words
    BY <1>3, <2>1
  <2>3. p \in stored
    BY <2>2
  <2>4. row(p) \in rows' /\ row(p).chunk = p
    BY <1>1, <1>5, <2>3
  <2> QED BY <2>2, <2>4
<1>9. rows' # {}
  <2>1. PICK c \in chunks : TRUE
    BY <1>2
  <2>2. PICK p \in chunks : p.isParent
    BY <1>3
  <2>3. p \in stored
    BY <2>2
  <2> QED BY <1>1, <2>3
<1>10. /\ stage' \in Sanitized /\ stage' \in Indexing /\ stage' # "chunked"
  BY <1>1 DEF Sanitized, Indexing
<1>11. \A c : Rank(c)' = Rank(c)
  BY <1>1 DEF Children, Rank
<1> HIDE DEF stored
<1>12. RowsAligned'
  BY <1>1, <1>6, <1>7, <1>8, <1>11 DEF RowsAligned
<1>13. RowsSound'
  BY <1>1, <1>6, <1>9, <1>12 DEF RowsSound
<1>14. VectorsSound'
  BY <1>1, <1>2, <1>10 DEF VectorsSound
<1>a. stage \in Sanitized
  BY <1>1 DEF Sanitized
<1>15. ChunksSound(chunks)'
  BY <1>1, <1>a, <1>2, <1>10, TextStays
<1> QED BY <1>1, <1>a, <1>2, <1>10, <1>13, <1>14, <1>15, TextStays DEF TextIInv

LEMMA TextStutters ==
  ASSUME TextIInv, UNCHANGED textVars
  PROVE  TextIInv'
<1>1. /\ UNCHANGED <<resume, read, offsets, kept, turn, risk>> /\ chunks' = chunks
      /\ stage' = stage /\ vectors' = vectors /\ rows' = rows
  BY DEF textVars
<1>2. ChunksSound(chunks)'
  BY <1>1, TextStays DEF TextIInv
<1>3. \A c : Rank(c)' = Rank(c) /\ Embedded' = Embedded /\ \A n : Nth(n)' = Nth(n)
  BY <1>1 DEF Children, Rank, Embedded, Nth
<1>4. VectorsSound'
  BY <1>1, <1>3 DEF TextIInv, VectorsSound
<1>5. RowsSound'
  BY <1>1, <1>3 DEF TextIInv, RowsSound, RowsAligned
<1> QED BY <1>1, <1>2, <1>4, <1>5, TextStays DEF TextIInv

LEMMA TextInvariant == TextSpec => []TextIInv
<1>1. TextInit => TextIInv
  BY InitHolds
<1>2. TextIInv /\ [TextNext]_textVars => TextIInv'
  <2> SUFFICES ASSUME TextIInv, [TextNext]_textVars PROVE TextIInv'
    OBVIOUS
  <2>1. CASE Parse
    BY <2>1, ParseHolds
  <2>2. CASE OcrFallback
    BY <2>2, OcrHolds
  <2>3. CASE Sanitize
    BY <2>3, SanitizeHolds
  <2>8. CASE StartSanitizing
    BY <2>8, StartHolds
  <2>9. CASE SanitizeSpan
    BY <2>9, SpanHolds
  <2>4. CASE Chunk
    BY <2>4, ChunkHolds
  <2>5. CASE EmbedBatch
    BY <2>5, EmbedHolds
  <2>6. CASE StoreRows
    BY <2>6, StoreHolds
  <2>7. CASE UNCHANGED textVars
    BY <2>7, TextStutters
  <2> QED BY <2>1, <2>2, <2>3, <2>4, <2>5, <2>6, <2>7, <2>8, <2>9 DEF TextNext
<1> QED BY <1>1, <1>2, PTL DEF TextSpec

-----------------------------------------------------------------------------
(* What it means for evidence and for hidden text. *)

\* The state of the text is what the rest of the service relies on: what is
\* kept comes from what was read, a chunk has text and is not empty, and there
\* are rows exactly when the version is indexed.
THEOREM TextTyped == TextSpec => []TextTypeOK
<1>1. TextIInv => TextTypeOK
  <2> SUFFICES ASSUME TextIInv PROVE TextTypeOK
    OBVIOUS
  <2>1. resume.media \in {"pdf", "docx"}
    BY TextAssumption DEF TextIInv
  <2>2. kept \subseteq DOMAIN read
    BY DEF TextIInv, TextKept
  <2>3. \A c \in chunks : c.words \subseteq kept /\ c.start < c.end
    BY DEF TextIInv, ChunksSound, ChunkGood, WordsOf
  <2>4. stage \in {"uploaded", "unreadable", "parsed", "read", "sanitizing"} \cup Sanitized
    BY DEF TextIInv, Unsanitized
  <2> QED BY <2>1, <2>2, <2>3, <2>4 DEF TextIInv, Sanitizing, RowsSound, TextTypeOK
<1> QED BY <1>1, TextInvariant, PTL

\* Whatever documents are uploaded and whatever the targets, the cap and the
\* batch size: the chunks of a version cover its sanitized text in order and lose
\* only short lines that begin like a heading, neither their offsets nor their
\* pages run ahead of the words they hold, and each stored row has the vector of
\* its own content and a parent around it (chunk_document, index_resume_version).
THEOREM EvidenceIsTraceable == TextSpec => []EvidenceTraceable
<1>1. TextIInv => EvidenceTraceable
  <2> SUFFICES ASSUME TextIInv PROVE EvidenceTraceable
    OBVIOUS
  <2>1. ChunksCoverText
    <3> SUFFICES ASSUME chunks # {}, NEW parents \in BOOLEAN
                 PROVE  LET some == {c \in chunks : c.isParent = parents} IN
            /\ {i \in WordsOf(kept) : ~OnHeadingLine(i)} \subseteq UNION {c.words : c \in some}
            /\ \A c \in some : c.words # {} /\ c.words \subseteq WordsOf(kept)
            /\ \A c, d \in some : c = d \/ EndsBefore(c.words, d.words) \/ EndsBefore(d.words, c.words)
      BY DEF ChunksCoverText
    <3>1. Covers(chunks, parents)
      <4>1. Covers(chunks, TRUE) /\ Covers(chunks, FALSE)
        BY DEF TextIInv, ChunksSound
      <4>2. parents = TRUE \/ parents = FALSE
        OBVIOUS
      <4> QED BY <4>1, <4>2
    <3> QED BY <3>1 DEF Covers
  <2>2. OffsetsNeverLate
    BY DEF TextIInv, ChunksSound, ChunkGood, OffsetsNeverLate
  <2>3. PagesNeverLate
    BY DEF TextIInv, ChunksSound, ChunkGood, PagesNeverLate
  <2> QED BY <2>1, <2>2, <2>3 DEF TextIInv, RowsSound, EvidenceTraceable
<1> QED BY <1>1, TextInvariant, PTL

\* Whatever a PDF hides, in whichever of the three ways, however many words long
\* and however its spans overlap: no place of a hidden text outlives sanitizing
\* whole, in the text, a chunk, a vector or a row, whether it was parsed or read by
\* OCR; nothing at all of it does where it repeats no word and shares none with
\* another hidden text; and the words of no hidden text are all still there
\* (sanitize_document).
THEOREM HiddenStaysOut == TextSpec => []HiddenNeverIndexed
<1>1. TextIInv => HiddenNeverIndexed
  <2> SUFFICES ASSUME TextIInv, resume.media = "pdf" PROVE HiddenNeverIndexed
    BY DEF HiddenNeverIndexed
  <2>1. \A c \in chunks : c.words \subseteq kept
    BY DEF TextIInv, ChunksSound, ChunkGood, WordsOf
  <2>2. \A n \in DOMAIN vectors : vectors[n].words \subseteq kept
    <3> DEFINE contents == [words : SUBSET kept, joined : BOOLEAN]
    <3>1. vectors \in Seq(contents)
      BY DEF TextIInv, VectorsSound
    <3>2. \A v \in contents : v.words \subseteq kept
      OBVIOUS
    <3> HIDE DEF contents
    <3>3. \A n \in DOMAIN vectors : vectors[n] \in contents
      BY <3>1
    <3> QED BY <3>2, <3>3
  <2>3. \A r \in rows : r.chunk.words \subseteq kept
    BY <2>1 DEF TextIInv, RowsSound
  <2> DEFINE texts == {kept} \cup {c.words : c \in chunks}
                      \cup {vectors[n].words : n \in DOMAIN vectors}
                      \cup {r.chunk.words : r \in rows}
             shown == UNION texts
  <2>4. shown \subseteq kept
    <3>1. \A T \in texts : T \subseteq kept
      BY <2>1, <2>2, <2>3
    <3> HIDE DEF texts
    <3> QED BY <3>1
  <2> HIDE DEF texts
  <2>5. ASSUME stage \in Sanitized
        PROVE  /\ \A t \in HiddenTexts, i \in DOMAIN read : OccursAt(t, i) =>
                     /\ ~(PlaceWords(t, i) \subseteq shown)
                     /\ Alone(t) => PlaceWords(t, i) \cap shown = {}
               /\ \A i \in WordsOf(DOMAIN read) :
                     i \in kept \/ \E t \in HiddenTexts : read[i] \in Words(t)
    <3>1. /\ resume \in Resumes /\ TextRead /\ Clean(kept, turn)
          /\ turn > Len(resume.spans) /\ turn \in Nat
      <4>1. StyledSpans(resume) = resume.spans
        BY HiddenSound DEF TextIInv
      <4>2. stage \notin Unsanitized
        BY <2>5 DEF Sanitized, Unsanitized
      <4> QED BY <2>5, <4>1, <4>2, ReadMeans DEF TextIInv, Sanitizing
    <3> SUFFICES ASSUME NEW t \in HiddenTexts, NEW i \in DOMAIN read, OccursAt(t, i)
                 PROVE  /\ ~(PlaceWords(t, i) \subseteq shown)
                        /\ Alone(t) => PlaceWords(t, i) \cap shown = {}
      BY <3>1 DEF Clean
    <3>2. PICK k \in Hiding : t = HiddenText(k)
      BY <3>1, HiddenSound
    <3>3. Undone(kept, turn, k, i)
      BY <3>1, <3>2 DEF Clean
    <3>4. k < turn
      <4>1. k \in 1..Len(resume.spans) /\ Len(resume.spans) \in Nat
        BY <3>1, HiddenSound DEF Hiding
      <4> QED BY <3>1, <4>1
    <3>5. Lost(kept, t, i) /\ (Alone(t) => Gone(kept, t, i) \/ Whole(kept, t, i))
      BY <3>2, <3>3, <3>4 DEF Undone
    <3>6. ~Whole(kept, t, i)
      BY <3>1, <3>5, LostIsNotWhole
    <3> HIDE DEF shown
    <3> QED BY <2>4, <3>5, <3>6 DEF Lost, Gone
  <2> HIDE DEF shown
  <2> QED BY <2>5 DEF HiddenNeverIndexed, shown, texts
<1> QED BY <1>1, TextInvariant, PTL
=============================================================================
