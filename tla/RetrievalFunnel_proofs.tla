----------------------- MODULE RetrievalFunnel_proofs -----------------------
(***************************************************************************)
(* What the evidence of the judge and the searches promise, for every      *)
(* library and whatever is near, matches or is reranked, with any windows: *)
(*                                                                         *)
(*   - sorting, limits, fusion and the sums over spans, as lemmas;         *)
(*   - the invariant, which says what was recalled and what the answer was *)
(*     made of, and the step of each action;                               *)
(*   - the four parts of RetrievalSound.                                   *)
(***************************************************************************)
EXTENDS RetrievalFunnel, Orders_proofs

-----------------------------------------------------------------------------
(* Lists without repetition.                                               *)

Lists(T) == {s \in Seq(T) : IsInjective(s)}

\* The place of a member of a list is where it stands.
LEMMA Standing ==
  ASSUME NEW T, NEW s \in Lists(T)
  PROVE  /\ \A c \in ToSet(s) : Place(c, s) \in 1..Len(s) /\ s[Place(c, s)] = c
         /\ \A i \in 1..Len(s) : s[i] \in ToSet(s) /\ Place(s[i], s) = i
         /\ ToSet(s) \subseteq T
         /\ Len(s) \in Nat /\ DOMAIN s = 1..Len(s)
<1>1. s \in Seq(T) /\ IsInjective(s) /\ Len(s) \in Nat /\ DOMAIN s = 1..Len(s)
  BY DEF Lists
<1>2. \A c \in ToSet(s) : \E i \in DOMAIN s : s[i] = c
  BY DEF ToSet
<1>3. \A c \in ToSet(s) : Place(c, s) \in DOMAIN s /\ s[Place(c, s)] = c
  BY <1>2 DEF Place
<1>4. \A i \in DOMAIN s : s[i] \in ToSet(s)
  BY DEF ToSet
<1>5. \A i, j \in DOMAIN s : s[i] = s[j] => i = j
  BY <1>1 DEF IsInjective
<1>6. \A i \in DOMAIN s : Place(s[i], s) = i
  BY <1>3, <1>4, <1>5
<1>7. ToSet(s) \subseteq T
  BY <1>1 DEF ToSet
<1> QED BY <1>1, <1>3, <1>4, <1>6, <1>7

\* What a limit leaves of a list.
LEMMA FirstsAre ==
  ASSUME NEW T, NEW s \in Lists(T), NEW k \in Nat
  PROVE  /\ Firsts(k, s) \in Lists(T)
         /\ Len(Firsts(k, s)) = Least(k, Len(s))
         /\ Least(k, Len(s)) \in 0..Len(s) /\ Least(k, Len(s)) <= k
         /\ \A i \in 1..Least(k, Len(s)) : Firsts(k, s)[i] = s[i]
         /\ ToSet(Firsts(k, s)) \subseteq ToSet(s)
<1> DEFINE n == Least(k, Len(s))
           f == Firsts(k, s)
<1>1. s \in Seq(T) /\ IsInjective(s) /\ Len(s) \in Nat /\ DOMAIN s = 1..Len(s)
  BY DEF Lists
<1>2. n \in Nat /\ n <= Len(s) /\ n <= k
  BY <1>1 DEF Least
<1>3. f = SubSeq(s, 1, n)
  BY DEF Firsts
<1>4. f = [i \in 1..n |-> s[i]]
  BY <1>1, <1>2, <1>3
<1> HIDE DEF f, n
<1>5. f \in Seq(T) /\ Len(f) = n /\ DOMAIN f = 1..n /\ \A i \in 1..n : f[i] = s[i]
  BY <1>1, <1>2, <1>4
<1>6. IsInjective(f)
  BY <1>1, <1>2, <1>5 DEF IsInjective
<1>7. ToSet(f) \subseteq ToSet(s)
  BY <1>1, <1>2, <1>5 DEF ToSet
<1>8. n \in 0..Len(s)
  BY <1>1, <1>2
<1> QED BY <1>2, <1>5, <1>6, <1>7, <1>8 DEF f, n, Lists

-----------------------------------------------------------------------------
(* Sorting.                                                                *)

Preceding(S, value, rank, c) == {d \in S : Ahead(value, rank, d, c)}

\* Values and ranks by which a set can be sorted.
Sortable(S, value, rank) ==
  /\ IsFiniteSet(S)
  /\ \A c \in S : value[c] \in Int /\ rank[c] \in Int
  /\ \A c, d \in S : rank[c] = rank[d] => c = d

\* A sorted list has every member once, each behind those that precede it.
LEMMA Sorting ==
  ASSUME NEW S, NEW value, NEW rank, Sortable(S, value, rank)
  PROVE  LET s == Descending(S, value, rank)
         IN  /\ s \in Lists(S)
             /\ Len(s) = Cardinality(S) /\ Cardinality(S) \in Nat
             /\ ToSet(s) = S
             /\ \A c \in S : Place(c, s) = 1 + Cardinality(Preceding(S, value, rank, c))
             /\ \A c, d \in S : Ahead(value, rank, c, d) <=> Place(c, s) < Place(d, s)
<1> DEFINE n == Cardinality(S)
           before == {p \in S \X S : Ahead(value, rank, p[1], p[2])}
           place == [c \in S |-> Cardinality({d \in S : <<d, c>> \in before})]
           s == Descending(S, value, rank)
<1>1. IsFiniteSet(S) /\ n \in Nat
  BY FS_CardinalityType DEF Sortable
<1>2. \A c, d \in S : <<c, d>> \in before <=> Ahead(value, rank, c, d)
  OBVIOUS
<1>3. /\ \A c \in S : ~Ahead(value, rank, c, c)
      /\ \A c, d, e \in S : Ahead(value, rank, c, d) /\ Ahead(value, rank, d, e)
                              => Ahead(value, rank, c, e)
      /\ \A c, d \in S : c # d => Ahead(value, rank, c, d) \/ Ahead(value, rank, d, c)
  BY DEF Ahead, Sortable
<1> HIDE DEF before
<1>4. /\ \A c \in S : <<c, c>> \notin before
      /\ \A c, d, e \in S : <<c, d>> \in before /\ <<d, e>> \in before => <<c, e>> \in before
      /\ \A c, d \in S : c # d => <<c, d>> \in before \/ <<d, c>> \in before
  BY <1>2, <1>3
<1>5. \A c \in S : {d \in S : <<d, c>> \in before} = Preceding(S, value, rank, c)
  BY <1>2 DEF Preceding
<1>6. \A c \in S : place[c] = Cardinality(Preceding(S, value, rank, c))
  BY <1>5
<1> HIDE DEF place
<1>7. /\ place \in Bijection(S, 0..(n - 1))
      /\ \A c, d \in S : <<c, d>> \in before <=> place[c] < place[d]
  <2> HIDE DEF n
  <2> QED BY <1>1, <1>4, Places DEF place, n
<1> HIDE DEF n
<1>8. /\ \A c \in S : place[c] \in 0..(n - 1)
      /\ \A c, d \in S : place[c] = place[d] => c = d
      /\ \A k \in 0..(n - 1) : \E c \in S : place[c] = k
  BY <1>7 DEF Bijection, Injection, IsInjective, Surjection
<1>9. s = [i \in 1..n |-> CHOOSE c \in S : place[c] = i - 1]
  BY <1>6 DEF Descending, Preceding, n
<1>10. \A i \in 1..n : (CHOOSE c \in S : place[c] = i - 1) \in S
                       /\ place[CHOOSE c \in S : place[c] = i - 1] = i - 1
  <2> TAKE i \in 1..n
  <2>1. i - 1 \in 0..(n - 1)
    BY <1>1
  <2>2. \E c \in S : place[c] = i - 1
    BY <1>8, <2>1
  <2> QED BY <2>2
<1> HIDE DEF s
<1>11. /\ s \in Seq(S) /\ Len(s) = n /\ DOMAIN s = 1..n
       /\ \A i \in 1..n : s[i] \in S /\ place[s[i]] = i - 1
  BY <1>1, <1>9, <1>10
<1>12. \A c \in S : 1 + place[c] \in 1..n /\ s[1 + place[c]] = c
  <2> TAKE c \in S
  <2>1. place[c] \in 0..(n - 1) /\ 1 + place[c] \in 1..n
    BY <1>1, <1>8
  <2>2. place[s[1 + place[c]]] = (1 + place[c]) - 1 /\ s[1 + place[c]] \in S
    BY <1>11, <2>1
  <2>3. place[s[1 + place[c]]] = place[c]
    BY <2>1, <2>2
  <2> QED BY <1>8, <2>1, <2>2, <2>3
<1>13. ToSet(s) = S
  BY <1>11, <1>12 DEF ToSet
<1>14. IsInjective(s)
  <2> SUFFICES ASSUME NEW i \in 1..n, NEW j \in 1..n, s[i] = s[j] PROVE i = j
    BY <1>11 DEF IsInjective
  <2>1. i - 1 = j - 1
    BY <1>11
  <2> QED BY <1>1, <2>1
<1>15. s \in Lists(S)
  BY <1>11, <1>14 DEF Lists
<1>16. \A c \in S : Place(c, s) = 1 + place[c]
  <2> TAKE c \in S
  <2>1. Place(s[1 + place[c]], s) = 1 + place[c]
    BY <1>11, <1>12, <1>15, Standing
  <2> QED BY <1>12, <2>1
<1>17. \A c, d \in S : Ahead(value, rank, c, d) <=> Place(c, s) < Place(d, s)
  <2> TAKE c \in S, d \in S
  <2>1. place[c] \in Int /\ place[d] \in Int
    BY <1>8
  <2>2. place[c] < place[d] <=> Place(c, s) < Place(d, s)
    BY <1>16, <2>1
  <2>3. <<c, d>> \in before <=> Ahead(value, rank, c, d)
    BY <1>2
  <2>4. <<c, d>> \in before <=> place[c] < place[d]
    BY <1>7
  <2> QED BY <2>2, <2>3, <2>4, Zenon
<1> QED BY <1>1, <1>6, <1>11, <1>13, <1>15, <1>16, <1>17 DEF s, n

-----------------------------------------------------------------------------
(* Fusion and reranking.                                                   *)

LEMMA Chunks ==
  /\ IsFiniteSet(ChunkIds)
  /\ \A c \in ChunkIds : c \in Nat /\ c # 0 /\ ResumeOf[c] \in Library
  /\ \A k \in {STAGE1_RECALL_K, STAGE2_RERANK_TOPK, SearchRecall, SearchRerank, TopK, MaxSpans,
               MaxStored} : k \in Nat /\ k >= 1
BY RetrievalAssumption

\* What is sorted by a value in the order of a list, is sortable.
LEMMA ByPlace ==
  ASSUME NEW T, NEW s \in Lists(T), NEW S, S \subseteq ToSet(s),
         NEW value, \A c \in S : value[c] \in Int, IsFiniteSet(T)
  PROVE  Sortable(S, value, [c \in S |-> Place(c, s)])
<1>1. IsFiniteSet(S)
  BY Standing, FS_Subset
<1>2. \A c \in S : Place(c, s) \in 1..Len(s) /\ s[Place(c, s)] = c /\ Len(s) \in Nat
  BY Standing
<1> QED BY <1>1, <1>2 DEF Sortable

LEMMA Quotients ==
  ASSUME NEW a \in Nat, NEW m \in Nat, NEW n \in Nat, 0 < m, m <= n
  PROVE  a \div m \in Nat /\ a \div n \in Nat /\ a \div n <= a \div m
<1> DEFINE p == a \div m
           q == a \div n
<1>1. p \in Nat /\ q \in Nat /\ a < (p + 1) * m /\ q * n <= a
  OBVIOUS
<1> HIDE DEF p, q
<1>2. SUFFICES ASSUME p + 1 <= q PROVE FALSE
  BY <1>1 DEF p, q
<1>3. (p + 1) * m <= (p + 1) * n
  BY <1>1
<1>4. (p + 1) * n <= q * n
  BY <1>1, <1>2
<1>5. (p + 1) * m \in Nat /\ (p + 1) * n \in Nat /\ q * n \in Nat
  BY <1>1
<1> QED BY <1>1, <1>3, <1>4, <1>5

\* A chunk found before another has no smaller share.
LEMMA Shares ==
  ASSUME NEW T, NEW s \in Lists(T), NEW weight \in Nat, NEW c, NEW d
  PROVE  /\ Share(weight, c, s) \in Nat
         /\ (c \in ToSet(s) => d \in ToSet(s) /\ Place(d, s) < Place(c, s))
              => Share(weight, c, s) <= Share(weight, d, s)
<1> DEFINE part(x) == Unit \div (60 + Place(x, s))
<1>1. Unit \in Nat
  BY DEF Unit
<1>2. \A x \in ToSet(s) : Place(x, s) \in Nat /\ 60 + Place(x, s) \in Nat /\ 60 + Place(x, s) > 0
  BY Standing
<1>3. \A x \in ToSet(s) : part(x) \in Nat
  <2> HIDE DEF Unit
  <2> QED BY <1>1, <1>2, Quotients
<1>4. ASSUME c \in ToSet(s), d \in ToSet(s), Place(d, s) < Place(c, s)
      PROVE  part(c) <= part(d)
  <2>1. 60 + Place(d, s) <= 60 + Place(c, s)
    BY <1>2, <1>4
  <2> HIDE DEF Unit
  <2> QED BY <1>1, <1>2, <1>4, <2>1, Quotients
<1> HIDE DEF part
<1>5. \A x : Share(weight, x, s) = IF x \in ToSet(s) THEN weight * part(x) ELSE 0
  BY DEF Share, part
<1>6. \A x \in ToSet(s) : weight * part(x) \in Nat
  BY <1>3
<1>7. \A x : Share(weight, x, s) \in Nat
  BY <1>5, <1>6
<1>8. ASSUME c \in ToSet(s), d \in ToSet(s), Place(d, s) < Place(c, s)
      PROVE  weight * part(c) <= weight * part(d)
  BY <1>3, <1>4, <1>8
<1> QED BY <1>5, <1>6, <1>7, <1>8

\* Fusion keeps what was found, once, and puts no chunk before one that was found
\* wherever it was, and there before it.
LEMMA Fusing ==
  ASSUME NEW d \in Lists(ChunkIds), NEW l \in Lists(ChunkIds)
  PROVE  /\ Fused(d, l) \in Lists(ChunkIds)
         /\ ToSet(Fused(d, l)) = ToSet(d) \cup ToSet(l)
         /\ Len(Fused(d, l)) = Cardinality(ToSet(d) \cup ToSet(l))
         /\ \A c, e \in ToSet(d) \cup ToSet(l) :
              (\A s \in {d, l} : c \in ToSet(s) => e \in ToSet(s) /\ Place(e, s) < Place(c, s))
                => Place(e, Fused(d, l)) < Place(c, Fused(d, l))
<1> DEFINE found == ToSet(d) \cup ToSet(l)
           value == [c \in found |-> Share(3, c, d) + Share(2, c, l)]
           rank == [c \in found |-> IF c \in ToSet(d) THEN Place(c, d) ELSE Len(d) + Place(c, l)]
<1>1. found \subseteq ChunkIds /\ IsFiniteSet(found)
  BY Standing, Chunks, FS_Subset
<1>2. \A c \in found : Share(3, c, d) \in Nat /\ Share(2, c, l) \in Nat /\ value[c] \in Int
  BY Shares
<1>3. \A c \in ToSet(d) : Place(c, d) \in 1..Len(d) /\ d[Place(c, d)] = c /\ Len(d) \in Nat
  BY Standing
<1>4. \A c \in ToSet(l) : Place(c, l) \in 1..Len(l) /\ l[Place(c, l)] = c /\ Len(l) \in Nat
  BY Standing
<1>5. Len(d) \in Nat
  BY Standing
<1>6. \A c \in found : rank[c] \in Int
  BY <1>3, <1>4, <1>5
<1>7. ASSUME NEW c \in found, NEW e \in found, rank[c] = rank[e] PROVE c = e
  BY <1>3, <1>4, <1>5, <1>7
<1> HIDE DEF found
<1>8. Sortable(found, value, rank)
  BY <1>1, <1>2, <1>6, <1>7 DEF Sortable
<1>9. Fused(d, l) = Descending(found, value, rank)
  BY DEF Fused, found
<1>10. ASSUME NEW c \in found, NEW e \in found,
              \A s \in {d, l} : c \in ToSet(s) => e \in ToSet(s) /\ Place(e, s) < Place(c, s)
       PROVE  Ahead(value, rank, e, c)
  <2>1. c \in ToSet(d) \/ c \in ToSet(l)
    BY DEF found
  <2>2. Share(3, c, d) <= Share(3, e, d) /\ Share(2, c, l) <= Share(2, e, l)
    BY <1>10, Shares
  <2>3. value[c] <= value[e] /\ value[c] \in Int /\ value[e] \in Int
    <3>1. Share(3, c, d) \in Nat /\ Share(2, c, l) \in Nat /\ Share(3, e, d) \in Nat /\ Share(2, e, l) \in Nat
      BY <1>2
    <3> QED BY <2>2, <3>1
  <2>4. rank[e] < rank[c]
    BY <1>3, <1>4, <1>5, <1>10, <2>1
  <2> QED BY <2>3, <2>4 DEF Ahead
<1> HIDE DEF value, rank
<1>11. /\ Fused(d, l) \in Lists(found) /\ Len(Fused(d, l)) = Cardinality(found)
       /\ ToSet(Fused(d, l)) = found
       /\ \A c, e \in found : Ahead(value, rank, c, e) <=> Place(c, Fused(d, l)) < Place(e, Fused(d, l))
  BY <1>8, <1>9, Sorting
<1>12. Fused(d, l) \in Lists(ChunkIds)
  BY <1>1, <1>11 DEF Lists
<1> QED BY <1>10, <1>11, <1>12 DEF found

-----------------------------------------------------------------------------
(* Sums.                                                                   *)

Units(value, S, sign) == UNION {{i} \X (1..(sign * value[i])) : i \in S}

LEMMA UnitsAre ==
  ASSUME NEW value, NEW S, IsFiniteSet(S), NEW sign \in {1, -1},
         \A i \in S : value[i] \in Int
  PROVE  /\ IsFiniteSet(Units(value, S, sign))
         /\ Cardinality(Units(value, S, sign)) \in Nat
         /\ \A u : u \in Units(value, S, sign) <=>
                     \E i \in S : \E k \in 1..(sign * value[i]) : u = <<i, k>>
<1> DEFINE part(i) == {i} \X (1..(sign * value[i]))
           parts == {part(i) : i \in S}
           f == [i \in S |-> part(i)]
<1>1. \A i \in S : IsFiniteSet(part(i))
  <2> TAKE i \in S
  <2>1. sign * value[i] \in Int
    OBVIOUS
  <2> DEFINE top == sign * value[i]
  <2> HIDE DEF top
  <2>2. top \in Int
    BY <2>1 DEF top
  <2>3. IsFiniteSet(1..top)
    BY <2>2, 1 \in Int, FS_Interval
  <2>4. IsFiniteSet({i})
    BY FS_Singleton
  <2>5. IsFiniteSet({i} \X (1..top))
    BY <2>3, <2>4, FS_Product
  <2> QED BY <2>5 DEF top
<1>2. f \in Surjection(S, parts)
  BY DEF Surjection
<1>3. IsFiniteSet(parts)
  BY <1>2, FS_Surjection
<1>4. \A T \in parts : IsFiniteSet(T)
  BY <1>1
<1>5. Units(value, S, sign) = UNION parts
  BY DEF Units
<1>6. IsFiniteSet(UNION parts)
  <2> HIDE DEF parts
  <2> QED BY <1>3, <1>4, FS_UNION
<1>7. \A u : u \in Units(value, S, sign) <=>
                \E i \in S : \E k \in 1..(sign * value[i]) : u = <<i, k>>
  BY DEF Units
<1> QED BY <1>5, <1>6, <1>7, FS_CardinalityType

LEMMA SumType ==
  ASSUME NEW value, NEW S, IsFiniteSet(S), \A i \in S : value[i] \in Int
  PROVE  Sum(value, S) \in Int
<1>1. Sum(value, S) = Cardinality(Units(value, S, 1)) - Cardinality(Units(value, S, -1))
  BY DEF Sum, Units
<1>2. Cardinality(Units(value, S, 1)) \in Nat /\ Cardinality(Units(value, S, -1)) \in Nat
  BY UnitsAre
<1> QED BY <1>1, <1>2

\* A sum does not shrink if every number has one in it that is as great, each a different one.
LEMMA SumGrows ==
  ASSUME NEW v, NEW S, IsFiniteSet(S), \A i \in S : v[i] \in Nat,
         NEW w, NEW T, IsFiniteSet(T), \A i \in T : w[i] \in Nat,
         NEW m \in Injection(S, T), \A i \in S : v[i] <= w[m[i]]
  PROVE  Sum(v, S) <= Sum(w, T)
<1>1. \A x \in Nat : 1..(-1 * x) = {} /\ 1 * x = x
  OBVIOUS
<1>2. Units(v, S, -1) = {} /\ Units(w, T, -1) = {}
  <2>1. \A i \in S : {i} \X (1..(-1 * v[i])) = {}
    BY <1>1
  <2>2. \A i \in T : {i} \X (1..(-1 * w[i])) = {}
    BY <1>1
  <2> QED BY <2>1, <2>2 DEF Units
<1> DEFINE A == Units(v, S, 1)
           B == Units(w, T, 1)
<1>3. /\ IsFiniteSet(A) /\ IsFiniteSet(B)
      /\ Cardinality(A) \in Nat /\ Cardinality(B) \in Nat
      /\ \A u : u \in A <=> \E i \in S : \E k \in 1..(1 * v[i]) : u = <<i, k>>
      /\ \A u : u \in B <=> \E i \in T : \E k \in 1..(1 * w[i]) : u = <<i, k>>
  <2>1. (\A i \in S : v[i] \in Int) /\ (\A i \in T : w[i] \in Int) /\ 1 \in {1, -1}
    OBVIOUS
  <2> QED BY <2>1, UnitsAre
<1>4. /\ \A i \in S : m[i] \in T
      /\ \A i, j \in S : m[i] = m[j] => i = j
  BY DEF Injection, IsInjective
<1>5. Sum(v, S) = Cardinality(A) /\ Sum(w, T) = Cardinality(B)
  <2>1. /\ Sum(v, S) = Cardinality(A) - Cardinality(Units(v, S, -1))
        /\ Sum(w, T) = Cardinality(B) - Cardinality(Units(w, T, -1))
    BY DEF Sum, Units
  <2>2. Cardinality(Units(v, S, -1)) = 0 /\ Cardinality(Units(w, T, -1)) = 0
    BY <1>2, FS_EmptySet
  <2> HIDE DEF A, B
  <2> QED BY <1>3, <2>1, <2>2
<1> HIDE DEF A, B
<1> DEFINE g == [u \in A |-> <<m[u[1]], u[2]>>]
<1>6. ASSUME NEW u \in A
      PROVE  u[1] \in S /\ u[2] \in 1..v[u[1]] /\ u = <<u[1], u[2]>> /\ g[u] \in B
  <2>1. PICK i \in S : \E k \in 1..(1 * v[i]) : u = <<i, k>>
    BY <1>3
  <2>2. PICK k \in 1..(1 * v[i]) : u = <<i, k>>
    BY <2>1
  <2>3. k \in 1..v[i] /\ k \in 1..(1 * w[m[i]])
    BY <1>4, <2>2
  <2>4. g[u] = <<m[i], k>>
    BY <2>2
  <2> QED BY <1>3, <1>4, <2>2, <2>3, <2>4
<1>7. \A a, b \in A : g[a] = g[b] => a = b
  <2> SUFFICES ASSUME NEW a \in A, NEW b \in A, g[a] = g[b] PROVE a = b
    OBVIOUS
  <2>1. m[a[1]] = m[b[1]] /\ a[2] = b[2]
    OBVIOUS
  <2>2. a[1] = b[1]
    BY <1>4, <1>6, <2>1
  <2> QED BY <1>6, <2>1, <2>2
<1>8. g \in Injection(A, B)
  BY <1>6, <1>7 DEF Injection, IsInjective
<1> HIDE DEF g
<1> QED BY <1>3, <1>5, <1>8, FS_Injection

-----------------------------------------------------------------------------
(* What is made of a list of scored chunks.                                *)

Scored(n) == [1..n -> [chunk : ChunkIds, score : Int]]

Resumes(s) == {ResumeOf[x.chunk] : x \in ToSet(s)}
Own(s, d) == {i \in DOMAIN s : ResumeOf[s[i].chunk] = d}
Spans(s, d) == {i \in Own(s, d) : Cardinality({j \in Own(s, d) : j < i}) < MaxSpans}
Totals(s) == [d \in Resumes(s) |-> Sum([i \in DOMAIN s |-> s[i].score], Spans(s, d))]
First(s) == [d \in Resumes(s) |-> CHOOSE i \in Own(s, d) : \A j \in Own(s, d) : i <= j]

LEMMA Grouping ==
  ASSUME NEW n \in Nat, NEW s \in Scored(n)
  PROVE  /\ Sortable(Resumes(s), Totals(s), First(s))
         /\ \A d \in Resumes(s) : /\ d \in Library
                                  /\ First(s)[d] \in Own(s, d)
                                  /\ \A j \in Own(s, d) : First(s)[d] <= j
         /\ DOMAIN Hits(s) = 1..Cardinality(Resumes(s))
         /\ \A i \in 1..Cardinality(Resumes(s)) :
              Hits(s)[i].resume = Descending(Resumes(s), Totals(s), First(s))[i]
<1>1. /\ DOMAIN s = 1..n
      /\ \A i \in 1..n : s[i].chunk \in ChunkIds /\ s[i].score \in Int
                         /\ ResumeOf[s[i].chunk] \in Library
  BY Chunks DEF Scored
<1>2. \A d \in Resumes(s) : Own(s, d) # {} /\ Own(s, d) \in SUBSET Nat /\ Own(s, d) \subseteq 1..n
  BY <1>1 DEF Resumes, Own, ToSet
<1>3. \A d \in Resumes(s) : d \in Library
  BY <1>1 DEF Resumes, ToSet
<1>4. ASSUME NEW d \in Resumes(s)
      PROVE  First(s)[d] \in Own(s, d) /\ \A j \in Own(s, d) : First(s)[d] <= j
  <2>1. \E i \in Own(s, d) : \A j \in Own(s, d) : i <= j
    BY <1>2, LeastOf
  <2> QED BY <2>1 DEF First
<1>5. \A d \in Resumes(s) : First(s)[d] \in Int
  BY <1>2, <1>4
<1>6. ASSUME NEW d \in Resumes(s), NEW e \in Resumes(s), First(s)[d] = First(s)[e]
      PROVE  d = e
  BY <1>4, <1>6 DEF Own
<1>7. IsFiniteSet(Resumes(s))
  <2> DEFINE f == [i \in 1..n |-> ResumeOf[s[i].chunk]]
  <2>1. f \in Surjection(1..n, Resumes(s))
    BY <1>1 DEF Surjection, Resumes, ToSet
  <2>2. IsFiniteSet(1..n)
    BY FS_Interval
  <2> QED BY <2>1, <2>2, FS_Surjection
<1>8. ASSUME NEW d \in Resumes(s) PROVE Totals(s)[d] \in Int
  <2> DEFINE value == [i \in DOMAIN s |-> s[i].score]
  <2>1. Spans(s, d) \in SUBSET (1..n)
    BY <1>2 DEF Spans
  <2>2. IsFiniteSet(Spans(s, d))
    BY <2>1, FS_Interval, FS_Subset
  <2>3. \A i \in Spans(s, d) : value[i] \in Int
    BY <1>1, <2>1
  <2>4. Sum(value, Spans(s, d)) \in Int
    BY <2>2, <2>3, SumType
  <2> QED BY <2>4 DEF Totals
<1>9. Sortable(Resumes(s), Totals(s), First(s))
  BY <1>5, <1>6, <1>7, <1>8 DEF Sortable
<1> DEFINE order == Descending(Resumes(s), Totals(s), First(s))
<1>10. DOMAIN order = 1..Cardinality(Resumes(s))
  BY DEF Descending
<1>11. DOMAIN Hits(s) = DOMAIN order /\ \A i \in DOMAIN order : Hits(s)[i].resume = order[i]
  BY DEF Hits, Resumes, Totals, First, Spans, Own
<1> QED BY <1>3, <1>4, <1>9, <1>10, <1>11

-----------------------------------------------------------------------------
(* What a request makes of what it recalled.                               *)

Replies == {NoReply} \cup {[up |-> TRUE, scores |-> scores] : scores \in Relevance}

LEMMA RepliesAre ==
  ASSUME NEW r \in Replies
  PROVE  r.up \in BOOLEAN /\ \A c \in ChunkIds : r.scores[c] \in Nat
<1>1. \A f \in Relevance : f \in [ChunkIds -> Nat]
  BY RetrievalAssumption
<1>2. CASE r = NoReply
  BY <1>2 DEF NoReply, Nowhere
<1>3. CASE r # NoReply
  <2>1. PICK f \in Relevance : r = [up |-> TRUE, scores |-> f]
    BY <1>3 DEF Replies
  <2> QED BY <1>1, <2>1
<1> QED BY <1>2, <1>3

\* A list has as many members as places.
LEMMA ListSize ==
  ASSUME NEW T, NEW s \in Lists(T)
  PROVE  IsFiniteSet(ToSet(s)) /\ Cardinality(ToSet(s)) = Len(s)
<1>1. Len(s) \in Nat /\ DOMAIN s = 1..Len(s) /\ s \in Seq(T) /\ IsInjective(s)
  BY DEF Lists
<1>2. s \in Bijection(1..Len(s), ToSet(s))
  <2>1. s \in [1..Len(s) -> ToSet(s)]
    BY <1>1 DEF ToSet
  <2>2. \A c \in ToSet(s) : \E i \in 1..Len(s) : s[i] = c
    BY <1>1 DEF ToSet
  <2> QED BY <1>1, <2>1, <2>2 DEF Bijection, Injection, Surjection, IsInjective
<1>3. IsFiniteSet(1..Len(s)) /\ Cardinality(1..Len(s)) = Len(s)
  <2>1. 1 \in Int /\ Len(s) \in Int
    BY <1>1
  <2>2. Cardinality(1..Len(s)) = IF 1 > Len(s) THEN 0 ELSE Len(s) - 1 + 1
    BY <2>1, FS_Interval
  <2> QED BY <1>1, <2>1, <2>2, FS_Interval
<1> QED BY <1>2, <1>3, FS_Bijection DEF ExistsBijection

Ranking(s, r) ==
  IF r.up THEN Descending(ToSet(s), r.scores, [c \in ToSet(s) |-> Place(c, s)]) ELSE s

LEMMA RankingIs ==
  ASSUME NEW s \in Lists(ChunkIds), NEW r \in Replies
  PROVE  /\ Ranking(s, r) \in Lists(ChunkIds)
         /\ Len(Ranking(s, r)) = Len(s)
         /\ ToSet(Ranking(s, r)) = ToSet(s)
         /\ r.up => Sortable(ToSet(s), r.scores, [c \in ToSet(s) |-> Place(c, s)])
<1>1. CASE ~r.up
  BY <1>1 DEF Ranking
<1>2. CASE r.up
  <2> DEFINE rank == [c \in ToSet(s) |-> Place(c, s)]
             t == Descending(ToSet(s), r.scores, rank)
  <2>1. ToSet(s) \subseteq ChunkIds
    BY Standing
  <2>2. \A c \in ToSet(s) : r.scores[c] \in Int
    BY <2>1, RepliesAre
  <2>3. Sortable(ToSet(s), r.scores, rank)
    BY <2>2, ByPlace, Chunks
  <2> HIDE DEF rank
  <2>4. t \in Lists(ToSet(s)) /\ Len(t) = Cardinality(ToSet(s)) /\ ToSet(t) = ToSet(s)
    BY <2>3, Sorting
  <2>5. Len(t) = Len(s)
    BY <2>4, ListSize
  <2>6. t \in Lists(ChunkIds)
    BY <2>1, <2>4 DEF Lists
  <2>7. Ranking(s, r) = t
    BY <1>2 DEF Ranking, rank
  <2> QED BY <2>3, <2>4, <2>5, <2>6, <2>7 DEF rank
<1> QED BY <1>1, <1>2

LEMMA Reranking ==
  ASSUME NEW s \in Lists(ChunkIds), NEW k \in Nat, NEW r \in Replies
  PROVE  /\ Least(k, Len(s)) \in Nat
         /\ Reranked(s, k, r) \in Scored(Least(k, Len(s)))
         /\ \A i \in 1..Least(k, Len(s)) :
              /\ Reranked(s, k, r)[i].chunk = Ranking(s, r)[i]
              /\ r.up => Reranked(s, k, r)[i].score = r.scores[Ranking(s, r)[i]]
<1> DEFINE n == Least(k, Len(s))
           t == Ranking(s, r)
<1>1. Len(s) \in Nat
  BY Standing
<1>2. n \in Nat /\ n <= Len(s)
  BY <1>1 DEF Least
<1>3. t \in Lists(ChunkIds) /\ Len(t) = Len(s)
  BY RankingIs
<1> HIDE DEF t, n
<1>4. \A i \in 1..n : t[i] \in ChunkIds
  BY <1>1, <1>2, <1>3 DEF Lists
<1>5. Reranked(s, k, r) = [i \in 1..n |->
          [chunk |-> t[i], score |-> IF r.up THEN r.scores[t[i]] ELSE 60 \div i]]
  BY DEF Reranked, Ranking, t, n
<1>6. \A i \in 1..n : (IF r.up THEN r.scores[t[i]] ELSE 60 \div i) \in Int
  <2> TAKE i \in 1..n
  <2>1. r.scores[t[i]] \in Nat
    BY <1>4, RepliesAre
  <2>2. 60 \div i \in Int
    BY <1>2
  <2> QED BY <2>1, <2>2
<1>7. Reranked(s, k, r) \in Scored(n)
  BY <1>4, <1>5, <1>6 DEF Scored
<1> QED BY <1>2, <1>5, <1>7 DEF n, t

LEMMA Emptiness ==
  ASSUME NEW T, NEW s \in Lists(T)
  PROVE  (s = <<>> <=> Len(s) = 0) /\ (s = <<>> <=> ToSet(s) = {})
<1>1. s \in Seq(T) /\ Len(s) \in Nat /\ DOMAIN s = 1..Len(s)
  BY DEF Lists
<1>2. s = <<>> <=> Len(s) = 0
  BY <1>1
<1>3. Len(s) = 0 <=> ToSet(s) = {}
  <2>1. Len(s) # 0 => 1 \in DOMAIN s
    BY <1>1
  <2>2. Len(s) = 0 => DOMAIN s = {}
    BY <1>1
  <2> QED BY <2>1, <2>2 DEF ToSet
<1> QED BY <1>2, <1>3

\* The evidence of a judge: some chunks of those that were found, each once, and
\* without the reranker the first of the fused order.
LEMMA EvidenceIs ==
  ASSUME NEW d \in Lists(ChunkIds), NEW l \in Lists(ChunkIds), NEW r \in Replies
  PROVE  LET e == Evidence(d, l, r)
         IN  /\ e \in Lists(ChunkIds)
             /\ ToSet(e) \subseteq ToSet(d) \cup ToSet(l)
             /\ ~(d = <<>> /\ l = <<>>) => e # <<>>
             /\ ~r.up => Len(e) <= Len(Fused(d, l)) /\ \A i \in 1..Len(e) : e[i] = Fused(d, l)[i]
<1> DEFINE fused == Fused(d, l)
           k == STAGE2_RERANK_TOPK
           s == Firsts(2 * k, fused)
           t == Ranking(s, r)
           n == Least(k, Len(s))
           e == Evidence(d, l, r)
<1>1. fused \in Lists(ChunkIds) /\ ToSet(fused) = ToSet(d) \cup ToSet(l)
  BY Fusing
<1>2. k \in Nat /\ k >= 1 /\ 2 * k \in Nat /\ 2 * k >= 1
  BY Chunks
<1> HIDE DEF fused, k
<1>3. /\ s \in Lists(ChunkIds) /\ ToSet(s) \subseteq ToSet(fused)
      /\ Len(s) = Least(2 * k, Len(fused)) /\ Len(s) \in 0..Len(fused)
      /\ \A i \in 1..Len(s) : s[i] = fused[i]
  BY <1>1, <1>2, FirstsAre
<1>4. Len(fused) \in Nat
  BY <1>1, Standing
<1> HIDE DEF s
<1>5. /\ t \in Lists(ChunkIds) /\ Len(t) = Len(s) /\ ToSet(t) = ToSet(s)
      /\ ~r.up => t = s
  BY <1>3, RankingIs DEF Ranking
<1>6. /\ Reranked(s, k, r) \in Scored(n)
      /\ \A i \in 1..n : Reranked(s, k, r)[i].chunk = t[i]
  BY <1>2, <1>3, Reranking
<1>7. DOMAIN Reranked(s, k, r) = 1..n
  BY <1>6 DEF Scored
<1>8. n \in 0..Len(s) /\ (Len(s) # 0 => n # 0)
  BY <1>2, <1>3, <1>4 DEF Least
<1> HIDE DEF t, n
<1>9. e = [i \in 1..n |-> t[i]]
  BY <1>6, <1>7 DEF Evidence, s, k, fused
<1> HIDE DEF e
<1>10. /\ e \in Seq(ChunkIds) /\ Len(e) = n /\ \A i \in 1..n : e[i] = t[i]
       /\ DOMAIN e = 1..n /\ DOMAIN t = 1..Len(t)
       /\ IsInjective(t)
  BY <1>3, <1>4, <1>5, <1>8, <1>9 DEF Lists
<1>11. IsInjective(e) /\ ToSet(e) \subseteq ToSet(t)
  BY <1>3, <1>4, <1>5, <1>8, <1>10 DEF IsInjective, ToSet
<1>12. e \in Lists(ChunkIds)
  BY <1>10, <1>11 DEF Lists
<1>13. ASSUME ~(d = <<>> /\ l = <<>>) PROVE e # <<>>
  <2>1. ToSet(fused) # {}
    BY <1>1, <1>13, Emptiness
  <2>2. Len(fused) # 0
    BY <1>1, <2>1, Emptiness
  <2>3. Len(s) # 0
    BY <1>2, <1>3, <1>4, <2>2 DEF Least
  <2> QED BY <1>8, <1>10, <2>3
<1>14. ASSUME ~r.up PROVE Len(e) <= Len(fused) /\ \A i \in 1..Len(e) : e[i] = fused[i]
  BY <1>3, <1>4, <1>5, <1>8, <1>10, <1>14
<1>15. ToSet(e) \subseteq ToSet(d) \cup ToSet(l)
  BY <1>1, <1>3, <1>5, <1>11
<1> QED BY <1>12, <1>13, <1>14, <1>15 DEF e, fused

-----------------------------------------------------------------------------
(***************************************************************************)
(* The invariant.  What was recalled is committed, without repetition, and *)
(* where the request may look; the judge has something to fall back on     *)
(* before the searches return; an answer was made of what was recalled.    *)
(***************************************************************************)
Fallback(a) ==
  /\ a \in Lists(ChunkIds \cup {0}) /\ a # <<>>
  /\ \A c \in ToSet(a) \ {0} : ResumeOf[c] = question.of

Nearest == Firsts(RecallWindow, Descending(IndexedChildren, near, ChunkOrder))

AskedInv ==
  /\ question \in [by : {"judge", "hybrid", "semantic", "lexical", "similar"}, of : Library]
  /\ step \in {"asked", "dense", "recalled", "answered", "failed"}
  /\ near \in [ChunkIds -> Int]
  /\ reply \in Replies

RecalledInv ==
  /\ dense \in Lists(ChunkIds) /\ lexical \in Lists(ChunkIds)
  /\ ToSet(dense) \subseteq Within \ ParentIds /\ ToSet(lexical) \subseteq Within
  /\ Len(dense) <= RecallWindow /\ Len(lexical) <= RecallWindow
  /\ step = "asked" => dense = <<>> /\ lexical = <<>>
  /\ step = "dense" => lexical = <<>>
  /\ step = "recalled" => question.by # "similar"
  /\ question.by = "similar" /\ step = "dense" => dense = Nearest

AnswerInv ==
  /\ step = "asked" => answer = <<>>
  /\ question.by = "judge" =>
       /\ step \in {"dense", "recalled"} => Fallback(answer)
       /\ step = "answered" => \/ dense = <<>> /\ lexical = <<>> /\ Fallback(answer)
                               \/ ~(dense = <<>> /\ lexical = <<>>)
                                  /\ answer = Evidence(dense, lexical, reply)
  /\ step = "answered" /\ question.by \in {"hybrid", "semantic", "lexical"} =>
       answer = Search(dense, lexical, reply)
  /\ step = "answered" /\ question.by = "similar" =>
       \/ answer = <<>> /\ ~ \E c \in IndexedChildren : ResumeOf[c] = question.of
       \/ answer = Similar(dense) /\ dense = Nearest

RetrievalInv == AskedInv /\ RecalledInv /\ AnswerInv

LEMMA EmptyList ==
  ASSUME NEW T
  PROVE  <<>> \in Lists(T) /\ ToSet(<<>>) = {} /\ Len(<<>>) = 0
BY DEF Lists, IsInjective, ToSet

LEMMA WindowIs == RecallWindow \in Nat /\ RecallWindow >= 1
BY Chunks DEF RecallWindow

LEMMA RetrievalInitial == RetrievalInit => RetrievalInv
<1> SUFFICES ASSUME RetrievalInit PROVE RetrievalInv
  OBVIOUS
<1>1. AskedInv
  BY DEF RetrievalInit, AskedInv, Nowhere, Replies
<1>2. RecalledInv
  <2>1. <<>> \in Lists(ChunkIds) /\ ToSet(<<>>) = {} /\ Len(<<>>) = 0
    BY EmptyList
  <2> QED BY <2>1, WindowIs DEF RetrievalInit, RecalledInv
<1>3. AnswerInv
  BY DEF RetrievalInit, AnswerInv
<1> QED BY <1>1, <1>2, <1>3 DEF RetrievalInv

\* A search that sorts chunks by a value and then by number.
LEMMA Recalling ==
  ASSUME NEW S \in SUBSET ChunkIds, NEW value, \A c \in S : value[c] \in Int, NEW k \in Nat
  PROVE  LET t == Descending(S, value, ChunkOrder)
             s == Firsts(k, t)
         IN  /\ s \in Lists(ChunkIds) /\ ToSet(s) \subseteq S /\ Len(s) <= k
             /\ Len(s) = Least(k, Cardinality(S)) /\ Cardinality(S) \in Nat
<1> DEFINE t == Descending(S, value, ChunkOrder)
<1>1. Sortable(S, value, ChunkOrder)
  <2>1. IsFiniteSet(S)
    BY Chunks, FS_Subset
  <2>2. \A c \in S : ChunkOrder[c] = c /\ c \in Int
    BY Chunks DEF ChunkOrder
  <2> QED BY <2>1, <2>2 DEF Sortable
<1>2. t \in Lists(S) /\ ToSet(t) = S /\ Len(t) = Cardinality(S) /\ Cardinality(S) \in Nat
  BY <1>1, Sorting
<1> HIDE DEF t
<1>3. t \in Lists(ChunkIds)
  BY <1>2 DEF Lists
<1>4. /\ Firsts(k, t) \in Lists(ChunkIds) /\ ToSet(Firsts(k, t)) \subseteq S
      /\ Len(Firsts(k, t)) <= k /\ Len(Firsts(k, t)) = Least(k, Cardinality(S))
  BY <1>2, <1>3, FirstsAre
<1> QED BY <1>2, <1>4 DEF t

LEMMA CommittedAre == Within \subseteq Committed /\ Committed \subseteq ChunkIds
BY DEF Within, Committed

LEMMA StoredIs ==
  ASSUME question.by = "judge"
  PROVE  Fallback(Stored)
<1>1. CASE Within \subseteq ParentIds
  <2>1. Stored = <<0>>
    BY <1>1 DEF Stored
  <2>2. <<0>> \in Lists(ChunkIds \cup {0}) /\ <<0>> # <<>> /\ ToSet(<<0>>) = {0}
    BY DEF Lists, IsInjective, ToSet
  <2> QED BY <2>1, <2>2 DEF Fallback
<1>2. CASE ~(Within \subseteq ParentIds)
  <2> DEFINE S == Within \ ParentIds
             s == Firsts(MaxStored, Descending(S, Nowhere, ChunkOrder))
  <2>1. S \in SUBSET ChunkIds /\ S # {}
    BY <1>2, CommittedAre
  <2>2. \A c \in S : Nowhere[c] \in Int
    BY <2>1 DEF Nowhere
  <2>3. MaxStored \in Nat /\ MaxStored >= 1
    BY Chunks
  <2>4. Stored = s
    BY <1>2 DEF Stored
  <2>5. \A c \in S : ResumeOf[c] = question.of
    BY DEF Within
  <2> HIDE DEF S
  <2>6. /\ s \in Lists(ChunkIds) /\ ToSet(s) \subseteq S
        /\ Len(s) = Least(MaxStored, Cardinality(S)) /\ Cardinality(S) \in Nat
    BY <2>1, <2>2, <2>3, Recalling
  <2>7. Cardinality(S) # 0
    BY <2>1, Chunks, FS_Subset, FS_EmptySet
  <2> HIDE DEF s
  <2>8. s # <<>>
    BY <2>3, <2>6, <2>7, Emptiness DEF Least
  <2>9. s \in Lists(ChunkIds \cup {0})
    BY <2>6 DEF Lists
  <2> QED BY <2>4, <2>5, <2>6, <2>8, <2>9 DEF Fallback
<1> QED BY <1>1, <1>2

LEMMA RecallDenseStep == RetrievalInv /\ RecallDense => RetrievalInv'
<1> SUFFICES ASSUME RetrievalInv, RecallDense PROVE RetrievalInv'
  OBVIOUS
<1>1. /\ step = "asked" /\ question.by # "lexical" /\ dense = <<>> /\ lexical = <<>>
      /\ UNCHANGED <<question, searchable, lexical, reply>>
  BY DEF RecallDense, RetrievalInv, RecalledInv
<1>2. /\ Within' = Within /\ RecallWindow' = RecallWindow /\ IndexedChildren' = IndexedChildren
      /\ ChunkOrder' = ChunkOrder
  BY <1>1 DEF Within, RecallWindow, IndexedChildren, Committed, ChunkOrder
<1>3. CASE step' \in {"answered", "failed"} /\ UNCHANGED <<near, dense, answer>>
           /\ (step' = "answered" => question.by = "similar"
                                     /\ ~ \E c \in IndexedChildren : ResumeOf[c] = question.of)
  <2>1. AskedInv'
    BY <1>1, <1>3 DEF RetrievalInv, AskedInv
  <2>2. RecalledInv'
    BY <1>1, <1>2, <1>3 DEF RetrievalInv, RecalledInv
  <2>3. AnswerInv'
    <3>1. answer' = <<>>
      BY <1>1, <1>3 DEF RetrievalInv, AnswerInv
    <3>2. step' = "answered" => ~ \E c \in IndexedChildren' : ResumeOf[c] = question'.of
      BY <1>1, <1>2, <1>3
    <3>3. step' \in {"answered", "failed"} /\ (step' = "answered" => question'.by = "similar")
      BY <1>1, <1>3
    <3> QED BY <3>1, <3>2, <3>3 DEF AnswerInv
  <2> QED BY <2>1, <2>2, <2>3 DEF RetrievalInv
<1>4. CASE /\ step' = "dense" /\ near' \in Nearness
           /\ dense' = Firsts(RecallWindow, Descending(Within \ ParentIds, near', ChunkOrder))
           /\ answer' = IF question.by = "judge" THEN Stored ELSE <<>>
  <2>1. near' \in [ChunkIds -> Int]
    BY <1>4, RetrievalAssumption
  <2>2. AskedInv'
    BY <1>1, <1>4, <2>1 DEF RetrievalInv, AskedInv
  <2>3. Within \ ParentIds \in SUBSET ChunkIds
    BY CommittedAre
  <2>4. \A c \in Within \ ParentIds : near'[c] \in Int
    BY <2>1, <2>3
  <2>5. /\ dense' \in Lists(ChunkIds) /\ ToSet(dense') \subseteq Within \ ParentIds
        /\ Len(dense') <= RecallWindow
    BY <1>4, <2>3, <2>4, WindowIs, Recalling
  <2>6. question.by = "similar" => Within \ ParentIds = IndexedChildren
    BY DEF Within, IndexedChildren
  <2>7. question.by = "similar" => dense' = Nearest'
    BY <1>2, <1>4, <2>6 DEF Nearest
  <2>8. RecalledInv'
    BY <1>1, <1>2, <1>4, <2>5, <2>7 DEF RetrievalInv, RecalledInv
  <2>9. question.by = "judge" => Fallback(answer)'
    <3>1. question.by = "judge" => answer' = Stored /\ Fallback(Stored)
      BY <1>4, StoredIs
    <3> QED BY <1>1, <3>1 DEF Fallback
  <2>10. AnswerInv'
    BY <1>1, <1>4, <2>9 DEF AnswerInv
  <2> QED BY <2>2, <2>8, <2>10 DEF RetrievalInv
<1> QED BY <1>1, <1>3, <1>4 DEF RecallDense

LEMMA RecallLexicalStep == RetrievalInv /\ RecallLexical => RetrievalInv'
<1> SUFFICES ASSUME RetrievalInv, RecallLexical PROVE RetrievalInv'
  OBVIOUS
<1>1. /\ step' = "recalled" /\ question.by \in {"judge", "hybrid", "lexical"}
      /\ question.by = "judge" => step = "dense"
      /\ UNCHANGED <<question, searchable, near, dense, reply, answer>>
  BY DEF RecallLexical
<1>2. PICK match \in Matches :
        lexical' = Firsts(RecallWindow, Descending({c \in Within : match[c] > 0}, match, ChunkOrder))
  BY DEF RecallLexical
<1>3. /\ Within' = Within /\ RecallWindow' = RecallWindow
  BY <1>1 DEF Within, RecallWindow, Committed
<1> DEFINE S == {c \in Within : match[c] > 0}
<1>4. match \in [ChunkIds -> Nat]
  BY RetrievalAssumption
<1>5. S \in SUBSET ChunkIds /\ S \subseteq Within /\ \A c \in S : match[c] \in Int
  BY <1>4, CommittedAre
<1> HIDE DEF S
<1>6. /\ lexical' \in Lists(ChunkIds) /\ ToSet(lexical') \subseteq Within
      /\ Len(lexical') <= RecallWindow
  BY <1>2, <1>5, WindowIs, Recalling DEF S
<1>7. AskedInv'
  BY <1>1 DEF RetrievalInv, AskedInv
<1>8. RecalledInv'
  BY <1>1, <1>3, <1>6 DEF RetrievalInv, RecalledInv
<1>9. question.by = "judge" => Fallback(answer)'
  BY <1>1 DEF RetrievalInv, AnswerInv, Fallback
<1>10. AnswerInv'
  BY <1>1, <1>9 DEF AnswerInv
<1> QED BY <1>7, <1>8, <1>10 DEF RetrievalInv

LEMMA AnswerStep == RetrievalInv /\ Answer => RetrievalInv'
<1> SUFFICES ASSUME RetrievalInv, Answer PROVE RetrievalInv'
  OBVIOUS
<1>1. /\ step' = "answered" /\ reply' \in Replies
      /\ step = "recalled" \/ (step = "dense" /\ question.by = "semantic")
      /\ UNCHANGED <<question, searchable, near, dense, lexical>>
      /\ answer' = IF question.by # "judge" THEN Search(dense, lexical, reply')
                   ELSE IF dense = <<>> /\ lexical = <<>> THEN answer
                   ELSE Evidence(dense, lexical, reply')
  BY DEF Answer, Replies
<1>2. /\ Within' = Within /\ RecallWindow' = RecallWindow
  BY <1>1 DEF Within, RecallWindow, Committed
<1>3. AskedInv'
  BY <1>1 DEF RetrievalInv, AskedInv
<1>4. RecalledInv'
  BY <1>1, <1>2 DEF RetrievalInv, RecalledInv
<1>5. AnswerInv'
  <2>1. question.by = "judge" => Fallback(answer)
    BY <1>1 DEF RetrievalInv, AnswerInv
  <2>2. CASE question.by = "judge" /\ dense = <<>> /\ lexical = <<>>
    <3>1. Fallback(answer)'
      BY <1>1, <2>1, <2>2 DEF Fallback
    <3> QED BY <1>1, <2>2, <3>1 DEF AnswerInv
  <2>3. CASE question.by = "judge" /\ ~(dense = <<>> /\ lexical = <<>>)
    <3>1. answer' = Evidence(dense', lexical', reply')
      BY <1>1, <2>3
    <3> QED BY <1>1, <2>3, <3>1 DEF AnswerInv, Evidence
  <2>4. CASE question.by # "judge"
    <3>1. answer' = Search(dense', lexical', reply')
      BY <1>1, <2>4
    <3>2. question.by # "similar"
      BY <1>1, <2>4 DEF RetrievalInv, RecalledInv
    <3> QED BY <1>1, <2>4, <3>1, <3>2 DEF AnswerInv
  <2> QED BY <2>2, <2>3, <2>4
<1> QED BY <1>3, <1>4, <1>5 DEF RetrievalInv

LEMMA AnswerSimilarStep == RetrievalInv /\ AnswerSimilar => RetrievalInv'
<1> SUFFICES ASSUME RetrievalInv, AnswerSimilar PROVE RetrievalInv'
  OBVIOUS
<1>1. /\ step = "dense" /\ question.by = "similar" /\ step' = "answered"
      /\ answer' = Similar(dense)
      /\ UNCHANGED <<question, searchable, near, dense, lexical, reply>>
  BY DEF AnswerSimilar
<1>2. /\ Within' = Within /\ RecallWindow' = RecallWindow /\ Nearest' = Nearest
      /\ Similar(dense)' = Similar(dense)
  BY <1>1 DEF Within, RecallWindow, Committed, Nearest, IndexedChildren, ChunkOrder, Similar
<1>3. dense = Nearest
  BY <1>1 DEF RetrievalInv, RecalledInv
<1> QED BY <1>1, <1>2, <1>3 DEF RetrievalInv, AskedInv, RecalledInv, AnswerInv

LEMMA BecomeSearchableStep ==
  ASSUME RetrievalInv, NEW r \in Library, BecomeSearchable(r)
  PROVE  RetrievalInv'
<1>1. /\ step \in {"asked", "dense"} /\ step' = step
      /\ step = "dense" => question.by \in {"judge", "hybrid"}
      /\ searchable' = searchable \cup {r}
      /\ UNCHANGED <<question, step, near, dense, lexical, reply, answer>>
  BY DEF BecomeSearchable
<1>2. Within \subseteq Within' /\ RecallWindow' = RecallWindow
  BY <1>1 DEF Within, RecallWindow, Committed
<1>3. AskedInv'
  BY <1>1 DEF RetrievalInv, AskedInv
<1>4. RecalledInv'
  BY <1>1, <1>2 DEF RetrievalInv, RecalledInv
<1>5. AnswerInv'
  BY <1>1 DEF RetrievalInv, AnswerInv, Fallback
<1> QED BY <1>3, <1>4, <1>5 DEF RetrievalInv

LEMMA RetrievalInductive == RetrievalInv /\ [RetrievalNext]_retrievalVars => RetrievalInv'
<1> SUFFICES ASSUME RetrievalInv, [RetrievalNext]_retrievalVars PROVE RetrievalInv'
  OBVIOUS
<1>1. CASE UNCHANGED retrievalVars
  BY <1>1 DEF retrievalVars, RetrievalInv, AskedInv, RecalledInv, AnswerInv, Fallback, Nearest,
              Within, Committed, IndexedChildren, RecallWindow, ChunkOrder, Similar
<1> QED BY <1>1, RecallDenseStep, RecallLexicalStep, AnswerStep, AnswerSimilarStep,
           BecomeSearchableStep DEF RetrievalNext

-----------------------------------------------------------------------------
(* The four parts of RetrievalSound.                                       *)

\* The judge reads each chunk once, of its resume only, and something.
LEMMA InvJudge == RetrievalInv => JudgeReadsItsResume
<1> SUFFICES ASSUME RetrievalInv, step = "answered", question.by = "judge"
             PROVE  /\ answer # <<>> /\ IsInjective(answer)
                    /\ \A c \in ToSet(answer) \ {0} : ResumeOf[c] = question.of
  BY DEF JudgeReadsItsResume, Answered
<1>1. CASE Fallback(answer)
  BY <1>1 DEF Fallback, Lists
<1>2. CASE ~(dense = <<>> /\ lexical = <<>>) /\ answer = Evidence(dense, lexical, reply)
  <2>1. /\ dense \in Lists(ChunkIds) /\ lexical \in Lists(ChunkIds) /\ reply \in Replies
        /\ ToSet(dense) \cup ToSet(lexical) \subseteq Within
    BY DEF RetrievalInv, AskedInv, RecalledInv
  <2>2. answer \in Lists(ChunkIds) /\ answer # <<>> /\ ToSet(answer) \subseteq Within
    BY <1>2, <2>1, EvidenceIs
  <2>3. \A c \in Within : ResumeOf[c] = question.of
    BY DEF Within
  <2> QED BY <2>2, <2>3 DEF Lists
<1> QED BY <1>1, <1>2 DEF RetrievalInv, AnswerInv

\* Without the reranker the judge reads the first of the fused order, and fusion
\* does not put c before what was found better.
LEMMA InvDegraded == RetrievalInv => DegradedKeepsBetter
<1> SUFFICES ASSUME RetrievalInv, step = "answered", question.by = "judge", ~reply.up,
                    NEW c \in ToSet(answer) \ {0}, NEW d \in Committed, FoundBetter(d, c)
             PROVE  d \in ToSet(answer) /\ Place(d, answer) < Place(c, answer)
  BY DEF DegradedKeepsBetter, Answered
<1>1. dense \in Lists(ChunkIds) /\ lexical \in Lists(ChunkIds) /\ reply \in Replies
  BY DEF RetrievalInv, AskedInv, RecalledInv
<1>2. c \in ToSet(dense) \cup ToSet(lexical)
  BY DEF FoundBetter
<1>3. ~(dense = <<>> /\ lexical = <<>>)
  BY <1>2, EmptyList
<1>4. answer = Evidence(dense, lexical, reply)
  BY <1>3 DEF RetrievalInv, AnswerInv
<1> DEFINE f == Fused(dense, lexical)
<1>5. /\ answer \in Lists(ChunkIds) /\ Len(answer) <= Len(f)
      /\ \A i \in 1..Len(answer) : answer[i] = f[i]
  BY <1>1, <1>4, EvidenceIs
<1>6. \A s \in {dense, lexical} : c \in ToSet(s) => d \in ToSet(s) /\ Place(d, s) < Place(c, s)
  BY DEF FoundBetter
<1>7. d \in ToSet(dense) \cup ToSet(lexical)
  BY <1>2, <1>6
<1>8. f \in Lists(ChunkIds) /\ ToSet(f) = ToSet(dense) \cup ToSet(lexical) /\ Place(d, f) < Place(c, f)
  BY <1>1, <1>2, <1>6, <1>7, Fusing
<1> HIDE DEF f
<1>9. /\ Place(c, answer) \in 1..Len(answer) /\ answer[Place(c, answer)] = c
      /\ Len(answer) \in Nat
  BY <1>5, Standing
<1>10. /\ Place(d, f) \in 1..Len(f) /\ f[Place(d, f)] = d
       /\ Len(f) \in Nat /\ \A i \in 1..Len(f) : Place(f[i], f) = i
  BY <1>7, <1>8, Standing
<1>11. Place(c, f) = Place(c, answer)
  <2>1. f[Place(c, answer)] = c /\ Place(c, answer) \in 1..Len(f)
    BY <1>5, <1>9, <1>10
  <2> QED BY <1>10, <2>1
<1>12. Place(d, f) \in 1..Len(answer) /\ answer[Place(d, f)] = d
  BY <1>5, <1>8, <1>9, <1>10, <1>11
<1>13. d \in ToSet(answer) /\ Place(d, answer) = Place(d, f)
  BY <1>5, <1>12, Standing
<1> QED BY <1>8, <1>11, <1>13

LEMMA OnlyIs ==
  ASSUME NEW T, IsFiniteSet(T), NEW s \in Lists(T), NEW S, S \subseteq ToSet(s)
  PROVE  /\ Only(s, S) \in Lists(S) /\ ToSet(Only(s, S)) = S
         /\ Len(Only(s, S)) = Cardinality(S) /\ Cardinality(S) \in Nat
<1> DEFINE value == [c \in S |-> 0]
           rank == [c \in S |-> Place(c, s)]
<1>1. \A c \in S : value[c] \in Int
  OBVIOUS
<1>2. Only(s, S) = Descending(S, value, rank)
  BY DEF Only
<1> HIDE DEF value
<1>3. Sortable(S, value, rank)
  BY <1>1, ByPlace
<1> HIDE DEF rank
<1> QED BY <1>2, <1>3, Sorting

\* The hits of a search are the resumes that it found, in their order, up to a limit.
Order(s) == Descending(Resumes(s), Totals(s), First(s))

LEMMA FirstHits ==
  ASSUME NEW n \in Nat, NEW s \in Scored(n), NEW k \in Nat
  PROVE  LET h == Firsts(k, Hits(s))
         IN  /\ DOMAIN h = 1..Least(k, Cardinality(Resumes(s)))
             /\ \A i \in DOMAIN h : h[i].resume = Order(s)[i]
             /\ Order(s) \in Lists(Resumes(s)) /\ ToSet(Order(s)) = Resumes(s)
             /\ Len(Order(s)) = Cardinality(Resumes(s)) /\ Cardinality(Resumes(s)) \in Nat
<1> DEFINE m == Cardinality(Resumes(s))
           h == Firsts(k, Hits(s))
<1>1. /\ Sortable(Resumes(s), Totals(s), First(s))
      /\ DOMAIN Hits(s) = 1..m /\ \A i \in 1..m : Hits(s)[i].resume = Order(s)[i]
  BY Grouping DEF Order
<1>2. /\ Order(s) \in Lists(Resumes(s)) /\ ToSet(Order(s)) = Resumes(s)
      /\ Len(Order(s)) = m /\ m \in Nat
  BY <1>1, Sorting DEF Order
<1>3. \E f : Hits(s) = [i \in 1..m |-> f[i]]
  <2>1. Hits(s) = [i \in DOMAIN Hits(s) |-> Hits(s)[i]]
    BY DEF Hits
  <2> QED BY <1>1, <2>1
<1> HIDE DEF m
<1>4. PICK f : Hits(s) = [i \in 1..m |-> f[i]]
  BY <1>3
<1>5. Len(Hits(s)) = m
  BY <1>2, <1>4
<1>6. Least(k, m) \in Nat /\ Least(k, m) <= m
  BY <1>2 DEF Least
<1>7. h = SubSeq(Hits(s), 1, Least(k, m))
  BY <1>5 DEF Firsts
<1>8. h = [i \in 1..Least(k, m) |-> Hits(s)[i]]
  <2> DEFINE t == Hits(s)
             S == {f[i] : i \in 1..m}
  <2>1. t \in Seq(S)
    BY <1>2, <1>4
  <2> HIDE DEF t, S
  <2>2. SubSeq(t, 1, Least(k, m)) = [i \in 1..Least(k, m) |-> t[i]]
    BY <1>6, <2>1
  <2> QED BY <1>7, <2>2 DEF t
<1> HIDE DEF h
<1>9. DOMAIN h = 1..Least(k, m) /\ \A i \in 1..Least(k, m) : h[i].resume = Order(s)[i]
  <2>1. \A i \in 1..Least(k, m) : i \in 1..m
    BY <1>2, <1>6
  <2> QED BY <1>1, <1>8, <2>1 DEF m
<1> QED BY <1>2, <1>9 DEF h, m

\* The search for similar resumes leaves out the chunks of the resume itself; if those
\* do not fill the window and are not all there is, another is among the nearest.
LEMMA InvSimilar == RetrievalInv => SimilarFindsOthers
<1> DEFINE own == {c \in IndexedChildren : ResumeOf[c] = question.of}
<1> SUFFICES ASSUME RetrievalInv, step = "answered", question.by = "similar"
             PROVE  /\ \A i \in DOMAIN answer : answer[i].resume # question.of
                    /\ (own # {} /\ own # IndexedChildren /\ Cardinality(own) < RecallWindow) =>
                          answer # <<>>
  BY DEF SimilarFindsOthers, Answered
<1>1. CASE answer = <<>> /\ ~ \E c \in IndexedChildren : ResumeOf[c] = question.of
  BY <1>1
<1>2. CASE answer = Similar(dense) /\ dense = Nearest
  <2> DEFINE S == {c \in ToSet(dense) : ResumeOf[c] # question.of}
             others == Only(dense, S)
             scored == [i \in DOMAIN others |-> [chunk |-> others[i], score |-> near[others[i]]]]
             n == Len(others)
  <2>1. /\ dense \in Lists(ChunkIds) /\ near \in [ChunkIds -> Int] /\ ToSet(dense) \subseteq ChunkIds
    BY Standing DEF RetrievalInv, AskedInv, RecalledInv
  <2>2. /\ others \in Lists(S) /\ ToSet(others) = S /\ n = Cardinality(S) /\ Cardinality(S) \in Nat
    <3> HIDE DEF S
    <3>1. S \subseteq ToSet(dense)
      BY DEF S
    <3> QED BY <2>1, <3>1, Chunks, OnlyIs
  <2>3. S \subseteq ChunkIds /\ \A c \in S : ResumeOf[c] # question.of
    BY <2>1
  <2>4. answer = Firsts(TopK, Hits(scored))
    BY <1>2 DEF Similar
  <2> HIDE DEF others
  <2>5. n \in Nat /\ DOMAIN others = 1..n /\ \A i \in 1..n : others[i] \in S
    BY <2>2, Standing
  <2>6. scored \in Scored(n) /\ DOMAIN scored = 1..n
        /\ \A i \in 1..n : scored[i].chunk \in S
    BY <2>1, <2>3, <2>5 DEF Scored
  <2>7. \A d \in Resumes(scored) : d # question.of
    <3> SUFFICES ASSUME NEW x \in ToSet(scored) PROVE ResumeOf[x.chunk] # question.of
      BY DEF Resumes
    <3>1. x.chunk \in S
      BY <2>6 DEF ToSet
    <3> QED BY <2>3, <3>1
  <2>8. n # 0 => Resumes(scored) # {}
    <3> SUFFICES ASSUME n # 0 PROVE Resumes(scored) # {}
      OBVIOUS
    <3>1. 1 \in DOMAIN scored
      BY <2>5, <2>6
    <3>2. scored[1] \in ToSet(scored)
      BY <3>1 DEF ToSet
    <3> QED BY <3>2 DEF Resumes
  <2> HIDE DEF scored
  <2> DEFINE m == Cardinality(Resumes(scored))
  <2>9. TopK \in Nat /\ TopK >= 1
    BY Chunks
  <2>10. /\ DOMAIN answer = 1..Least(TopK, m)
         /\ \A i \in DOMAIN answer : answer[i].resume = Order(scored)[i]
         /\ Order(scored) \in Lists(Resumes(scored))
         /\ Len(Order(scored)) = m /\ m \in Nat
    BY <2>4, <2>5, <2>6, <2>9, FirstHits
  <2>11. \A i \in DOMAIN answer : answer[i].resume # question.of
    <3> TAKE i \in DOMAIN answer
    <3>1. i \in 1..Len(Order(scored))
      <4> HIDE DEF m
      <4> QED BY <2>9, <2>10 DEF Least
    <3>2. Order(scored)[i] \in Resumes(scored)
      BY <2>10, <3>1, Standing
    <3> QED BY <2>7, <2>10, <3>2
  <2>12. ASSUME n # 0 PROVE answer # <<>>
    <3>1. m # 0
      <4>1. IsFiniteSet(Resumes(scored))
        BY <2>5, <2>6, Grouping DEF Sortable
      <4> QED BY <2>8, <2>12, <4>1, FS_EmptySet
    <3>2. 1 \in DOMAIN answer
      <4> HIDE DEF m
      <4> QED BY <2>9, <2>10, <3>1 DEF Least
    <3>3. DOMAIN <<>> = {}
      OBVIOUS
    <3> QED BY <3>2, <3>3
  <2>13. ASSUME n = 0, own # {}, own # IndexedChildren, Cardinality(own) < RecallWindow
         PROVE  FALSE
    <3>1. S = {}
      <4>1. IsFiniteSet(S)
        BY <2>3, Chunks, FS_Subset
      <4> HIDE DEF S
      <4> QED BY <2>2, <2>13, <4>1, FS_EmptySet
    <3>2. IndexedChildren \in SUBSET ChunkIds
      BY CommittedAre DEF IndexedChildren
    <3>3. RecallWindow \in Nat /\ \A c \in IndexedChildren : near[c] \in Int
      BY <2>1, <3>2, WindowIs
    <3>4. /\ ToSet(dense) \subseteq IndexedChildren
          /\ Len(dense) = Least(RecallWindow, Cardinality(IndexedChildren))
          /\ Cardinality(IndexedChildren) \in Nat
      BY <1>2, <3>2, <3>3, Recalling DEF Nearest
    <3>5. ToSet(dense) \subseteq own
      BY <3>1, <3>4
    <3>6. IsFiniteSet(IndexedChildren)
      BY <3>2, Chunks, FS_Subset
    <3>7. own \in SUBSET IndexedChildren
      OBVIOUS
    <3> HIDE DEF own
    <3>8. /\ IsFiniteSet(own) /\ Cardinality(own) < Cardinality(IndexedChildren)
      BY <2>13, <3>6, <3>7, FS_Subset, FS_CardinalityType
    <3>9. Cardinality(ToSet(dense)) <= Cardinality(own) /\ Cardinality(ToSet(dense)) = Len(dense)
      BY <2>1, <3>5, <3>8, FS_Subset, ListSize
    <3>10. Cardinality(own) \in Nat
      BY <3>8, FS_CardinalityType
    <3>11. Len(dense) = RecallWindow \/ Len(dense) = Cardinality(IndexedChildren)
      BY <3>4 DEF Least
    <3> HIDE DEF S
    <3> QED BY <2>13, <3>3, <3>4, <3>8, <3>9, <3>10, <3>11
  <2> QED BY <2>11, <2>12, <2>13
<1> QED BY <1>1, <1>2 DEF RetrievalInv, AnswerInv

-----------------------------------------------------------------------------
(***************************************************************************)
(* More evidence.  A search whose reranker answered without ties depends   *)
(* on which chunks were found, and not on the lists they were found in:    *)
(* the cut has the chunks with few better ones, a span is one with few     *)
(* better ones of its resume.                                              *)
(***************************************************************************)
Better(v, F, c) == {z \in F : v[z] > v[c]}
Of(F, x) == {c \in F : ResumeOf[c] = x}
Cut(v, F) == {c \in F : Cardinality(Better(v, F, c)) < SearchRerank}
Kept(v, F, x) == {c \in Of(Cut(v, F), x) : Cardinality(Better(v, Of(F, x), c)) < MaxSpans}
Found(v, F) == {ResumeOf[c] : c \in Cut(v, F)}
Beats(v, F, x, y) ==
  \/ Sum(v, Kept(v, F, x)) > Sum(v, Kept(v, F, y))
  \/ /\ Sum(v, Kept(v, F, x)) = Sum(v, Kept(v, F, y))
     /\ \E c \in Of(Cut(v, F), x) : \A e \in Of(Cut(v, F), y) : v[c] > v[e]

Untied(v, F) ==
  /\ IsFiniteSet(F)
  /\ \A c \in F : v[c] \in Nat
  /\ \A c, e \in F : v[c] = v[e] => c = e

\* A better chunk has fewer that are better than itself.
LEMMA BetterIs ==
  ASSUME NEW v, NEW F, Untied(v, F)
  PROVE  /\ \A c \in F : /\ IsFiniteSet(Better(v, F, c)) /\ Cardinality(Better(v, F, c)) \in Nat
                         /\ c \notin Better(v, F, c)
         /\ \A c, e \in F : v[c] > v[e] => Cardinality(Better(v, F, c)) < Cardinality(Better(v, F, e))
<1>1. IsFiniteSet(F) /\ \A c \in F : v[c] \in Nat
  BY DEF Untied
<1>2. ASSUME NEW c \in F
      PROVE  /\ IsFiniteSet(Better(v, F, c)) /\ Cardinality(Better(v, F, c)) \in Nat
             /\ c \notin Better(v, F, c)
  <2>1. Better(v, F, c) \in SUBSET F /\ c \notin Better(v, F, c)
    BY <1>1 DEF Better
  <2> QED BY <1>1, <2>1, FS_Subset, FS_CardinalityType
<1>3. ASSUME NEW c \in F, NEW e \in F, v[c] > v[e]
      PROVE  Cardinality(Better(v, F, c)) < Cardinality(Better(v, F, e))
  <2>1. Better(v, F, c) \in SUBSET Better(v, F, e) /\ c \in Better(v, F, e) /\ c \notin Better(v, F, c)
    BY <1>1, <1>3 DEF Better
  <2>2. Cardinality(Better(v, F, c)) <= Cardinality(Better(v, F, e))
        /\ Cardinality(Better(v, F, c)) # Cardinality(Better(v, F, e))
    BY <1>2, <2>1, FS_Subset
  <2> QED BY <1>2, <2>2
<1> QED BY <1>2, <1>3

\* One more chunk adds at most itself to those that are better than another.
LEMMA BetterGrows ==
  ASSUME NEW v, NEW F, NEW c, c \notin F, Untied(v, F \cup {c})
  PROVE  LET F1 == F \cup {c}
         IN  /\ Untied(v, F)
             /\ \A e \in F : /\ v[e] > v[c] => Better(v, F1, e) = Better(v, F, e)
                             /\ v[e] > v[c] \/ v[c] > v[e]
                             /\ Cardinality(Better(v, F, e)) <= Cardinality(Better(v, F1, e))
                             /\ Cardinality(Better(v, F1, e)) <= Cardinality(Better(v, F, e)) + 1
                             /\ v[c] > v[e] =>
                                  Cardinality(Better(v, F1, c)) <= Cardinality(Better(v, F, e))
<1> DEFINE F1 == F \cup {c}
<1>1. F \in SUBSET F1 /\ IsFiniteSet(F1) /\ (\A e \in F1 : v[e] \in Nat)
      /\ \A d, e \in F1 : v[d] = v[e] => d = e
  BY DEF Untied
<1>2. Untied(v, F)
  BY <1>1, FS_Subset DEF Untied
<1>3. ASSUME NEW e \in F
      PROVE  /\ v[e] > v[c] => Better(v, F1, e) = Better(v, F, e)
             /\ v[e] > v[c] \/ v[c] > v[e]
             /\ Cardinality(Better(v, F, e)) <= Cardinality(Better(v, F1, e))
             /\ Cardinality(Better(v, F1, e)) <= Cardinality(Better(v, F, e)) + 1
             /\ v[c] > v[e] => Cardinality(Better(v, F1, c)) <= Cardinality(Better(v, F, e))
  <2>1. v[e] \in Nat /\ v[c] \in Nat /\ v[e] # v[c]
    BY <1>1, <1>3
  <2>2. v[e] > v[c] \/ v[c] > v[e]
    BY <2>1
  <2>3. v[e] > v[c] => Better(v, F1, e) = Better(v, F, e)
    BY <2>1 DEF Better
  <2>4. Better(v, F1, e) \subseteq Better(v, F, e) \cup {c} /\ Better(v, F, e) \subseteq Better(v, F1, e)
    BY DEF Better
  <2>5. v[c] > v[e] => Better(v, F1, c) \subseteq Better(v, F, e)
    BY <1>1, <2>1 DEF Better
  <2>6. /\ IsFiniteSet(Better(v, F, e)) /\ Cardinality(Better(v, F, e)) \in Nat
        /\ IsFiniteSet(Better(v, F1, e)) /\ Cardinality(Better(v, F1, e)) \in Nat
    BY <1>2, BetterIs
  <2>7. Cardinality(Better(v, F, e)) <= Cardinality(Better(v, F1, e))
    BY <2>4, <2>6, FS_Subset
  <2>8. Cardinality(Better(v, F1, e)) <= Cardinality(Better(v, F, e)) + 1
    <3> DEFINE G == Better(v, F, e) \cup {c}
    <3>1. IsFiniteSet(G) /\ Cardinality(G) \in Nat /\ Cardinality(G) <= Cardinality(Better(v, F, e)) + 1
      <4> DEFINE B == Better(v, F, e)
      <4> HIDE DEF B
      <4>1. /\ IsFiniteSet(B \cup {c}) /\ Cardinality(B) \in Nat
            /\ Cardinality(B \cup {c}) = IF c \in B THEN Cardinality(B) ELSE Cardinality(B) + 1
        BY <2>6, FS_AddElement DEF B
      <4> QED BY <4>1 DEF B
    <3>2. Better(v, F1, e) \in SUBSET G
      BY <2>4
    <3> HIDE DEF G
    <3>3. Cardinality(Better(v, F1, e)) <= Cardinality(G)
      BY <3>1, <3>2, FS_Subset
    <3> QED BY <2>6, <3>1, <3>3
  <2>9. v[c] > v[e] => Cardinality(Better(v, F1, c)) <= Cardinality(Better(v, F, e))
    BY <2>5, <2>6, FS_Subset
  <2> QED BY <2>2, <2>3, <2>7, <2>8, <2>9
<1> QED BY <1>2, <1>3

LEMMA KeptAre ==
  ASSUME NEW v, NEW F, Untied(v, F), NEW x
  PROVE  /\ Kept(v, F, x) \subseteq F /\ IsFiniteSet(Kept(v, F, x))
         /\ \A c \in Kept(v, F, x) : v[c] \in Nat
         /\ Sum(v, Kept(v, F, x)) \in Int
<1>1. Kept(v, F, x) \in SUBSET F /\ IsFiniteSet(F) /\ \A c \in F : v[c] \in Nat
  BY DEF Kept, Cut, Of, Untied
<1>2. IsFiniteSet(Kept(v, F, x)) /\ \A c \in Kept(v, F, x) : v[c] \in Int
  BY <1>1, FS_Subset
<1>3. Sum(v, Kept(v, F, x)) \in Int
  BY <1>2, SumType
<1> QED BY <1>1, <1>2, <1>3

LEMMA UntiedPart ==
  ASSUME NEW v, NEW F, Untied(v, F), NEW G \in SUBSET F
  PROVE  Untied(v, G)
BY FS_Subset DEF Untied

\* Another resume gains no span by a chunk that is not its own.
LEMMA OthersLose ==
  ASSUME NEW v, NEW F, NEW c, c \notin F, Untied(v, F \cup {c}), NEW y, y # ResumeOf[c]
  PROVE  LET F1 == F \cup {c}
         IN  /\ Of(Cut(v, F1), y) \subseteq Of(Cut(v, F), y)
             /\ Sum(v, Kept(v, F1, y)) <= Sum(v, Kept(v, F, y))
<1> DEFINE F1 == F \cup {c}
<1>1. Untied(v, F) /\ Untied(v, F1)
  BY BetterGrows
<1>2. Of(F1, y) = Of(F, y) /\ Of(Cut(v, F1), y) \subseteq F
  BY DEF Of, Cut
<1>3. Of(Cut(v, F1), y) \subseteq Of(Cut(v, F), y)
  <2> SUFFICES ASSUME NEW e \in Of(Cut(v, F1), y) PROVE e \in Of(Cut(v, F), y)
    OBVIOUS
  <2>1. e \in F /\ ResumeOf[e] = y /\ Cardinality(Better(v, F1, e)) < SearchRerank
    BY <1>2 DEF Of, Cut
  <2>2. Cardinality(Better(v, F, e)) <= Cardinality(Better(v, F1, e))
    BY <2>1, BetterGrows
  <2>3. Cardinality(Better(v, F, e)) \in Nat /\ Cardinality(Better(v, F1, e)) \in Nat
    BY <1>1, <2>1, BetterIs
  <2>4. SearchRerank \in Nat
    BY Chunks
  <2> QED BY <2>1, <2>2, <2>3, <2>4 DEF Of, Cut
<1>4. Kept(v, F1, y) \subseteq Kept(v, F, y)
  BY <1>2, <1>3 DEF Kept
<1>5. Sum(v, Kept(v, F1, y)) <= Sum(v, Kept(v, F, y))
  <2> DEFINE S == Kept(v, F1, y)
             T == Kept(v, F, y)
             m == [e \in S |-> e]
  <2>1. /\ IsFiniteSet(S) /\ \A e \in S : v[e] \in Nat
        /\ IsFiniteSet(T) /\ \A e \in T : v[e] \in Nat
    BY <1>1, KeptAre
  <2>2. S \subseteq T
    BY <1>4
  <2> HIDE DEF S, T
  <2>3. m \in Injection(S, T)
    BY <2>2 DEF Injection, IsInjective
  <2>4. \A e \in S : v[e] <= v[m[e]]
    BY <2>1
  <2> HIDE DEF m
  <2>5. Sum(v, S) <= Sum(v, T)
    BY <2>1, <2>3, <2>4, SumGrows
  <2> QED BY <2>5 DEF S, T
<1> QED BY <1>3, <1>5

\* The resume of the chunk loses at most one span, and then the chunk is a better one.
LEMMA OwnGains ==
  ASSUME NEW v, NEW F, NEW c, c \notin F, Untied(v, F \cup {c}), NEW x, x = ResumeOf[c]
  PROVE  LET F1 == F \cup {c}
         IN  /\ \A g \in Of(Cut(v, F), x) :
                  \/ g \in Of(Cut(v, F1), x)
                  \/ v[c] > v[g] /\ c \in Of(Cut(v, F1), x)
             /\ Sum(v, Kept(v, F, x)) <= Sum(v, Kept(v, F1, x))
<1> DEFINE F1 == F \cup {c}
           G == Of(F, x)
           G1 == Of(F1, x)
<1>1. Untied(v, F) /\ Untied(v, F1)
  BY BetterGrows
<1>2. c \notin G /\ G1 = G \cup {c}
  BY DEF Of
<1>3. Untied(v, G) /\ Untied(v, G1)
  <2>1. G \in SUBSET F /\ G1 \in SUBSET F1
    BY DEF Of
  <2> QED BY <1>1, <2>1, UntiedPart
<1>4. SearchRerank \in Nat /\ MaxSpans \in Nat
  BY Chunks
<1>5. \A e : e \in Kept(v, F, x) <=> e \in G /\ Cardinality(Better(v, F, e)) < SearchRerank
                                     /\ Cardinality(Better(v, G, e)) < MaxSpans
  BY DEF Kept, Cut, Of
<1>6. \A e : e \in Kept(v, F1, x) <=> e \in G1 /\ Cardinality(Better(v, F1, e)) < SearchRerank
                                      /\ Cardinality(Better(v, G1, e)) < MaxSpans
  BY DEF Kept, Cut, Of
<1>7. G \subseteq F /\ c \in G1 /\ c \in F1
  BY DEF Of
<1>8. \A e \in G : e \in G1 /\ e \in F1 /\ v[e] \in Nat /\ v[c] \in Nat
  BY <1>1, <1>2, <1>7 DEF Untied
<1> HIDE DEF G, G1
<1>9. \A e \in G : /\ v[e] > v[c] \/ v[c] > v[e]
                   /\ v[e] > v[c] => Better(v, F1, e) = Better(v, F, e)
                   /\ v[e] > v[c] => Better(v, G1, e) = Better(v, G, e)
                   /\ Cardinality(Better(v, F1, e)) <= Cardinality(Better(v, F, e)) + 1
                   /\ Cardinality(Better(v, G1, e)) <= Cardinality(Better(v, G, e)) + 1
                   /\ v[c] > v[e] => Cardinality(Better(v, F1, c)) <= Cardinality(Better(v, F, e))
                   /\ v[c] > v[e] => Cardinality(Better(v, G1, c)) <= Cardinality(Better(v, G, e))
  <2>1. \A e \in F : /\ v[e] > v[c] => Better(v, F1, e) = Better(v, F, e)
                     /\ v[e] > v[c] \/ v[c] > v[e]
                     /\ Cardinality(Better(v, F1, e)) <= Cardinality(Better(v, F, e)) + 1
                     /\ v[c] > v[e] => Cardinality(Better(v, F1, c)) <= Cardinality(Better(v, F, e))
    BY BetterGrows
  <2>2. \A e \in G : /\ v[e] > v[c] => Better(v, G1, e) = Better(v, G, e)
                     /\ Cardinality(Better(v, G1, e)) <= Cardinality(Better(v, G, e)) + 1
                     /\ v[c] > v[e] => Cardinality(Better(v, G1, c)) <= Cardinality(Better(v, G, e))
    BY <1>2, <1>3, BetterGrows
  <2> HIDE DEF F1
  <2> QED BY <1>7, <2>1, <2>2
<1>10. /\ \A e \in G : Cardinality(Better(v, F, e)) \in Nat /\ Cardinality(Better(v, G, e)) \in Nat
       /\ \A e \in G1 : Cardinality(Better(v, F1, e)) \in Nat /\ Cardinality(Better(v, G1, e)) \in Nat
  <2>1. G1 \subseteq F1
    BY <1>2, <1>7
  <2> HIDE DEF F1
  <2> QED BY <1>1, <1>3, <1>7, <2>1, BetterIs
<1>11. ASSUME NEW g \in Of(Cut(v, F), x)
       PROVE  g \in Of(Cut(v, F1), x) \/ (v[c] > v[g] /\ c \in Of(Cut(v, F1), x))
  <2>1. g \in G /\ Cardinality(Better(v, F, g)) < SearchRerank
    BY DEF Of, Cut, G
  <2>2. CASE v[g] > v[c]
    <3>1. Cardinality(Better(v, F1, g)) < SearchRerank
      BY <1>9, <2>1, <2>2
    <3> QED BY <1>8, <2>1, <3>1 DEF Of, Cut, G1
  <2>3. CASE v[c] > v[g]
    <3>1. Cardinality(Better(v, F1, c)) < SearchRerank
      BY <1>4, <1>7, <1>9, <1>10, <2>1, <2>3
    <3> QED BY <1>7, <2>3, <3>1 DEF Of, Cut, G1
  <2> QED BY <1>9, <2>1, <2>2, <2>3
<1>12. Sum(v, Kept(v, F, x)) <= Sum(v, Kept(v, F1, x))
  <2> DEFINE S == Kept(v, F, x)
             T == Kept(v, F1, x)
             m == [e \in S |-> IF e \in T THEN e ELSE c]
  <2>1. /\ IsFiniteSet(S) /\ \A e \in S : v[e] \in Nat
        /\ IsFiniteSet(T) /\ \A e \in T : v[e] \in Nat
    BY <1>1, KeptAre
  <2> HIDE DEF S, T, F1
  <2>2. ASSUME NEW e \in S, e \notin T
        PROVE  v[c] > v[e] /\ c \in T
    <3>1. e \in G /\ Cardinality(Better(v, F, e)) < SearchRerank /\ Cardinality(Better(v, G, e)) < MaxSpans
      BY <1>5 DEF S
    <3>2. ~(v[e] > v[c])
      <4> SUFFICES ASSUME v[e] > v[c] PROVE e \in T
        BY <2>2
      <4> QED BY <1>6, <1>8, <1>9, <3>1 DEF T
    <3>3. v[c] > v[e]
      BY <1>9, <3>1, <3>2
    <3>4. Cardinality(Better(v, F1, c)) < SearchRerank /\ Cardinality(Better(v, G1, c)) < MaxSpans
      BY <1>4, <1>7, <1>9, <1>10, <3>1, <3>3
    <3> QED BY <1>6, <1>7, <3>3, <3>4 DEF T
  <2>3. ASSUME NEW a \in S, NEW b \in S, v[a] > v[b]
        PROVE  a \in T
    <3>1. a \in G /\ b \in G /\ Cardinality(Better(v, F, b)) < SearchRerank
          /\ Cardinality(Better(v, G, b)) < MaxSpans
      BY <1>5 DEF S
    <3>2. /\ Cardinality(Better(v, F, a)) < Cardinality(Better(v, F, b))
          /\ Cardinality(Better(v, G, a)) < Cardinality(Better(v, G, b))
      BY <1>1, <1>3, <1>7, <2>3, <3>1, BetterIs
    <3>3. Cardinality(Better(v, F1, a)) < SearchRerank /\ Cardinality(Better(v, G1, a)) < MaxSpans
      BY <1>4, <1>8, <1>9, <1>10, <3>1, <3>2
    <3> QED BY <1>6, <1>8, <3>1, <3>3 DEF T
  <2>4. S \subseteq G /\ c \notin S
    BY <1>2, <1>5 DEF S
  <2>5. \A a, b \in S : a # b => v[a] > v[b] \/ v[b] > v[a]
    BY <1>3, <2>1, <2>4 DEF Untied
  <2>6. m \in Injection(S, T)
    <3>1. \A e \in S : m[e] \in T
      BY <2>2
    <3>2. \A a, b \in S : m[a] = m[b] => a = b
      <4> SUFFICES ASSUME NEW a \in S, NEW b \in S, m[a] = m[b], a # b PROVE FALSE
        OBVIOUS
      <4>1. a \in T \/ b \in T
        BY <2>3, <2>5
      <4>2. m[a] = a \/ m[a] = c
        OBVIOUS
      <4> QED BY <2>4, <4>1, <4>2
    <3> QED BY <3>1, <3>2 DEF Injection, IsInjective
  <2>7. \A e \in S : v[e] <= v[m[e]]
    <3> TAKE e \in S
    <3>1. v[e] \in Nat /\ v[c] \in Nat
      BY <1>8, <2>1, <2>4
    <3> QED BY <2>2, <3>1
  <2> HIDE DEF m
  <2>8. Sum(v, S) <= Sum(v, T)
    BY <2>1, <2>6, <2>7, SumGrows
  <2> QED BY <2>8 DEF S, T, F1
<1> QED BY <1>11, <1>12

\* Whoever beats the resume of the chunk, does without the chunk, too.
LEMMA StillBeats ==
  ASSUME NEW v, NEW F, NEW c, c \notin F, Untied(v, F \cup {c}), NEW z, z # ResumeOf[c],
         z \in Found(v, F \cup {c}), Beats(v, F \cup {c}, z, ResumeOf[c])
  PROVE  z \in Found(v, F) /\ Beats(v, F, z, ResumeOf[c])
<1> DEFINE F1 == F \cup {c}
           x == ResumeOf[c]
           sum(G, y) == Sum(v, Kept(v, G, y))
<1>1. /\ Of(Cut(v, F1), z) \subseteq Of(Cut(v, F), z)
      /\ sum(F1, z) <= sum(F, z)
  BY OthersLose
<1>2. /\ \A g \in Of(Cut(v, F), x) : \/ g \in Of(Cut(v, F1), x)
                                     \/ v[c] > v[g] /\ c \in Of(Cut(v, F1), x)
      /\ sum(F, x) <= sum(F1, x)
  BY OwnGains
<1>3. Untied(v, F) /\ Untied(v, F1)
  BY BetterGrows
<1>4. sum(F, x) \in Int /\ sum(F1, x) \in Int /\ sum(F, z) \in Int /\ sum(F1, z) \in Int
  BY <1>3, KeptAre
<1>5. z \in Found(v, F)
  BY <1>1 DEF Found, Of
<1>6. CASE sum(F1, z) > sum(F1, x)
  <2>1. sum(F, z) > sum(F, x)
    <3> HIDE DEF sum
    <3> QED BY <1>1, <1>2, <1>4, <1>6
  <2> QED BY <1>5, <2>1 DEF Beats
<1>7. CASE sum(F1, z) = sum(F1, x) /\ \E e \in Of(Cut(v, F1), z) : \A g \in Of(Cut(v, F1), x) : v[e] > v[g]
  <2>1. sum(F, z) > sum(F, x) \/ sum(F, z) = sum(F, x)
    <3> HIDE DEF sum
    <3> QED BY <1>1, <1>2, <1>4, <1>7
  <2>2. PICK e \in Of(Cut(v, F1), z) : \A g \in Of(Cut(v, F1), x) : v[e] > v[g]
    BY <1>7
  <2>3. e \in Of(Cut(v, F), z)
    BY <1>1
  <2>4. ASSUME NEW g \in Of(Cut(v, F), x) PROVE v[e] > v[g]
    <3>1. v[e] \in Nat /\ v[g] \in Nat /\ v[c] \in Nat
      BY <1>3, <2>3 DEF Untied, Of, Cut
    <3>2. CASE g \in Of(Cut(v, F1), x)
      BY <2>2, <3>2
    <3>3. CASE v[c] > v[g] /\ c \in Of(Cut(v, F1), x)
      <4>1. v[e] > v[c]
        BY <2>2, <3>3
      <4> QED BY <3>1, <3>3, <4>1
    <3> QED BY <1>2, <3>2, <3>3
  <2> QED BY <1>5, <2>1, <2>3, <2>4 DEF Beats
<1> QED BY <1>6, <1>7 DEF Beats

\* In terms of what was found, the resume is among the hits, and y is not before it.
Ranks(v, F, x, y) ==
  /\ x \in Found(v, F)
  /\ Cardinality({z \in Found(v, F) : Beats(v, F, z, x)}) < TopK
  /\ ~(y \in Found(v, F) /\ Beats(v, F, y, x))

LEMMA OneMore ==
  ASSUME NEW v, NEW F, NEW c, c \notin F, Untied(v, F \cup {c}), NEW y, y # ResumeOf[c],
         Ranks(v, F, ResumeOf[c], y)
  PROVE  Ranks(v, F \cup {c}, ResumeOf[c], y)
<1> DEFINE F1 == F \cup {c}
           x == ResumeOf[c]
           ahead(G) == {z \in Found(v, G) : Beats(v, G, z, x)}
<1>1. Untied(v, F) /\ Untied(v, F1)
  BY BetterGrows
<1>2. x \in Found(v, F1)
  <2>1. PICK g \in Cut(v, F) : ResumeOf[g] = x
    BY DEF Ranks, Found
  <2>2. g \in Of(Cut(v, F), x)
    BY <2>1 DEF Of
  <2>3. \E e \in Of(Cut(v, F1), x) : TRUE
    BY <2>2, OwnGains
  <2> QED BY <2>3 DEF Of, Found
<1>3. ~Beats(v, F1, x, x)
  <2>1. Sum(v, Kept(v, F1, x)) \in Int
    BY <1>1, KeptAre
  <2>2. \A e \in Of(Cut(v, F1), x) : v[e] \in Nat
    BY <1>1 DEF Untied, Of, Cut
  <2> QED BY <2>1, <2>2 DEF Beats
<1>4. \A z \in Found(v, F1) : z # x /\ Beats(v, F1, z, x) => z \in Found(v, F) /\ Beats(v, F, z, x)
  BY StillBeats
<1>5. ahead(F1) \in SUBSET ahead(F)
  BY <1>3, <1>4
<1>6. IsFiniteSet(ahead(F))
  <2> DEFINE f == [e \in Cut(v, F) |-> ResumeOf[e]]
  <2>1. f \in Surjection(Cut(v, F), Found(v, F))
    BY DEF Surjection, Found
  <2>2. IsFiniteSet(Cut(v, F))
    <3>1. Cut(v, F) \in SUBSET F
      BY DEF Cut
    <3> QED BY <1>1, <3>1, FS_Subset DEF Untied
  <2>3. IsFiniteSet(Found(v, F))
    BY <2>1, <2>2, FS_Surjection
  <2>4. ahead(F) \in SUBSET Found(v, F)
    OBVIOUS
  <2> HIDE DEF ahead
  <2> QED BY <2>3, <2>4, FS_Subset
<1>7. Cardinality(ahead(F1)) < TopK
  <2>1. Cardinality(ahead(F)) < TopK
    BY DEF Ranks
  <2> HIDE DEF ahead
  <2>2. /\ Cardinality(ahead(F1)) <= Cardinality(ahead(F))
        /\ Cardinality(ahead(F1)) \in Nat /\ Cardinality(ahead(F)) \in Nat
    BY <1>5, <1>6, FS_Subset, FS_CardinalityType
  <2>3. TopK \in Nat
    BY Chunks
  <2> QED BY <2>1, <2>2, <2>3
<1>8. ~(y \in Found(v, F1) /\ Beats(v, F1, y, x))
  <2>1. ~(y \in Found(v, F) /\ Beats(v, F, y, x))
    BY DEF Ranks
  <2> QED BY <1>4, <2>1
<1> QED BY <1>2, <1>7, <1>8 DEF Ranks

\* Places in what the reranker returns: the cut is what comes first, better is earlier.
LEMMA RankedCut ==
  ASSUME NEW f \in Lists(ChunkIds), NEW r \in Replies, r.up, Distinct(r.scores)
  PROVE  LET v == r.scores
             F == ToSet(f)
             t == Ranking(f, r)
             n == Least(SearchRerank, Len(f))
         IN  /\ Untied(v, F) /\ F \subseteq ChunkIds /\ n \in Nat
             /\ \A i \in 1..n : t[i] \in Cut(v, F) /\ Place(t[i], t) = i
             /\ \A c \in Cut(v, F) : Place(c, t) \in 1..n /\ t[Place(c, t)] = c
             /\ \A c, e \in F : v[c] > v[e] <=> Place(c, t) < Place(e, t)
<1> DEFINE v == r.scores
           F == ToSet(f)
           t == Ranking(f, r)
           n == Least(SearchRerank, Len(f))
           rank == [c \in F |-> Place(c, f)]
<1>1. F \subseteq ChunkIds /\ Len(f) \in Nat /\ IsFiniteSet(F) /\ Cardinality(F) = Len(f)
  BY Standing, ListSize
<1>2. /\ \A c \in F : v[c] \in Nat
      /\ \A c, e \in F : v[c] = v[e] => c = e
  BY <1>1, RepliesAre DEF Distinct
<1>3. Untied(v, F)
  BY <1>1, <1>2 DEF Untied
<1>4. t = Descending(F, v, rank) /\ Sortable(F, v, rank) /\ t \in Lists(ChunkIds)
  BY RankingIs DEF Ranking
<1>5. \A c, e \in F : rank[c] \in Int /\ (Ahead(v, rank, c, e) <=> v[c] > v[e])
  BY <1>2, <1>4 DEF Ahead, Sortable
<1> HIDE DEF rank, v
<1>6. /\ Len(t) = Cardinality(F) /\ ToSet(t) = F
      /\ \A c \in F : Place(c, t) = 1 + Cardinality(Preceding(F, v, rank, c))
      /\ \A c, e \in F : Ahead(v, rank, c, e) <=> Place(c, t) < Place(e, t)
  BY <1>4, Sorting
<1>7. \A c \in F : Preceding(F, v, rank, c) = Better(v, F, c)
  BY <1>5 DEF Preceding, Better
<1>8. \A c, e \in F : v[c] > v[e] <=> Place(c, t) < Place(e, t)
  BY <1>5, <1>6
<1>9. \A c \in F : Place(c, t) = 1 + Cardinality(Better(v, F, c)) /\ Cardinality(Better(v, F, c)) \in Nat
  BY <1>3, <1>6, <1>7, BetterIs
<1> HIDE DEF t, F
<1>10. /\ \A c \in F : Place(c, t) \in 1..Len(f) /\ t[Place(c, t)] = c
       /\ \A i \in 1..Len(f) : t[i] \in F /\ Place(t[i], t) = i
  BY <1>1, <1>4, <1>6, Standing
<1>11. SearchRerank \in Nat /\ n \in Nat /\ n <= Len(f) /\ n <= SearchRerank
       /\ (n = SearchRerank \/ n = Len(f))
  BY <1>1, Chunks DEF Least
<1> HIDE DEF n
<1>12. ASSUME NEW i \in 1..n PROVE t[i] \in Cut(v, F) /\ Place(t[i], t) = i
  <2>1. i \in 1..Len(f)
    BY <1>1, <1>11
  <2>2. t[i] \in F /\ Place(t[i], t) = i
    BY <1>10, <2>1
  <2>3. Cardinality(Better(v, F, t[i])) < SearchRerank
    BY <1>9, <1>11, <2>2
  <2> QED BY <2>2, <2>3 DEF Cut
<1>13. ASSUME NEW c \in Cut(v, F) PROVE Place(c, t) \in 1..n /\ t[Place(c, t)] = c
  <2>1. c \in F /\ Cardinality(Better(v, F, c)) < SearchRerank
    BY DEF Cut
  <2> QED BY <1>9, <1>10, <1>11, <2>1
<1> QED BY <1>1, <1>3, <1>8, <1>11, <1>12, <1>13 DEF v, F, t, n

\* Two sums are equal if the numbers correspond.
LEMMA SumSame ==
  ASSUME NEW v, NEW S, IsFiniteSet(S), \A i \in S : v[i] \in Nat,
         NEW w, NEW T, IsFiniteSet(T), \A i \in T : w[i] \in Nat,
         NEW m, NEW o, \A i \in S : m[i] \in T /\ o[m[i]] = i /\ v[i] = w[m[i]],
         \A j \in T : o[j] \in S /\ m[o[j]] = j
  PROVE  Sum(v, S) = Sum(w, T)
<1> DEFINE there == [i \in S |-> m[i]]
           back == [j \in T |-> o[j]]
<1>1. there \in Injection(S, T) /\ \A i \in S : v[i] <= w[there[i]]
  BY DEF Injection, IsInjective
<1>2. back \in Injection(T, S) /\ \A j \in T : w[j] <= v[back[j]]
  BY DEF Injection, IsInjective
<1> HIDE DEF there, back
<1>3. Sum(v, S) <= Sum(w, T)
  BY <1>1, SumGrows
<1>4. Sum(w, T) <= Sum(v, S)
  BY <1>2, SumGrows
<1>5. Sum(v, S) \in Int /\ Sum(w, T) \in Int
  BY SumType
<1> QED BY <1>3, <1>4, <1>5

\* What a search makes of its cut depends on the chunks that were found.
LEMMA Grouped ==
  ASSUME NEW f \in Lists(ChunkIds), NEW r \in Replies, r.up, Distinct(r.scores)
  PROVE  LET v == r.scores
             F == ToSet(f)
             s == Reranked(f, SearchRerank, r)
         IN  /\ Resumes(s) = Found(v, F)
             /\ \A x, y \in Found(v, F) : Ahead(Totals(s), First(s), x, y) <=> Beats(v, F, x, y)
<1> DEFINE v == r.scores
           F == ToSet(f)
           s == Reranked(f, SearchRerank, r)
           t == Ranking(f, r)
           n == Least(SearchRerank, Len(f))
           at == [c \in Cut(v, F) |-> Place(c, t)]
           score == [i \in DOMAIN s |-> s[i].score]
<1>1. /\ s \in Scored(n)
      /\ \A i \in 1..n : s[i].chunk = t[i] /\ s[i].score = v[t[i]]
  <2>1. SearchRerank \in Nat
    BY Chunks
  <2> QED BY <2>1, Reranking
<1>2. /\ Untied(v, F) /\ F \subseteq ChunkIds /\ n \in Nat
      /\ \A i \in 1..n : t[i] \in Cut(v, F) /\ Place(t[i], t) = i
      /\ \A c \in Cut(v, F) : Place(c, t) \in 1..n /\ t[Place(c, t)] = c
      /\ \A c, e \in F : v[c] > v[e] <=> Place(c, t) < Place(e, t)
  BY RankedCut
<1> HIDE DEF v, F, s, t, n
<1>3. /\ \A i \in 1..n : t[i] \in Cut(v, F) /\ at[t[i]] = i
      /\ \A c \in Cut(v, F) : at[c] \in 1..n /\ t[at[c]] = c
      /\ \A c, e \in Cut(v, F) : v[c] > v[e] <=> at[c] < at[e]
  BY <1>2 DEF Cut
<1> HIDE DEF at
<1>4. DOMAIN s = 1..n
  BY <1>1 DEF Scored
<1>5. \A x : \A i : i \in Own(s, x) <=> i \in 1..n /\ t[i] \in Of(Cut(v, F), x)
  BY <1>1, <1>3, <1>4 DEF Own, Of
<1>6. Resumes(s) = Found(v, F)
  <2>1. \A x \in ToSet(s) : x.chunk \in Cut(v, F)
    BY <1>1, <1>3, <1>4 DEF ToSet
  <2>2. \A c \in Cut(v, F) : \E x \in ToSet(s) : x.chunk = c
    BY <1>1, <1>3, <1>4 DEF ToSet
  <2> QED BY <2>1, <2>2 DEF Resumes, Found
<1>7. \A i \in 1..n : v[t[i]] \in Nat
  BY <1>2, <1>3 DEF Untied, Cut
<1>8. ASSUME NEW x, NEW i \in Own(s, x)
      PROVE  Cardinality({j \in Own(s, x) : j < i}) = Cardinality(Better(v, Of(F, x), t[i]))
  <2> DEFINE A == {j \in Own(s, x) : j < i}
             B == Better(v, Of(F, x), t[i])
             g == [j \in A |-> t[j]]
  <2>1. t[i] \in Of(F, x) /\ i \in 1..n /\ t[i] \in Cut(v, F)
    BY <1>5 DEF Of, Cut
  <2>2. \A j \in A : t[j] \in B
    <3> SUFFICES ASSUME NEW j \in Own(s, x), j < i PROVE t[j] \in B
      OBVIOUS
    <3>1. j \in 1..n /\ t[j] \in Of(Cut(v, F), x) /\ t[j] \in Cut(v, F) /\ t[j] \in Of(F, x)
      BY <1>5 DEF Of, Cut
    <3>2. v[t[j]] > v[t[i]]
      BY <1>3, <2>1, <3>1
    <3> QED BY <3>1, <3>2 DEF Better
  <2>3. ASSUME NEW z \in B PROVE at[z] \in A /\ t[at[z]] = z
    <3>1. z \in F /\ ResumeOf[z] = x /\ v[z] > v[t[i]] /\ t[i] \in F
      BY <2>1 DEF Better, Of
    <3>2. Cardinality(Better(v, F, z)) < Cardinality(Better(v, F, t[i]))
      BY <1>2, <3>1, BetterIs
    <3>3. Cardinality(Better(v, F, z)) < SearchRerank
      <4>1. Cardinality(Better(v, F, t[i])) < SearchRerank
        BY <2>1 DEF Cut
      <4>2. Cardinality(Better(v, F, z)) \in Nat /\ Cardinality(Better(v, F, t[i])) \in Nat
        BY <1>2, <3>1, BetterIs
      <4>3. SearchRerank \in Nat
        BY Chunks
      <4> QED BY <3>2, <4>1, <4>2, <4>3
    <3>4. z \in Cut(v, F) /\ z \in Of(Cut(v, F), x)
      BY <3>1, <3>3 DEF Cut, Of
    <3>5. at[z] \in 1..n /\ t[at[z]] = z /\ at[z] < at[t[i]] /\ at[t[i]] = i
      BY <1>3, <2>1, <3>1, <3>4
    <3> QED BY <1>5, <3>4, <3>5
  <2>4. g \in Bijection(A, B)
    <3>1. g \in [A -> B]
      BY <2>2
    <3>2. \A j, k \in A : g[j] = g[k] => j = k
      BY <1>3, <1>5
    <3>3. \A z \in B : \E j \in A : g[j] = z
      BY <2>3
    <3> QED BY <3>1, <3>2, <3>3 DEF Bijection, Injection, Surjection, IsInjective
  <2>5. IsFiniteSet(A)
    <3>1. A \in SUBSET (1..n)
      BY <1>5
    <3>2. IsFiniteSet(1..n)
      BY <1>2, FS_Interval
    <3> HIDE DEF A
    <3> QED BY <3>1, <3>2, FS_Subset
  <2> HIDE DEF A, B, g
  <2>6. Cardinality(A) = Cardinality(B)
    BY <2>4, <2>5, FS_Bijection DEF ExistsBijection
  <2> QED BY <2>6 DEF A, B
<1>9. ASSUME NEW x \in Found(v, F)
      PROVE  Totals(s)[x] = Sum(v, Kept(v, F, x))
  <2> DEFINE S == Spans(s, x)
             T == Kept(v, F, x)
  <2>1. Totals(s)[x] = Sum(score, S)
    BY <1>6 DEF Totals
  <2>2. \A i \in S : i \in 1..n /\ t[i] \in T
    BY <1>5, <1>8 DEF Spans, Kept
  <2>3. \A c \in T : at[c] \in S /\ t[at[c]] = c
    <3> TAKE c \in T
    <3>1. c \in Of(Cut(v, F), x) /\ c \in Cut(v, F) /\ Cardinality(Better(v, Of(F, x), c)) < MaxSpans
      BY DEF Kept, Of
    <3>2. at[c] \in Own(s, x) /\ t[at[c]] = c
      BY <1>3, <1>5, <3>1
    <3> QED BY <1>8, <3>1, <3>2 DEF Spans
  <2>4. IsFiniteSet(T) /\ \A c \in T : v[c] \in Nat
    BY <1>2, KeptAre
  <2>5. IsFiniteSet(S)
    <3>1. S \in SUBSET (1..n)
      BY <2>2
    <3>2. IsFiniteSet(1..n)
      BY <1>2, FS_Interval
    <3> QED BY <3>1, <3>2, FS_Subset
  <2>6. \A i \in S : score[i] = v[t[i]] /\ score[i] \in Nat /\ at[t[i]] = i
    BY <1>1, <1>3, <1>4, <1>7, <2>2
  <2> HIDE DEF S, T, score
  <2>7. Sum(score, S) = Sum(v, T)
    BY <2>2, <2>3, <2>4, <2>5, <2>6, SumSame
  <2> QED BY <2>1, <2>7 DEF T
<1>10. ASSUME NEW x \in Found(v, F), NEW y \in Found(v, F)
       PROVE  First(s)[x] < First(s)[y] <=>
                \E c \in Of(Cut(v, F), x) : \A e \in Of(Cut(v, F), y) : v[c] > v[e]
  <2> DEFINE i == First(s)[x]
             j == First(s)[y]
  <2>1. /\ i \in Own(s, x) /\ \A k \in Own(s, x) : i <= k
        /\ j \in Own(s, y) /\ \A k \in Own(s, y) : j <= k
    BY <1>1, <1>2, <1>6, Grouping
  <2> HIDE DEF i, j
  <2>2. /\ i \in 1..n /\ t[i] \in Of(Cut(v, F), x) /\ t[i] \in Cut(v, F) /\ at[t[i]] = i
        /\ j \in 1..n /\ t[j] \in Of(Cut(v, F), y) /\ t[j] \in Cut(v, F) /\ at[t[j]] = j
    BY <1>3, <1>5, <2>1
  <2>3. ASSUME i < j, NEW e \in Of(Cut(v, F), y) PROVE v[t[i]] > v[e]
    <3>1. e \in Cut(v, F) /\ at[e] \in Own(s, y) /\ at[e] \in 1..n
      BY <1>3, <1>5 DEF Of
    <3>2. at[t[i]] < at[e]
      BY <2>1, <2>2, <2>3, <3>1
    <3> QED BY <1>3, <2>2, <3>1, <3>2
  <2>4. ASSUME NEW c \in Of(Cut(v, F), x), \A e \in Of(Cut(v, F), y) : v[c] > v[e] PROVE i < j
    <3>1. c \in Cut(v, F) /\ at[c] \in Own(s, x) /\ at[c] \in 1..n
      BY <1>3, <1>5 DEF Of
    <3>2. at[c] < at[t[j]]
      BY <1>3, <2>2, <2>4, <3>1
    <3> QED BY <2>1, <2>2, <3>1, <3>2
  <2>5. i < j => \E c \in Of(Cut(v, F), x) : \A e \in Of(Cut(v, F), y) : v[c] > v[e]
    BY <2>2, <2>3
  <2> QED BY <2>4, <2>5 DEF i, j
<1>11. ASSUME NEW x \in Found(v, F), NEW y \in Found(v, F)
       PROVE  Ahead(Totals(s), First(s), x, y) <=> Beats(v, F, x, y)
  <2>1. Totals(s)[x] = Sum(v, Kept(v, F, x)) /\ Totals(s)[y] = Sum(v, Kept(v, F, y))
    BY <1>9
  <2> QED BY <1>10, <2>1 DEF Ahead, Beats
<1> QED BY <1>6, <1>11 DEF v, F, s

\* Which resume leads another among the hits depends on the chunks that were found.
LEMMA LeadsIs ==
  ASSUME NEW d \in Lists(ChunkIds), NEW l \in Lists(ChunkIds), NEW r \in Replies,
         r.up, Distinct(r.scores), NEW x, NEW y, x # y
  PROVE  Leads(Search(d, l, r), x, y) <=> Ranks(r.scores, ToSet(d) \cup ToSet(l), x, y)
<1> DEFINE v == r.scores
           f == Fused(d, l)
           F == ToSet(d) \cup ToSet(l)
           s == Reranked(f, SearchRerank, r)
           n == Least(SearchRerank, Len(f))
           order == Order(s)
           h == Search(d, l, r)
           ahead == {z \in Found(v, F) : Beats(v, F, z, x)}
<1>1. f \in Lists(ChunkIds) /\ ToSet(f) = F
  BY Fusing
<1>2. /\ Resumes(s) = Found(v, F)
      /\ \A a, b \in Found(v, F) : Ahead(Totals(s), First(s), a, b) <=> Beats(v, F, a, b)
  <2> HIDE DEF f, F
  <2> QED BY <1>1, Grouped
<1>3. SearchRerank \in Nat /\ TopK \in Nat
  BY Chunks
<1>4. n \in Nat /\ s \in Scored(n)
  <2> HIDE DEF f
  <2> QED BY <1>1, <1>3, Reranking
<1>5. h = Firsts(TopK, Hits(s))
  BY DEF Search
<1> HIDE DEF f, F, s, n, h, v
<1>6. /\ DOMAIN h = 1..Least(TopK, Cardinality(Resumes(s)))
      /\ \A i \in DOMAIN h : h[i].resume = order[i]
      /\ order \in Lists(Resumes(s)) /\ ToSet(order) = Resumes(s)
      /\ Len(order) = Cardinality(Resumes(s)) /\ Cardinality(Resumes(s)) \in Nat
  BY <1>3, <1>4, <1>5, FirstHits
<1>7. Sortable(Resumes(s), Totals(s), First(s))
  BY <1>4, Grouping
<1>8. /\ \A a \in Resumes(s) :
           Place(a, order) = 1 + Cardinality(Preceding(Resumes(s), Totals(s), First(s), a))
      /\ \A a, b \in Resumes(s) :
           Ahead(Totals(s), First(s), a, b) <=> Place(a, order) < Place(b, order)
  BY <1>7, Sorting DEF Order
<1>9. x \in Resumes(s) => Preceding(Resumes(s), Totals(s), First(s), x) = ahead
  BY <1>2 DEF Preceding
<1> HIDE DEF ahead, order
<1>10. /\ \A a \in Resumes(s) : Place(a, order) \in 1..Len(order) /\ order[Place(a, order)] = a
       /\ \A i \in 1..Len(order) : order[i] \in Resumes(s) /\ Place(order[i], order) = i
  BY <1>6, Standing
<1>11. x \in Resumes(s) => Place(x, order) = 1 + Cardinality(ahead) /\ Cardinality(ahead) \in Int
  <2> SUFFICES ASSUME x \in Resumes(s) PROVE Cardinality(ahead) \in Int /\ Place(x, order) = 1 + Cardinality(ahead)
    OBVIOUS
  <2>1. IsFiniteSet(Resumes(s))
    BY <1>7 DEF Sortable
  <2>2. ahead \in SUBSET Resumes(s)
    BY <1>2 DEF ahead
  <2>3. Cardinality(ahead) \in Nat
    BY <2>1, <2>2, FS_Subset, FS_CardinalityType
  <2> QED BY <1>8, <1>9, <2>3
<1> DEFINE m == Least(TopK, Len(order))
<1>12. /\ m \in Nat /\ m <= Len(order) /\ m <= TopK /\ (m = TopK \/ m = Len(order))
       /\ Len(order) \in Nat /\ DOMAIN h = 1..m
  BY <1>3, <1>6 DEF Least
<1> HIDE DEF m
<1>13. ASSUME Leads(h, x, y)
       PROVE  /\ x \in Resumes(s) /\ Cardinality(ahead) < TopK
              /\ ~(y \in Resumes(s) /\ Beats(v, F, y, x))
  <2>1. PICK i \in DOMAIN h : h[i].resume = x /\ \A j \in 1..i : h[j].resume # y
    BY <1>13 DEF Leads
  <2>2. i \in 1..m /\ i \in 1..Len(order) /\ order[i] = x
    <3>1. h[i].resume = order[i]
      BY <1>6
    <3>2. i \in 1..m /\ i \in 1..Len(order)
      BY <1>12, <2>1
    <3> QED BY <2>1, <3>1, <3>2
  <2>3. x \in Resumes(s) /\ Place(x, order) = i
    BY <1>10, <2>2
  <2>4. Cardinality(ahead) < TopK
    BY <1>3, <1>11, <1>12, <2>2, <2>3
  <2>5. ASSUME y \in Resumes(s), Beats(v, F, y, x) PROVE FALSE
    <3>1. Place(y, order) < i
      BY <1>2, <1>8, <2>3, <2>5
    <3>2. Place(y, order) \in 1..i /\ Place(y, order) \in DOMAIN h /\ order[Place(y, order)] = y
      BY <1>10, <1>12, <2>2, <2>5, <3>1
    <3> QED BY <1>6, <2>1, <3>2
  <2> QED BY <2>3, <2>4, <2>5
<1>14. ASSUME x \in Resumes(s), Cardinality(ahead) < TopK, ~(y \in Resumes(s) /\ Beats(v, F, y, x))
       PROVE  Leads(h, x, y)
  <2> DEFINE i == Place(x, order)
  <2>1. i \in 1..Len(order) /\ order[i] = x /\ i = 1 + Cardinality(ahead) /\ Cardinality(ahead) \in Int
    BY <1>10, <1>11, <1>14
  <2> HIDE DEF i
  <2>2. i \in DOMAIN h /\ h[i].resume = x
    <3>1. i \in 1..m
      BY <1>3, <1>12, <1>14, <2>1
    <3> QED BY <1>6, <1>12, <2>1, <3>1
  <2>3. ASSUME NEW j \in 1..i, h[j].resume = y PROVE FALSE
    <3>1. j \in DOMAIN h /\ j \in 1..Len(order)
      BY <1>12, <2>1, <2>2
    <3>2. order[j] = y /\ y \in Resumes(s) /\ Place(y, order) = j
      BY <1>6, <1>10, <2>3, <3>1
    <3>3. j # i
      BY <2>1, <3>2
    <3>4. Place(y, order) < Place(x, order)
      BY <2>1, <3>2, <3>3 DEF i
    <3>5. Beats(v, F, y, x)
      BY <1>2, <1>8, <1>14, <3>2, <3>4
    <3> QED BY <1>14, <3>2, <3>5
  <2> QED BY <2>2, <2>3 DEF Leads
<1>15. Ranks(v, F, x, y) <=> /\ x \in Resumes(s) /\ Cardinality(ahead) < TopK
                             /\ ~(y \in Resumes(s) /\ Beats(v, F, y, x))
  BY <1>2 DEF Ranks, ahead
<1>16. Leads(h, x, y) <=> Ranks(v, F, x, y)
  BY <1>13, <1>14, <1>15
<1> QED BY <1>16 DEF h, v, F

\* Searches that find one chunk more.
LEMMA InvMoreEvidence == RetrievalInv => MoreEvidenceNeverHurts
<1> SUFFICES ASSUME RetrievalInv, step = "answered", question.by \in {"hybrid", "semantic", "lexical"},
                    reply.up, Distinct(reply.scores),
                    NEW c \in ToSet(dense) \cup ToSet(lexical), NEW y \in Library \ {ResumeOf[c]},
                    Leads(Search(Without(dense, c), Without(lexical, c), reply), ResumeOf[c], y)
             PROVE  Leads(answer, ResumeOf[c], y)
  BY DEF MoreEvidenceNeverHurts, Answered
<1> DEFINE F1 == ToSet(dense) \cup ToSet(lexical)
           F == F1 \ {c}
           d == Without(dense, c)
           l == Without(lexical, c)
           v == reply.scores
<1>1. /\ dense \in Lists(ChunkIds) /\ lexical \in Lists(ChunkIds) /\ reply \in Replies
      /\ answer = Search(dense, lexical, reply)
  BY DEF RetrievalInv, AskedInv, RecalledInv, AnswerInv
<1>2. ASSUME NEW s \in Lists(ChunkIds)
      PROVE  Without(s, c) \in Lists(ChunkIds) /\ ToSet(Without(s, c)) = ToSet(s) \ {c}
  <2> DEFINE S == ToSet(s) \ {c}
  <2>1. S \subseteq ToSet(s) /\ S \subseteq ChunkIds
    BY Standing
  <2> HIDE DEF S
  <2>2. Only(s, S) \in Lists(S) /\ ToSet(Only(s, S)) = S
    BY <2>1, Chunks, OnlyIs
  <2>3. Only(s, S) \in Lists(ChunkIds)
    BY <2>1, <2>2 DEF Lists
  <2> QED BY <2>2, <2>3 DEF Without, S
<1>3. d \in Lists(ChunkIds) /\ l \in Lists(ChunkIds) /\ ToSet(d) \cup ToSet(l) = F
  BY <1>1, <1>2
<1>4. Untied(v, F1)
  <2>1. F1 \in SUBSET ChunkIds
    BY <1>1, Standing
  <2>2. IsFiniteSet(F1)
    BY <2>1, Chunks, FS_Subset
  <2> HIDE DEF F1
  <2>3. \A e \in F1 : v[e] \in Nat
    BY <1>1, <2>1, RepliesAre
  <2> QED BY <2>1, <2>2, <2>3 DEF Untied, Distinct
<1>5. F1 = F \cup {c} /\ c \notin F
  OBVIOUS
<1> HIDE DEF d, l, v, F
<1>6. Ranks(v, F, ResumeOf[c], y)
  BY <1>1, <1>3, LeadsIs DEF d, l, v
<1> HIDE DEF F1
<1>7. Ranks(v, F1, ResumeOf[c], y)
  BY <1>4, <1>5, <1>6, OneMore
<1> QED BY <1>1, <1>7, LeadsIs DEF v, F1

LEMMA RetrievalHolds == RetrievalInv => RetrievalSound
BY InvJudge, InvDegraded, InvMoreEvidence, InvSimilar DEF RetrievalSound

\* Whoever asks, whatever is committed between the two searches, whatever they find and
\* the reranker answers, with any windows and cuts: RetrievalSound.
THEOREM RetrievalIsSound == RetrievalSpec => []RetrievalSound
<1>1. RetrievalSpec => []RetrievalInv
  BY RetrievalInitial, RetrievalInductive, PTL DEF RetrievalSpec
<1> QED BY <1>1, RetrievalHolds, PTL

LEMMA InvType == RetrievalInv => RetrievalTypeOK
<1> SUFFICES ASSUME RetrievalInv PROVE RetrievalTypeOK
  OBVIOUS
<1>1. Within \subseteq Committed
  BY CommittedAre
<1> QED BY <1>1 DEF RetrievalInv, AskedInv, RecalledInv, RetrievalTypeOK, IndexedChildren

THEOREM RetrievalType == RetrievalSpec => []RetrievalTypeOK
<1>1. RetrievalSpec => []RetrievalInv
  BY RetrievalInitial, RetrievalInductive, PTL DEF RetrievalSpec
<1> QED BY <1>1, InvType, PTL
=============================================================================
