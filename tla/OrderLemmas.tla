---------------------------- MODULE OrderLemmas -----------------------------
(***************************************************************************)
(* Sets of natural numbers have a least element, and bounded ones a        *)
(* greatest; the members of a finite set under a total order have ranks.   *)
(* The other proof modules use the first also in place of an induction:    *)
(* there is no least number at which a claim fails. Walks defined by       *)
(* recursion exist, and are unrolled from either end.  Last, what the rows *)
(* of a table show, for the two that make tables.                          *)
(***************************************************************************)
EXTENDS Integers, FiniteSetTheorems, SequenceTheorems, TLAPS

Tab == INSTANCE Record

(* A set of natural numbers has a least one.                               *)
LEMMA LeastNumber ==
  ASSUME NEW S \in SUBSET Nat, S # {}
  PROVE  \E n \in S : \A m \in S : n <= m
<1>1. IsWellFoundedOn(OpToRel(<, Nat), Nat)
  BY NatLessThanWellFounded
<1>2. PICK n \in S : \A m \in S : <<m, n>> \notin OpToRel(<, Nat)
  BY <1>1, WFMin
<1>3. \A m \in S : ~(m < n)
  BY <1>2, Zenon DEF OpToRel
<1> QED BY <1>3

(* A set of natural numbers with a bound has a greatest one.               *)
LEMMA GreatestNumber ==
  ASSUME NEW bound \in Nat, NEW S \in SUBSET (0 .. bound), S # {}
  PROVE  \E n \in S : \A m \in S : m <= n
<1> DEFINE gaps == {bound - n : n \in S}
<1>1. gaps \in SUBSET Nat /\ gaps # {}
  <2>1. \A n \in S : bound - n \in Nat
    OBVIOUS
  <2> QED BY <2>1
<1>2. PICK g \in gaps : \A h \in gaps : g <= h
  BY <1>1, LeastNumber
<1>3. PICK n \in S : g = bound - n
  OBVIOUS
<1>4. ASSUME NEW m \in S PROVE m <= n
  BY <1>2, <1>3
<1> QED BY <1>4

-----------------------------------------------------------------------------
(* What a finite set has before each of its members.                       *)
Rank(S, R) == [i \in S |-> Cardinality({j \in S : <<j, i>> \in R})]
TotalOrder(S, R) ==
  /\ \A i \in S : <<i, i>> \notin R
  /\ \A i, j, k \in S : <<i, j>> \in R /\ <<j, k>> \in R => <<i, k>> \in R
  /\ \A i, j \in S : i = j \/ <<i, j>> \in R \/ <<j, i>> \in R

(* Ranks go from 0 to one less than the size, each is taken once, and they *)
(* follow the order.                                                       *)
LEMMA RanksCount ==
  ASSUME NEW S, IsFiniteSet(S), NEW R, TotalOrder(S, R)
  PROVE  /\ Cardinality(S) \in Nat
         /\ Rank(S, R) \in [S -> 0 .. Cardinality(S) - 1]
         /\ \A i, j \in S : <<i, j>> \in R <=> Rank(S, R)[i] < Rank(S, R)[j]
         /\ \A i, j \in S : Rank(S, R)[i] = Rank(S, R)[j] => i = j
         /\ \A n \in 0 .. Cardinality(S) - 1 : \E i \in S : Rank(S, R)[i] = n
<1> DEFINE below(i) == {j \in S : <<j, i>> \in R}
           rank == Rank(S, R)
           size == Cardinality(S)
<1>0. size \in Nat
  BY FS_CardinalityType
<1>1. ASSUME NEW i \in S
      PROVE  /\ IsFiniteSet(below(i)) /\ Cardinality(below(i)) \in Nat
             /\ Cardinality(below(i)) < size
             /\ rank[i] = Cardinality(below(i))
  <2>1. below(i) \in SUBSET S /\ below(i) # S
    BY DEF TotalOrder
  <2>2. IsFiniteSet(below(i)) /\ Cardinality(below(i)) <= size /\ Cardinality(below(i)) # size
    <3> HIDE DEF below
    <3> QED BY <2>1, FS_Subset
  <2>3. Cardinality(below(i)) \in Nat
    BY <2>2, FS_CardinalityType
  <2> QED BY <1>0, <2>2, <2>3 DEF Rank
<1>2. ASSUME NEW i \in S, NEW j \in S, <<i, j>> \in R
      PROVE  rank[i] < rank[j]
  <2>1. below(i) \union {i} \in SUBSET below(j) /\ i \notin below(i)
    BY <1>2 DEF TotalOrder
  <2> HIDE DEF below
  <2>2. /\ IsFiniteSet(below(i) \union {i})
        /\ Cardinality(below(i) \union {i}) = Cardinality(below(i)) + 1
    BY <1>1, <2>1, FS_AddElement
  <2>3. Cardinality(below(i) \union {i}) <= Cardinality(below(j))
    BY <1>1, <2>1, FS_Subset
  <2> QED BY <1>1, <2>2, <2>3
<1>3. rank \in [S -> 0 .. size - 1]
  <2>1. ASSUME NEW i \in S PROVE rank[i] \in 0 .. size - 1
    <3> HIDE DEF below, rank, size
    <3> QED BY <1>0, <1>1
  <2> QED BY <2>1 DEF Rank
<1>4. \A i, j \in S : rank[i] \in Int /\ rank[j] \in Int
  BY <1>3
<1> HIDE DEF rank, size, below
<1>5. \A i, j \in S : rank[i] = rank[j] => i = j
  <2> SUFFICES ASSUME NEW i \in S, NEW j \in S, rank[i] = rank[j], i # j
               PROVE  FALSE
    OBVIOUS
  <2>1. <<i, j>> \in R \/ <<j, i>> \in R
    BY DEF TotalOrder
  <2>2. rank[i] < rank[j] \/ rank[j] < rank[i]
    BY <1>2, <2>1
  <2> QED BY <1>4, <2>2
<1>6. \A i, j \in S : <<i, j>> \in R <=> rank[i] < rank[j]
  <2> SUFFICES ASSUME NEW i \in S, NEW j \in S, rank[i] < rank[j]
               PROVE  <<i, j>> \in R
    BY <1>2
  <2>1. i # j /\ ~(rank[j] < rank[i])
    BY <1>4
  <2>2. <<i, j>> \in R \/ <<j, i>> \in R
    BY <2>1 DEF TotalOrder
  <2> QED BY <1>2, <2>1, <2>2
<1>7. rank \in Surjection(S, 0 .. size - 1)
  <2>1. rank \in Injection(S, 0 .. size - 1)
    BY <1>3, <1>5 DEF Injection, IsInjective
  <2>2. IsFiniteSet(0 .. size - 1) /\ Cardinality(0 .. size - 1) = size
    BY <1>0, FS_Interval
  <2> QED BY <2>1, <2>2, FS_Injection DEF size
<1>8. \A n \in 0 .. size - 1 : \E i \in S : rank[i] = n
  BY <1>7 DEF Surjection
<1> QED BY <1>0, <1>3, <1>5, <1>6, <1>8 DEF rank, size

(* Numbers under less-than are such a set.                                 *)
Less(S) == {p \in S \X S : p[1] < p[2]}
(* Less-than is a total order of any set of integers.                      *)
LEMMA NumbersAreOrdered ==
  ASSUME NEW S \in SUBSET Int
  PROVE  TotalOrder(S, Less(S))
<1>1. \A i, j \in S : <<i, j>> \in Less(S) <=> i < j
  BY DEF Less
<1>2. \A i \in S : i \in Int
  OBVIOUS
<1> HIDE DEF Less
<1> QED BY <1>1, <1>2 DEF TotalOrder

-----------------------------------------------------------------------------
(* What holds of a place as soon as it holds of those of lower rank, holds *)
(* of all of them.                                                         *)
LEMMA RankInduction ==
  ASSUME NEW D, NEW rank \in [D -> Nat], NEW good,
         \A p \in D : (\A r \in D : rank[r] < rank[p] => r \in good) => p \in good
  PROVE  D \subseteq good
<1> DEFINE bad == {rank[p] : p \in D \ good}
<1> SUFFICES ASSUME bad # {} PROVE FALSE
  OBVIOUS
<1>1. bad \in SUBSET Nat
  OBVIOUS
<1>2. PICK n \in bad : \A m \in bad : n <= m
  BY <1>1, LeastNumber
<1>3. PICK p \in D \ good : rank[p] = n
  OBVIOUS
<1>4. \A r \in D : rank[r] < rank[p] => r \in good
  BY <1>2, <1>3
<1> QED BY <1>3, <1>4

(* A function that is given on some places, and on each of the others by   *)
(* its value at a place of lower rank, exists.                             *)
Continues(w, p, over, base, next, step) ==
  w[p] = IF p \in over THEN base[p] ELSE step[p][w[next[p]]]
Approximates(w, n, D, rank, over, base, next, step) ==
  \A p \in D : rank[p] < n => Continues(w, p, over, base, next, step)

Descends(D, rank, over, next) ==
  /\ rank \in [D -> Nat] /\ over \in SUBSET D
  /\ next \in [D \ over -> D]
  /\ \A p \in D \ over : rank[next[p]] < rank[p]

(* Where two approximations have both come to, they agree.                 *)
LEMMA ApproximationsAgree ==
  ASSUME NEW D, NEW rank, NEW over, NEW base, NEW next, NEW step,
         Descends(D, rank, over, next)
  PROVE  \A m, n \in Nat : \A w, v :
           /\ Approximates(w, m, D, rank, over, base, next, step)
           /\ Approximates(v, n, D, rank, over, base, next, step)
           => \A p \in D : rank[p] < m /\ rank[p] < n => w[p] = v[p]
<1> SUFFICES ASSUME NEW m \in Nat, NEW n \in Nat, NEW w, NEW v,
                    Approximates(w, m, D, rank, over, base, next, step),
                    Approximates(v, n, D, rank, over, base, next, step)
             PROVE  \A p \in D : rank[p] < m /\ rank[p] < n => w[p] = v[p]
  OBVIOUS
<1> USE DEF Descends
<1> DEFINE good == {p \in D : rank[p] < m /\ rank[p] < n => w[p] = v[p]}
<1>1. ASSUME NEW p \in D, \A r \in D : rank[r] < rank[p] => r \in good
      PROVE  p \in good
  <2> SUFFICES ASSUME rank[p] < m, rank[p] < n PROVE w[p] = v[p]
    OBVIOUS
  <2>1. /\ Continues(w, p, over, base, next, step)
        /\ Continues(v, p, over, base, next, step)
    BY DEF Approximates
  <2>2. CASE p \in over
    BY <2>1, <2>2 DEF Continues
  <2>3. CASE p \notin over
    <3>1. next[p] \in D /\ rank[next[p]] < rank[p]
      BY <2>3
    <3>2. next[p] \in good
      BY <1>1, <3>1
    <3>3. rank[next[p]] < m /\ rank[next[p]] < n
      BY <3>1
    <3> QED BY <2>1, <2>3, <3>2, <3>3 DEF Continues
  <2> QED BY <2>2, <2>3
<1> HIDE DEF good
<1>2. D \subseteq good
  BY <1>1, RankInduction
<1> QED BY <1>2 DEF good

(* So there is a function that continues everywhere: the union of the      *)
(* approximations.                                                         *)
LEMMA RecursionExists ==
  ASSUME NEW D, NEW V, NEW rank, NEW over, NEW next, Descends(D, rank, over, next),
         NEW base, base \in [over -> V], NEW step,
         \A p \in D \ over, v \in V : step[p][v] \in V
  PROVE  \E w \in [D -> V] : \A p \in D : Continues(w, p, over, base, next, step)
<1>0. /\ rank \in [D -> Nat] /\ over \in SUBSET D /\ next \in [D \ over -> D]
      /\ \A p \in D \ over : next[p] \in D /\ rank[next[p]] < rank[p]
  BY DEF Descends
<1>1. \A m, n \in Nat : \A w, v :
        /\ Approximates(w, m, D, rank, over, base, next, step)
        /\ Approximates(v, n, D, rank, over, base, next, step)
        => \A p \in D : rank[p] < m /\ rank[p] < n => w[p] = v[p]
  BY ApproximationsAgree
<1> DEFINE approximates(w, n) == Approximates(w, n, D, rank, over, base, next, step)
           missed == {n \in Nat : ~\E w \in [D -> V] : approximates(w, n)}
<1>2. ASSUME D # {} PROVE V # {}
  <2> DEFINE ranks == {rank[p] : p \in D}
  <2>1. PICK n \in ranks : \A m \in ranks : n <= m
    <3>1. ranks \in SUBSET Nat /\ ranks # {}
      BY <1>0, <1>2
    <3> QED BY <3>1, LeastNumber
  <2>2. PICK p \in D : rank[p] = n
    OBVIOUS
  <2>3. ASSUME p \notin over PROVE FALSE
    <3>1. next[p] \in D /\ rank[next[p]] < n
      BY <1>0, <2>2, <2>3
    <3>2. rank[next[p]] \in ranks /\ rank[next[p]] \in Nat /\ n \in Nat
      BY <1>0, <2>2, <3>1
    <3> HIDE DEF ranks
    <3> QED BY <2>1, <3>1, <3>2
  <2> QED BY <2>3
<1>3. missed = {}
  <2> SUFFICES ASSUME missed # {} PROVE FALSE
    OBVIOUS
  <2>1. PICK n \in missed : \A m \in missed : n <= m
    <3>1. missed \in SUBSET Nat
      OBVIOUS
    <3> QED BY <3>1, LeastNumber
  <2>2. n # 0
    <3> DEFINE w == [p \in D |-> CHOOSE v \in V : TRUE]
    <3>1. w \in [D -> V]
      BY <1>2
    <3>2. approximates(w, 0)
      BY <1>0 DEF Approximates
    <3> QED BY <3>1, <3>2
  <2>3. n - 1 \in Nat /\ n - 1 \notin missed
    BY <2>1, <2>2
  <2>4. PICK w \in [D -> V] : approximates(w, n - 1)
    BY <2>3
  <2> DEFINE v == [p \in D |-> IF rank[p] < n - 1 THEN w[p]
                              ELSE IF p \in over THEN base[p] ELSE step[p][w[next[p]]]]
  <2>5. v \in [D -> V]
    BY <1>0
  <2>6. ASSUME NEW p \in D, rank[p] < n
        PROVE  Continues(v, p, over, base, next, step)
    <3>1. CASE p \in over
      <4>1. rank[p] < n - 1 => w[p] = base[p]
        BY <2>4, <3>1 DEF Approximates, Continues
      <4> QED BY <3>1, <4>1 DEF Continues
    <3>2. CASE p \notin over
      <4>1. next[p] \in D /\ rank[next[p]] < n - 1
        BY <1>0, <2>6, <2>3, <3>2
      <4>2. v[next[p]] = w[next[p]]
        BY <4>1
      <4>3. rank[p] < n - 1 => w[p] = step[p][w[next[p]]]
        BY <2>4, <3>2 DEF Approximates, Continues
      <4> QED BY <3>2, <4>2, <4>3 DEF Continues
    <3> QED BY <3>1, <3>2
  <2>7. approximates(v, n)
    BY <2>6 DEF Approximates
  <2> QED BY <2>5, <2>7
<1> DEFINE nth(n) == CHOOSE w \in [D -> V] : approximates(w, n)
           w == [p \in D |-> nth(rank[p] + 1)[p]]
<1>4. \A n \in Nat : nth(n) \in [D -> V] /\ approximates(nth(n), n)
  BY <1>3
<1> HIDE DEF nth
<1>5. w \in [D -> V]
  BY <1>0, <1>4
<1>6. ASSUME NEW p \in D PROVE Continues(w, p, over, base, next, step)
  <2>1. Continues(nth(rank[p] + 1), p, over, base, next, step)
    <3>1. rank[p] + 1 \in Nat /\ rank[p] < rank[p] + 1
      BY <1>0
    <3> QED BY <1>4, <3>1 DEF Approximates
  <2>2. ASSUME p \notin over
        PROVE  nth(rank[p] + 1)[next[p]] = w[next[p]]
    <3>1. next[p] \in D /\ rank[next[p]] < rank[p]
      BY <1>0, <2>2
    <3> DEFINE m == rank[p] + 1
               n == rank[next[p]] + 1
    <3>2. m \in Nat /\ n \in Nat /\ rank[next[p]] < m /\ rank[next[p]] < n
      BY <1>0, <3>1
    <3>3. approximates(nth(m), m) /\ approximates(nth(n), n)
      BY <1>4, <3>2
    <3> HIDE DEF m, n
    <3>4. \A r \in D : rank[r] < m /\ rank[r] < n => nth(m)[r] = nth(n)[r]
      <4>1. /\ Approximates(nth(m), m, D, rank, over, base, next, step)
            /\ Approximates(nth(n), n, D, rank, over, base, next, step)
        BY <3>3
      <4> QED BY <1>1, <3>2, <4>1
    <3>5. nth(m)[next[p]] = nth(n)[next[p]]
      BY <3>1, <3>2, <3>4
    <3> QED BY <3>1, <3>5 DEF m, n
  <2> QED BY <2>1, <2>2 DEF Continues
<1> HIDE DEF w
<1> QED BY <1>5, <1>6

(* A walk that takes one and the same step each time is defined.           *)
Stepwise(w, zero, step) == w[0] = zero /\ \A k \in Nat : w[k + 1] = step[w[k]]

(* For a step that is a function there is such a walk, and it stays in its *)
(* set.                                                                    *)
LEMMA StepwiseExists ==
  ASSUME NEW V, NEW zero \in V, NEW step \in [V -> V]
  PROVE  \E w \in [Nat -> V] : Stepwise(w, zero, step)
<1> DEFINE over == {0}
           rank == [k \in Nat |-> k]
           next == [k \in Nat \ over |-> k - 1]
           base == [k \in over |-> zero]
           steps == [k \in Nat |-> step]
<1>1. Descends(Nat, rank, over, next)
  BY DEF Descends
<1>2. base \in [over -> V] /\ \A k \in Nat \ over, v \in V : steps[k][v] \in V
  OBVIOUS
<1>3. /\ \A k \in Nat : k + 1 \in Nat /\ k + 1 \notin over /\ next[k + 1] = k /\ steps[k] = step
      /\ 0 \in over /\ base[0] = zero
  OBVIOUS
<1> HIDE DEF over, rank, next, base, steps
<1>4. PICK w \in [Nat -> V] : \A k \in Nat : Continues(w, k, over, base, next, steps)
  BY <1>1, <1>2, RecursionExists
<1>5. w[0] = zero
  BY <1>3, <1>4 DEF Continues
<1>6. ASSUME NEW k \in Nat PROVE w[k + 1] = step[w[k]]
  <2>1. Continues(w, k + 1, over, base, next, steps)
    BY <1>3, <1>4
  <2> QED BY <1>3, <2>1 DEF Continues
<1> QED BY <1>4, <1>5, <1>6 DEF Stepwise

(* What holds of 0, and of the next number with each, holds of all.        *)
LEMMA NumberInduction ==
  ASSUME NEW good, 0 \in good, \A k \in Nat : k \in good => k + 1 \in good
  PROVE  Nat \subseteq good
<1> DEFINE rank == [k \in Nat |-> k]
<1>1. ASSUME NEW k \in Nat, \A r \in Nat : rank[r] < rank[k] => r \in good
      PROVE  k \in good
  <2>1. CASE k # 0
    <3>1. k - 1 \in Nat /\ rank[k - 1] < rank[k] /\ (k - 1) + 1 = k
      BY <2>1
    <3> QED BY <1>1, <3>1
  <2> QED BY <2>1
<1>2. rank \in [Nat -> Nat]
  OBVIOUS
<1> HIDE DEF rank
<1> QED BY <1>1, <1>2, RankInduction

(* A walk that is unrolled from its end is one that is from its start.     *)
FromTheEnd(walk, D, f) ==
  /\ \A p \in D : walk[0][p] = p
  /\ \A k \in Nat, p \in D : walk[k + 1][p] = walk[k][f[p]]

(* Both walks are after k steps at the same place.                         *)
LEMMA FrontIsBack ==
  ASSUME NEW D, NEW f \in [D -> D], NEW walk, FromTheEnd(walk, D, f),
         NEW w, NEW start \in D, Stepwise(w, start, f)
  PROVE  \A k \in Nat : walk[k][start] = w[k]
<1>0. /\ \A p \in D : walk[0][p] = p
      /\ \A k \in Nat, p \in D : walk[k + 1][p] = walk[k][f[p]]
      /\ w[0] = start /\ \A k \in Nat : w[k + 1] = f[w[k]]
  BY DEF FromTheEnd, Stepwise
<1> DEFINE good == {k \in Nat : w[k] \in D /\ \A m \in Nat : walk[m + k][start] = walk[m][w[k]]}
<1>1. 0 \in good
  BY <1>0
<1>2. ASSUME NEW k \in Nat, k \in good PROVE k + 1 \in good
  <2>1. w[k + 1] \in D
    BY <1>0, <1>2
  <2>2. ASSUME NEW m \in Nat PROVE walk[m + (k + 1)][start] = walk[m][w[k + 1]]
    <3>1. m + 1 \in Nat /\ (m + 1) + k = m + (k + 1)
      OBVIOUS
    <3>2. walk[m + (k + 1)][start] = walk[m + 1][w[k]]
      BY <1>0, <1>2, <3>1
    <3> QED BY <1>0, <1>2, <3>2
  <2> QED BY <2>1, <2>2
<1> HIDE DEF good
<1>3. Nat \subseteq good
  BY <1>1, <1>2, NumberInduction
<1>4. ASSUME NEW k \in Nat PROVE walk[k][start] = w[k]
  <2>1. k \in good /\ 0 \in Nat /\ 0 + k = k
    BY <1>3
  <2>2. walk[0 + k][start] = walk[0][w[k]] /\ w[k] \in D
    BY <2>1 DEF good
  <2> QED BY <1>0, <2>1, <2>2
<1> QED BY <1>4

-----------------------------------------------------------------------------
(* A set of numbers is listed in ascending order in one way only.          *)
Ascending(s, S) ==
  /\ s \in Seq(Int)
  /\ \A i, j \in DOMAIN s : i < j => s[i] < s[j]
  /\ \A i \in DOMAIN s : s[i] \in S
  /\ \A n \in S : \E i \in DOMAIN s : s[i] = n

(* Two ascending enumerations of one set have the same item at each place. *)
LEMMA AscendingItems ==
  ASSUME NEW S, NEW s, Ascending(s, S), NEW t, Ascending(t, S)
  PROVE  \A i \in DOMAIN s : i \in DOMAIN t /\ s[i] = t[i]
<1> DEFINE wrong == {i \in DOMAIN s : ~(i \in DOMAIN t /\ s[i] = t[i])}
<1>1. /\ Len(s) \in Nat /\ DOMAIN s = 1 .. Len(s) /\ \A i \in DOMAIN s : s[i] \in Int
      /\ Len(t) \in Nat /\ DOMAIN t = 1 .. Len(t) /\ \A i \in DOMAIN t : t[i] \in Int
  BY DEF Ascending
<1> SUFFICES ASSUME wrong # {} PROVE FALSE
  OBVIOUS
<1>2. PICK i \in wrong : \A j \in wrong : i <= j
  <2>1. wrong \in SUBSET Nat
    BY <1>1
  <2> QED BY <2>1, LeastNumber
<1>3. \A j \in DOMAIN s : j < i => j \in DOMAIN t /\ s[j] = t[j]
  BY <1>1, <1>2
<1>4. PICK k \in DOMAIN t : t[k] = s[i]
  BY DEF Ascending
<1>5. k \notin DOMAIN s \/ ~(k < i)
  <2> SUFFICES ASSUME k \in DOMAIN s, k < i PROVE FALSE
    OBVIOUS
  <2>1. s[k] = s[i]
    BY <1>3, <1>4
  <2> QED BY <1>1, <2>1 DEF Ascending
<1>6. i < k
  <2>1. i # k
    BY <1>4
  <2>2. i \in DOMAIN s /\ i \in Int /\ k \in Int /\ k >= 1
    BY <1>1
  <2> QED BY <1>1, <1>5, <2>1, <2>2
<1>7. i \in DOMAIN t /\ t[i] < s[i]
  BY <1>1, <1>4, <1>6 DEF Ascending
<1>8. PICK l \in DOMAIN s : s[l] = t[i]
  BY <1>7 DEF Ascending
<1>9. l < i
  <2>1. ~(i < l)
    BY <1>1, <1>7, <1>8 DEF Ascending
  <2>2. l # i
    BY <1>1, <1>7, <1>8
  <2>3. l \in Int /\ i \in Int
    BY <1>1
  <2> QED BY <2>1, <2>2, <2>3
<1>10. l \in DOMAIN t /\ t[l] = t[i]
  BY <1>3, <1>8, <1>9
<1> QED BY <1>1, <1>7, <1>9, <1>10 DEF Ascending

(* So a set has one ascending enumeration.                                 *)
LEMMA AscendingUnique ==
  ASSUME NEW S, NEW s, Ascending(s, S), NEW t, Ascending(t, S)
  PROVE  s = t
<1>1. \A i \in DOMAIN s : i \in DOMAIN t /\ s[i] = t[i]
  BY AscendingItems
<1>2. \A i \in DOMAIN t : i \in DOMAIN s
  BY AscendingItems
<1>3. s \in Seq(Int) /\ t \in Seq(Int)
  BY DEF Ascending
<1>4. Len(s) = Len(t)
  <2>1. Len(s) \in Nat /\ DOMAIN s = 1 .. Len(s) /\ Len(t) \in Nat /\ DOMAIN t = 1 .. Len(t)
    BY <1>3
  <2>2. Len(s) <= Len(t)
    <3>1. Len(s) >= 1 => Len(s) \in DOMAIN s
      BY <2>1
    <3> QED BY <1>1, <2>1, <3>1
  <2>3. Len(t) <= Len(s)
    <3>1. Len(t) >= 1 => Len(t) \in DOMAIN t
      BY <2>1
    <3> QED BY <1>2, <2>1, <3>1
  <2>4. Len(s) \in Int /\ Len(t) \in Int
    BY <2>1
  <2> QED BY <2>2, <2>3, <2>4
<1> QED BY <1>1, <1>3, <1>4, SeqEqual

-----------------------------------------------------------------------------
(* The scalars of a row.                                                   *)
LEMMA ScalarCells ==
  ASSUME NEW values, NEW path
  PROVE  /\ \A n \in Tab!Names(values, "scalar") :
              /\ n \in DOMAIN Tab!Scalars(values, path)
              /\ Tab!Scalars(values, path)[n] = values[n].cell
         /\ DOMAIN Tab!Scalars(values, path) = Tab!Names(values, "scalar") \union {Tab!Path}
<1>1. /\ \A n \in Tab!Names(values, "scalar") :
           /\ n \in DOMAIN Tab!Scalars(values, path)
           /\ Tab!Scalars(values, path)[n] = values[n].cell
  BY DEF Tab!Scalars, Tab!Over
<1>2. DOMAIN Tab!Scalars(values, path) = Tab!Names(values, "scalar") \union {Tab!Path}
  BY DEF Tab!Scalars, Tab!Over
<1> QED BY <1>1, <1>2

(* The counts of the module are those of the library.                      *)
LEMMA SameCount == \A S : Tab!Cardinality(S) = Cardinality(S)
BY DEF Tab!Cardinality, Cardinality

(* The quantities that are lists: finitely many, and each is a sequence.   *)
LEMMA ListsAreRows ==
  ASSUME NEW values, IsFiniteSet(DOMAIN values),
         \A n \in DOMAIN values : Tab!IsValue(values[n])
  PROVE  /\ IsFiniteSet(Tab!ListsOf(values)) /\ Cardinality(Tab!ListsOf(values)) \in Nat
         /\ \A n \in Tab!ListsOf(values) :
              values[n].rows \in Seq({values[n].rows[i] : i \in DOMAIN values[n].rows})
<1>1. Tab!ListsOf(values) \subseteq DOMAIN values
  BY DEF Tab!ListsOf, Tab!Names
<1>2. \A n \in Tab!ListsOf(values) : values[n].kind = "list"
  BY DEF Tab!ListsOf, Tab!Names
<1> QED BY <1>1, <1>2, FS_Subset, FS_CardinalityType DEF Tab!IsValue

(* With at most one list the rows of the table show every value; with more *)
(* they are one row of scalars.                                            *)
LEMMA RowsShowValues ==
  ASSUME NEW values, NEW units, NEW path,
         IsFiniteSet(DOMAIN values), \A n \in DOMAIN values : Tab!IsValue(values[n])
  PROVE  LET rows == Tab!FromValues(values, units, path).rows
         IN  /\ IF Cardinality(Tab!ListsOf(values)) <= 1 THEN Tab!Shows(rows, values)
                ELSE Tab!ShowsScalars(rows, values)
             /\ \E k \in Nat : DOMAIN rows = 1 .. k
<1> DEFINE listed == Tab!ListsOf(values)
           scalar == Tab!Names(values, "scalar")
           scalars == Tab!Scalars(values, path)
           rows == Tab!FromValues(values, units, path).rows
           first == CHOOSE n \in listed : TRUE
<1>1. /\ IsFiniteSet(listed) /\ Cardinality(listed) \in Nat
      /\ \A n \in listed : values[n].rows \in Seq({values[n].rows[i] : i \in DOMAIN values[n].rows})
  BY ListsAreRows
<1>2. /\ \A n \in scalar : n \in DOMAIN scalars /\ scalars[n] = values[n].cell
      /\ DOMAIN scalars = scalar \union {Tab!Path}
  BY ScalarCells
<1>3. rows = IF Cardinality(listed) = 1
             THEN [i \in DOMAIN values[first].rows |-> Tab!Over(values[first].rows[i], scalars)]
             ELSE <<scalars>>
  BY SameCount DEF Tab!FromValues, Tab!ListsOf
<1> HIDE DEF rows, scalars, scalar
<1>4. CASE Cardinality(listed) = 1
  <2>1. PICK one : listed = {one}
    BY <1>1, <1>4, FS_Singleton
  <2>2. first = one
    BY <2>1
  <2> HIDE DEF first
  <2> DEFINE list == values[one].rows
  <2>3. list \in Seq({list[i] : i \in DOMAIN list})
    BY <1>1, <2>1
  <2>4. rows = [i \in DOMAIN list |-> Tab!Over(list[i], scalars)]
    BY <1>3, <1>4, <2>2
  <2> HIDE DEF list
  <2>5. Len(list) \in Nat /\ DOMAIN list = 1 .. Len(list)
    BY <2>3
  <2>6. DOMAIN rows = 1 .. Len(list) /\ Len(rows) = Len(list)
    BY <2>4, <2>5
  <2>7. \A i \in DOMAIN list : \A c \in DOMAIN list[i] :
          c \in DOMAIN rows[i] /\ rows[i][c] = list[i][c]
    BY <2>4 DEF Tab!Over
  <2>8. \A i \in DOMAIN list : \A n \in scalar \ DOMAIN list[i] :
          n \in DOMAIN rows[i] /\ rows[i][n] = values[n].cell
    <3>1. ASSUME NEW i \in DOMAIN list, NEW n \in scalar \ DOMAIN list[i]
          PROVE  n \in DOMAIN rows[i] /\ rows[i][n] = values[n].cell
      <4>1. n \in DOMAIN scalars /\ scalars[n] = values[n].cell
        BY <1>2
      <4> QED BY <2>4, <4>1 DEF Tab!Over
    <3> QED BY <3>1
  <2>9. ASSUME NEW n \in scalar, NEW i \in DOMAIN rows
        PROVE  Tab!Shadowed(values, n, i) \/ (n \in DOMAIN rows[i] /\ rows[i][n] = values[n].cell)
    <3>1. CASE n \in DOMAIN list[i]
      BY <2>1, <2>5, <2>6, <3>1 DEF Tab!Shadowed, list
    <3>2. CASE n \notin DOMAIN list[i]
      BY <2>5, <2>6, <2>8, <3>2
    <3> QED BY <3>1, <3>2
  <2>10. ASSUME NEW n \in listed
         PROVE  /\ Len(rows) = Len(values[n].rows)
                /\ \A i \in DOMAIN rows : \A c \in DOMAIN values[n].rows[i] :
                     c \in DOMAIN rows[i] /\ rows[i][c] = values[n].rows[i][c]
    BY <2>1, <2>5, <2>6, <2>7 DEF list
  <2>11. Tab!Shows(rows, values)
    BY <2>9, <2>10, Zenon DEF Tab!Shows, scalar
  <2>12. \E k \in Nat : DOMAIN rows = 1 .. k
    BY <2>5, <2>6
  <2>13. Cardinality(listed) <= 1
    BY <1>4
  <2> HIDE DEF listed
  <2> QED BY <2>11, <2>12, <2>13 DEF rows, listed
<1>5. CASE Cardinality(listed) # 1
  <2>1. rows = <<scalars>> /\ DOMAIN rows = 1 .. 1 /\ rows[1] = scalars /\ Len(rows) = 1
    BY <1>3, <1>5
  <2>2. CASE listed = {}
    <3>1. Cardinality(listed) <= 1
      BY <2>2, FS_EmptySet
    <3>2. Tab!Shows(rows, values)
      BY <1>2, <2>1, <2>2 DEF Tab!Shows, scalar
    <3> QED BY <2>1, <3>1, <3>2 DEF rows
  <2>3. CASE listed # {}
    <3>1. ~(Cardinality(listed) <= 1)
      <4>1. Cardinality(listed) # 0
        BY <1>1, <2>3, FS_EmptySet
      <4> QED BY <1>1, <1>5, <4>1
    <3>2. Tab!ShowsScalars(rows, values)
      BY <1>2, <2>1 DEF Tab!ShowsScalars, scalar
    <3> QED BY <2>1, <3>1, <3>2 DEF rows
  <2> QED BY <2>2, <2>3
<1> QED BY <1>4, <1>5
=============================================================================
