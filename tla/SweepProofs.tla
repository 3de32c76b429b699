---------------------------- MODULE SweepProofs -----------------------------
(***************************************************************************)
(* Proofs about sweeps over the shared registry, for any number of         *)
(* threads, paths, formats, sweeps and refreshes, and any signatures.      *)
(***************************************************************************)
EXTENDS Sweep, SequenceTheorems, OrderLemmas

-----------------------------------------------------------------------------
(* A filtered list: its items are those at the wanted indices, in order.   *)
Enumerates(kept, list, hits, at) ==
  /\ at \in [DOMAIN kept -> hits]
  /\ \A n \in DOMAIN kept : kept[n] = list[at[n]]
  /\ \A m, n \in DOMAIN kept : m < n => at[m] < at[n]
  /\ \A i \in hits : \E n \in DOMAIN kept : at[n] = i

(* What is kept of a list is a list again, in the order it had there.      *)
LEMMA KeptInOrder ==
  ASSUME NEW S, NEW list \in Seq(S), NEW hits \in SUBSET DOMAIN list
  PROVE  /\ Kept(list, hits) \in Seq(S)
         /\ \E at : Enumerates(Kept(list, hits), list, hits, at)
<1> DEFINE size == Cardinality(hits)
           rank == Rank(hits, Less(hits))
           chosen(n) == CHOOSE i \in hits : Cardinality({j \in hits : j < i}) = n - 1
           at == [n \in 1 .. size |-> chosen(n)]
<1>1. IsFiniteSet(hits) /\ hits \in SUBSET Nat
  <2>1. Len(list) \in Nat /\ DOMAIN list = 1 .. Len(list)
    OBVIOUS
  <2>2. IsFiniteSet(1 .. Len(list))
    BY <2>1, FS_Interval
  <2>3. IsFiniteSet(hits)
    BY <2>1, <2>2, FS_Subset
  <2> QED BY <2>1, <2>3
<1>2. /\ size \in Nat
      /\ rank \in [hits -> 0 .. size - 1]
      /\ \A i, j \in hits : <<i, j>> \in Less(hits) <=> rank[i] < rank[j]
      /\ \A i, j \in hits : rank[i] = rank[j] => i = j
      /\ \A n \in 0 .. size - 1 : \E i \in hits : rank[i] = n
  <2>1. TotalOrder(hits, Less(hits))
    BY <1>1, NumbersAreOrdered
  <2> QED BY <1>1, <2>1, RanksCount
<1>3. ASSUME NEW i \in hits
      PROVE  Cardinality({j \in hits : j < i}) = rank[i]
  <2>1. {j \in hits : j < i} = {j \in hits : <<j, i>> \in Less(hits)}
    BY DEF Less
  <2> QED BY <2>1 DEF Rank
<1>4. \A i, j \in hits : i < j <=> rank[i] < rank[j]
  <2>1. \A i, j \in hits : <<i, j>> \in Less(hits) <=> i < j
    BY DEF Less
  <2> QED BY <1>2, <2>1
<1> HIDE DEF rank
<1>5. ASSUME NEW n \in 1 .. size
      PROVE  chosen(n) \in hits /\ rank[chosen(n)] = n - 1
  <2>1. n - 1 \in 0 .. size - 1
    BY <1>2
  <2>2. \E i \in hits : Cardinality({j \in hits : j < i}) = n - 1
    BY <1>2, <1>3, <2>1
  <2>3. chosen(n) \in hits /\ Cardinality({j \in hits : j < chosen(n)}) = n - 1
    BY <2>2
  <2> HIDE DEF chosen
  <2> QED BY <1>3, <2>3
<1>6. Kept(list, hits) = [n \in 1 .. size |-> list[at[n]]]
  BY DEF Kept
<1>7. /\ at \in [1 .. size -> hits]
      /\ \A n \in 1 .. size : rank[at[n]] = n - 1
  BY <1>5
<1> HIDE DEF at, chosen, size
<1>8. \A n \in 1 .. size : list[at[n]] \in S
  BY <1>7
<1>9. Kept(list, hits) \in Seq(S) /\ DOMAIN Kept(list, hits) = 1 .. size
  BY <1>2, <1>6, <1>8
<1>10. ASSUME NEW m \in 1 .. size, NEW n \in 1 .. size, m < n
       PROVE  at[m] < at[n]
  <2>1. rank[at[m]] < rank[at[n]]
    BY <1>7, <1>10
  <2> QED BY <1>4, <1>7, <2>1
<1>11. ASSUME NEW i \in hits PROVE \E n \in 1 .. size : at[n] = i
  <2>1. rank[i] + 1 \in 1 .. size /\ rank[i] \in Int
    BY <1>2
  <2>2. rank[at[rank[i] + 1]] = rank[i]
    BY <1>7, <2>1
  <2> QED BY <1>2, <1>7, <2>1, <2>2
<1>12. Enumerates(Kept(list, hits), list, hits, at)
  BY <1>6, <1>7, <1>9, <1>10, <1>11 DEF Enumerates
<1> QED BY <1>9, <1>12

(* The specs on disk, as they are loaded.                                  *)
LEMMA OnDiskElements ==
  /\ OnDisk \in Seq(Formats)
  /\ Elements(OnDisk) = {f \in disk : f \in Loaded}
<1> DEFINE hits == {i \in DOMAIN Order : Order[i] \in disk}
<1>1. Order \in Seq(Formats) /\ hits \in SUBSET DOMAIN Order
  BY RegistryAssumption
<1>2. OnDisk = Kept(Order, hits)
  BY DEF OnDisk
<1> HIDE DEF hits
<1>3. PICK at : Enumerates(OnDisk, Order, hits, at)
  BY <1>1, <1>2, KeptInOrder
<1>4. OnDisk \in Seq(Formats)
  BY <1>1, <1>2, KeptInOrder
<1> QED BY <1>3, <1>4 DEF Enumerates, hits, Elements, Loaded

-----------------------------------------------------------------------------
(* A sorted list: the places of its items are a permutation that follows   *)
(* priority and, within it, the order the list had.                        *)
Ahead(list, i, j) ==
  Before(list[i], list[j]) \/ (i < j /\ ~Before(list[j], list[i]))

(* Sorting gives each item a place of its own within the list, and items   *)
(* that are ahead get lower ones.                                          *)
LEMMA PlacesArePermuted ==
  ASSUME NEW list \in Seq(Formats)
  PROVE  /\ \A i \in DOMAIN list : Place(list, i) \in DOMAIN list
         /\ \A i, j \in DOMAIN list : Ahead(list, i, j) <=> Place(list, i) < Place(list, j)
         /\ \A i, j \in DOMAIN list : Place(list, i) = Place(list, j) => i = j
         /\ \A n \in DOMAIN list : \E i \in DOMAIN list : Place(list, i) = n
<1> DEFINE S == DOMAIN list
           R == {p \in S \X S : Ahead(list, p[1], p[2])}
           rank == Rank(S, R)
<1>1. S = 1 .. Len(list) /\ Len(list) \in Nat
  OBVIOUS
<1>2. IsFiniteSet(S) /\ Cardinality(S) = Len(list)
  BY <1>1, FS_Interval
<1>3. \A i, j \in S : <<i, j>> \in R <=> Ahead(list, i, j)
  OBVIOUS
<1>4. TotalOrder(S, R)
  <2> DEFINE weight == [i \in S |-> Priority[list[i]]]
  <2>1. \A i \in S : i \in Int /\ weight[i] \in Int
    BY <1>1, SniffAssumption
  <2>a. \A i \in S : weight[i] = Priority[list[i]]
    OBVIOUS
  <2> HIDE DEF S, R, weight
  <2>2. ASSUME NEW i \in S, NEW j \in S
        PROVE  <<i, j>> \in R <=> weight[i] > weight[j] \/ (i < j /\ ~(weight[j] > weight[i]))
    <3>1. <<i, j>> \in R <=> Ahead(list, i, j)
      BY <1>3
    <3>2. Before(list[i], list[j]) <=> weight[i] > weight[j]
      BY <2>1, <2>a DEF Before
    <3>3. Before(list[j], list[i]) <=> weight[j] > weight[i]
      BY <2>1, <2>a DEF Before
    <3> QED BY <3>1, <3>2, <3>3 DEF Ahead
  <2>3. \A i \in S : <<i, i>> \notin R
    BY <2>1, <2>2
  <2>4. ASSUME NEW i \in S, NEW j \in S, i # j
        PROVE  <<i, j>> \in R \/ <<j, i>> \in R
    <3>1. i < j \/ j < i
      BY <2>1, <2>4
    <3>2. weight[i] > weight[j] \/ ~(weight[i] > weight[j])
      OBVIOUS
    <3> QED BY <2>1, <2>2, <3>1, <3>2
  <2>5. ASSUME NEW i \in S, NEW j \in S, NEW k \in S, <<i, j>> \in R, <<j, k>> \in R
        PROVE  <<i, k>> \in R
    <3>1. weight[i] > weight[j] \/ (i < j /\ ~(weight[j] > weight[i]))
      BY <2>2, <2>5
    <3>2. weight[j] > weight[k] \/ (j < k /\ ~(weight[k] > weight[j]))
      BY <2>2, <2>5
    <3>3. weight[i] > weight[k] \/ (i < k /\ ~(weight[k] > weight[i]))
      BY <2>1, <3>1, <3>2
    <3> QED BY <2>2, <3>3
  <2> QED BY <2>3, <2>4, <2>5 DEF TotalOrder
<1>5. ASSUME NEW i \in S
      PROVE  Place(list, i) = 1 + Cardinality({j \in S : <<j, i>> \in R})
  <2> DEFINE ahead == {j \in DOMAIN list : \/ Before(list[j], list[i])
                                           \/ j < i /\ ~Before(list[i], list[j])}
  <2>1. Place(list, i) = 1 + Cardinality(ahead)
    BY DEF Place
  <2>2. ahead = {j \in S : <<j, i>> \in R}
    BY <1>3 DEF Ahead, S
  <2> HIDE DEF ahead
  <2> QED BY <2>1, <2>2
<1> HIDE DEF R
<1>6. /\ rank \in [S -> 0 .. Len(list) - 1]
      /\ \A i, j \in S : <<i, j>> \in R <=> rank[i] < rank[j]
      /\ \A i, j \in S : rank[i] = rank[j] => i = j
      /\ \A n \in 0 .. Len(list) - 1 : \E i \in S : rank[i] = n
  BY <1>2, <1>4, RanksCount
<1>7. ASSUME NEW i \in S PROVE Place(list, i) = 1 + rank[i]
  <2>1. Place(list, i) = 1 + Cardinality({j \in S : <<j, i>> \in R})
    BY <1>5
  <2>2. rank[i] = Cardinality({j \in S : <<j, i>> \in R})
    BY DEF Rank
  <2> QED BY <2>1, <2>2
<1> HIDE DEF rank, S
<1>8. \A i \in S : rank[i] \in 0 .. Len(list) - 1
  BY <1>6
<1>9. \A i \in S : Place(list, i) \in S
  BY <1>1, <1>7, <1>8
<1>10. ASSUME NEW i \in S, NEW j \in S
       PROVE  Ahead(list, i, j) <=> Place(list, i) < Place(list, j)
  <2>1. rank[i] < rank[j] <=> 1 + rank[i] < 1 + rank[j]
    BY <1>8
  <2> QED BY <1>3, <1>6, <1>7, <2>1
<1>11. \A i, j \in S : Place(list, i) = Place(list, j) => i = j
  BY <1>6, <1>7, <1>8
<1>12. ASSUME NEW n \in S PROVE \E i \in S : Place(list, i) = n
  <2>1. n - 1 \in 0 .. Len(list) - 1
    BY <1>1
  <2>2. PICK i \in S : rank[i] = n - 1
    BY <1>6, <2>1
  <2> QED BY <1>1, <1>7, <2>2
<1> QED BY <1>9, <1>10, <1>11, <1>12 DEF S

(* The sorted list has each item at the place sorting gives it.            *)
LEMMA SortedItems ==
  ASSUME NEW list \in Seq(Formats)
  PROVE  /\ Sorted(list) \in Seq(Formats)
         /\ DOMAIN Sorted(list) = DOMAIN list
         /\ \A i \in DOMAIN list : Sorted(list)[Place(list, i)] = list[i]
<1>1. \A i, j \in DOMAIN list : Place(list, i) = Place(list, j) => i = j
  BY PlacesArePermuted
<1>2. \A n \in DOMAIN list : \E i \in DOMAIN list : Place(list, i) = n
  BY PlacesArePermuted
<1>3. \A i \in DOMAIN list : Place(list, i) \in DOMAIN list
  BY PlacesArePermuted
<1> DEFINE chosen(n) == CHOOSE i \in DOMAIN list : Place(list, i) = n
<1>4. ASSUME NEW n \in DOMAIN list
      PROVE  chosen(n) \in DOMAIN list /\ Place(list, chosen(n)) = n
  BY <1>2
<1>5. ASSUME NEW i \in DOMAIN list PROVE chosen(Place(list, i)) = i
  <2> HIDE DEF chosen
  <2> QED BY <1>1, <1>3, <1>4
<1>6. Sorted(list) = [n \in DOMAIN list |-> list[chosen(n)]]
  BY DEF Sorted
<1> HIDE DEF chosen
<1>7. DOMAIN list = 1 .. Len(list) /\ Len(list) \in Nat
  OBVIOUS
<1>8. \A n \in 1 .. Len(list) : list[chosen(n)] \in Formats
  BY <1>4, <1>7
<1>9. Sorted(list) \in Seq(Formats)
  BY <1>6, <1>7, <1>8
<1> QED BY <1>3, <1>5, <1>6, <1>9

-----------------------------------------------------------------------------
(* Lists that give the same formats.                                       *)

(* Sorting orders a list, and changes nothing else.                        *)
LEMMA SortedIsAlike ==
  ASSUME NEW list \in Seq(Formats)
  PROVE  Ordered(Sorted(list)) /\ Alike(Sorted(list), list)
<1> DEFINE sorted == Sorted(list)
           place(i) == Place(list, i)
<1>1. /\ sorted \in Seq(Formats) /\ DOMAIN sorted = DOMAIN list
      /\ \A i \in DOMAIN list : sorted[place(i)] = list[i]
  BY SortedItems
<1>2. /\ \A i \in DOMAIN list : place(i) \in DOMAIN list
      /\ \A i, j \in DOMAIN list : Ahead(list, i, j) <=> place(i) < place(j)
      /\ \A i, j \in DOMAIN list : place(i) = place(j) => i = j
      /\ \A n \in DOMAIN list : \E i \in DOMAIN list : place(i) = n
  BY PlacesArePermuted
<1>3. \A i \in DOMAIN list : i \in Int /\ list[i] \in Formats
  OBVIOUS
<1>4. \A f \in Formats : Priority[f] \in Int
  BY SniffAssumption
<1> HIDE DEF place, sorted
<1>5. Ordered(sorted)
  <2> SUFFICES ASSUME NEW m \in DOMAIN list, NEW n \in DOMAIN list, m < n
               PROVE  ~Before(sorted[n], sorted[m])
    BY <1>1 DEF Ordered
  <2>1. PICK i \in DOMAIN list : place(i) = m
    BY <1>2
  <2>2. PICK j \in DOMAIN list : place(j) = n
    BY <1>2
  <2>3. Ahead(list, i, j)
    BY <1>2, <2>1, <2>2
  <2>4. ~Before(list[j], list[i])
    BY <1>3, <1>4, <2>3 DEF Ahead, Before
  <2> QED BY <1>1, <2>1, <2>2, <2>4
<1>6. Elements(sorted) = Elements(list)
  BY <1>1, <1>2 DEF Elements
<1>7. ASSUME NEW f \in Formats, NEW g \in Formats, Tied(f, g)
      PROVE  Leads(sorted, f, g) <=> Leads(list, f, g)
  <2>1. ASSUME NEW i \in DOMAIN list, NEW j \in DOMAIN list, list[i] = f, list[j] = g
        PROVE  i < j <=> place(i) < place(j)
    BY <1>2, <1>7, <2>1 DEF Ahead, Tied
  <2>2. ASSUME Leads(list, f, g) PROVE Leads(sorted, f, g)
    <3>1. PICK i \in DOMAIN list : list[i] = f /\ \A j \in DOMAIN list : list[j] = g => i < j
      BY <2>2 DEF Leads
    <3>2. ASSUME NEW n \in DOMAIN list, sorted[n] = g PROVE place(i) < n
      <4>1. PICK j \in DOMAIN list : place(j) = n
        BY <1>2
      <4>2. list[j] = g
        BY <1>1, <3>2, <4>1
      <4> QED BY <2>1, <3>1, <4>1, <4>2
    <3> QED BY <1>1, <1>2, <3>1, <3>2 DEF Leads
  <2>3. ASSUME Leads(sorted, f, g) PROVE Leads(list, f, g)
    <3>1. PICK n \in DOMAIN list : sorted[n] = f /\ \A m \in DOMAIN list : sorted[m] = g => n < m
      BY <1>1, <2>3 DEF Leads
    <3>2. PICK i \in DOMAIN list : place(i) = n
      BY <1>2
    <3>3. list[i] = f
      BY <1>1, <3>1, <3>2
    <3>4. ASSUME NEW j \in DOMAIN list, list[j] = g PROVE i < j
      <4>1. place(i) < place(j)
        BY <1>1, <1>2, <3>1, <3>2, <3>4
      <4> QED BY <2>1, <3>3, <3>4, <4>1
    <3> QED BY <3>3, <3>4 DEF Leads
  <2> QED BY <2>2, <2>3
<1> QED BY <1>5, <1>6, <1>7 DEF Alike, sorted

(* Lists being alike is an equivalence.                                    *)
LEMMA AlikeIsEquivalence ==
  /\ \A l : Alike(l, l)
  /\ \A l, m : Alike(l, m) => Alike(m, l)
  /\ \A l, m, n : Alike(l, m) /\ Alike(m, n) => Alike(l, n)
BY DEF Alike

(* A list joined with another has the items of both, in their order.       *)
LEMMA JoinedItems ==
  ASSUME NEW l \in Seq(Formats), NEW s \in Seq(Formats)
  PROVE  /\ l \o s \in Seq(Formats)
         /\ DOMAIN (l \o s) = 1 .. Len(l) + Len(s)
         /\ \A i \in DOMAIN l : i \in DOMAIN (l \o s) /\ (l \o s)[i] = l[i]
         /\ \A i \in DOMAIN s : Len(l) + i \in DOMAIN (l \o s) /\ (l \o s)[Len(l) + i] = s[i]
         /\ \A n \in DOMAIN (l \o s) :
              n \in DOMAIN l \/ \E i \in DOMAIN s : n = Len(l) + i
<1>1. /\ Len(l) \in Nat /\ Len(s) \in Nat /\ DOMAIN l = 1 .. Len(l) /\ DOMAIN s = 1 .. Len(s)
      /\ l \o s \in Seq(Formats) /\ Len(l \o s) = Len(l) + Len(s)
      /\ DOMAIN (l \o s) = 1 .. Len(l) + Len(s)
  OBVIOUS
<1>2. \A i \in DOMAIN l : i \in DOMAIN (l \o s) /\ (l \o s)[i] = l[i]
  BY <1>1
<1>3. \A i \in DOMAIN s : Len(l) + i \in DOMAIN (l \o s) /\ (l \o s)[Len(l) + i] = s[i]
  BY <1>1
<1>4. ASSUME NEW n \in DOMAIN (l \o s), n \notin DOMAIN l
      PROVE  \E i \in DOMAIN s : n = Len(l) + i
  <2>1. n - Len(l) \in DOMAIN s /\ n = Len(l) + (n - Len(l))
    BY <1>1, <1>4
  <2> QED BY <2>1
<1> QED BY <1>1, <1>2, <1>3, <1>4

(* Joining loses no format and adds none.                                  *)
LEMMA JoinedElements ==
  ASSUME NEW l \in Seq(Formats), NEW s \in Seq(Formats)
  PROVE  Elements(l \o s) = Elements(l) \union Elements(s)
<1> DEFINE joined == l \o s
<1>1. /\ \A i \in DOMAIN l : i \in DOMAIN joined /\ joined[i] = l[i]
      /\ \A i \in DOMAIN s : Len(l) + i \in DOMAIN joined /\ joined[Len(l) + i] = s[i]
      /\ \A n \in DOMAIN joined : n \in DOMAIN l \/ \E i \in DOMAIN s : n = Len(l) + i
  BY JoinedItems
<1> HIDE DEF joined
<1>2. \A f : f \in Elements(joined) <=> f \in Elements(l) \/ f \in Elements(s)
  <2>1. ASSUME NEW n \in DOMAIN joined PROVE joined[n] \in Elements(l) \/ joined[n] \in Elements(s)
    BY <1>1 DEF Elements
  <2>2. ASSUME NEW i \in DOMAIN l PROVE l[i] \in Elements(joined)
    BY <1>1 DEF Elements
  <2>3. ASSUME NEW i \in DOMAIN s PROVE s[i] \in Elements(joined)
    BY <1>1 DEF Elements
  <2> QED BY <2>1, <2>2, <2>3 DEF Elements
<1> QED BY <1>2 DEF joined

(* What follows a list ranks only the formats that are not in it yet.      *)
LEMMA LeadsInJoin ==
  ASSUME NEW l \in Seq(Formats), NEW s \in Seq(Formats), NEW f, NEW g
  PROVE  Leads(l \o s, f, g) <=>
           IF f \in Elements(l) THEN Leads(l, f, g) ELSE g \notin Elements(l) /\ Leads(s, f, g)
<1> DEFINE joined == l \o s
<1>0. /\ Len(l) \in Nat /\ DOMAIN l = 1 .. Len(l)
      /\ Len(s) \in Nat /\ DOMAIN s = 1 .. Len(s)
  OBVIOUS
<1>1. /\ \A i \in DOMAIN l : i \in DOMAIN joined /\ joined[i] = l[i]
      /\ \A i \in DOMAIN s : Len(l) + i \in DOMAIN joined /\ joined[Len(l) + i] = s[i]
      /\ \A n \in DOMAIN joined : n \in DOMAIN l \/ \E i \in DOMAIN s : n = Len(l) + i
  BY JoinedItems
<1>a. \A i \in DOMAIN l, j \in DOMAIN s : i < Len(l) + j
  BY <1>0
<1>b. \A i, j \in DOMAIN s : i < j <=> Len(l) + i < Len(l) + j
  BY <1>0
<1>c. \A i \in DOMAIN s, j \in DOMAIN l : ~(Len(l) + i < j)
  BY <1>0
<1> HIDE DEF joined
<1>2. CASE f \in Elements(l)
  <2>1. ASSUME Leads(l, f, g) PROVE Leads(joined, f, g)
    <3>1. PICK i \in DOMAIN l : l[i] = f /\ \A j \in DOMAIN l : l[j] = g => i < j
      BY <2>1 DEF Leads
    <3>2. \A n \in DOMAIN joined : joined[n] = g => i < n
      BY <1>1, <1>a, <3>1
    <3> QED BY <1>1, <3>1, <3>2 DEF Leads
  <2>2. ASSUME Leads(joined, f, g) PROVE Leads(l, f, g)
    <3>1. PICK n \in DOMAIN joined :
            joined[n] = f /\ \A m \in DOMAIN joined : joined[m] = g => n < m
      BY <2>2 DEF Leads
    <3>2. CASE n \in DOMAIN l
      BY <1>1, <3>1, <3>2 DEF Leads
    <3>3. CASE \E i \in DOMAIN s : n = Len(l) + i
      <4>1. \A j \in DOMAIN l : l[j] # g
        BY <1>1, <1>c, <3>1, <3>3
      <4> QED BY <1>2, <4>1 DEF Leads, Elements
    <3> QED BY <1>1, <3>2, <3>3
  <2> QED BY <1>2, <2>1, <2>2 DEF joined
<1>3. CASE f \notin Elements(l)
  <2>1. ASSUME g \notin Elements(l), Leads(s, f, g) PROVE Leads(joined, f, g)
    <3>1. PICK i \in DOMAIN s : s[i] = f /\ \A j \in DOMAIN s : s[j] = g => i < j
      BY <2>1 DEF Leads
    <3>2. \A n \in DOMAIN joined : joined[n] = g => Len(l) + i < n
      BY <1>1, <1>b, <2>1, <3>1 DEF Elements
    <3> QED BY <1>1, <3>1, <3>2 DEF Leads
  <2>2. ASSUME Leads(joined, f, g) PROVE g \notin Elements(l) /\ Leads(s, f, g)
    <3>1. PICK n \in DOMAIN joined :
            joined[n] = f /\ \A m \in DOMAIN joined : joined[m] = g => n < m
      BY <2>2 DEF Leads
    <3>2. PICK i \in DOMAIN s : n = Len(l) + i
      BY <1>1, <1>3, <3>1 DEF Elements
    <3>3. \A j \in DOMAIN l : l[j] # g
      BY <1>1, <1>c, <3>1, <3>2
    <3>4. s[i] = f /\ \A j \in DOMAIN s : s[j] = g => i < j
      BY <1>1, <1>b, <3>1, <3>2
    <3> QED BY <3>3, <3>4 DEF Leads, Elements
  <2> QED BY <1>3, <2>1, <2>2 DEF joined
<1> QED BY <1>2, <1>3

(* Alike lists stay alike whatever follows them.                           *)
LEMMA AlikeJoin ==
  ASSUME NEW l \in Seq(Formats), NEW m \in Seq(Formats), NEW s \in Seq(Formats), Alike(l, m)
  PROVE  Alike(l \o s, m \o s)
<1>1. Elements(l \o s) = Elements(m \o s)
  <2>1. Elements(l) = Elements(m)
    BY DEF Alike
  <2>2. /\ Elements(l \o s) = Elements(l) \union Elements(s)
        /\ Elements(m \o s) = Elements(m) \union Elements(s)
    BY JoinedElements, Zenon
  <2> QED BY <2>1, <2>2
<1>2. ASSUME NEW f \in Formats, NEW g \in Formats, Tied(f, g)
      PROVE  Leads(l \o s, f, g) <=> Leads(m \o s, f, g)
  <2>1. Elements(l) = Elements(m) /\ (Leads(l, f, g) <=> Leads(m, f, g))
    BY <1>2 DEF Alike
  <2> QED BY <2>1, LeadsInJoin
<1> QED BY <1>1, <1>2 DEF Alike

(* What holds nothing new changes nothing when it follows.                 *)
LEMMA AlikeAbsorbs ==
  ASSUME NEW l \in Seq(Formats), NEW s \in Seq(Formats), Elements(s) \subseteq Elements(l)
  PROVE  Alike(l \o s, l)
<1>1. Elements(l \o s) = Elements(l)
  <2>1. Elements(l \o s) = Elements(l) \union Elements(s)
    BY JoinedElements, Zenon
  <2> QED BY <2>1
<1>2. ASSUME NEW f \in Formats, NEW g \in Formats
      PROVE  Leads(l \o s, f, g) <=> Leads(l, f, g)
  <2>1. CASE f \in Elements(l)
    BY <2>1, LeadsInJoin
  <2>2. CASE f \notin Elements(l)
    <3>1. f \notin Elements(s)
      BY <2>2
    <3>2. ~Leads(s, f, g) /\ ~Leads(l, f, g)
      BY <2>2, <3>1 DEF Leads, Elements
    <3> QED BY <2>2, <3>2, LeadsInJoin
  <2> QED BY <2>1, <2>2
<1> QED BY <1>1, <1>2 DEF Alike

-----------------------------------------------------------------------------
(* The first signature of a list that is wanted.                           *)
LEMMA FirstHit ==
  ASSUME NEW list \in Seq(Formats), NEW wanted
  PROVE  \/ /\ FirstIn(list, wanted) = NoFormat
            /\ \A i \in DOMAIN list : list[i] \notin wanted
         \/ \E i \in DOMAIN list :
              /\ FirstIn(list, wanted) = list[i] /\ list[i] \in wanted
              /\ \A j \in DOMAIN list : list[j] \in wanted => i <= j
<1> DEFINE hits == {i \in DOMAIN list : list[i] \in wanted}
<1>1. hits \in SUBSET Nat
  OBVIOUS
<1>2. CASE hits = {}
  BY <1>2 DEF FirstIn
<1>3. CASE hits # {}
  <2>1. \E i \in hits : \A j \in hits : i <= j
    BY <1>1, <1>3, LeastNumber
  <2>2. \E i \in hits : FirstIn(list, wanted) = list[i] /\ \A j \in hits : i <= j
    BY <1>3, <2>1 DEF FirstIn
  <2> QED BY <2>2
<1> QED BY <1>2, <1>3

(* A scan that has passed only unwanted signatures and meets a wanted one. *)
LEMMA ScanHits ==
  ASSUME NEW list \in Seq(Formats), NEW wanted, NEW n \in DOMAIN list, list[n] \in wanted,
         \A i \in DOMAIN list : i < n => list[i] \notin wanted
  PROVE  FirstIn(list, wanted) = list[n] /\ FirstIn(list, wanted) # NoFormat
<1>1. PICK i \in DOMAIN list :
        /\ FirstIn(list, wanted) = list[i] /\ list[i] \in wanted
        /\ \A j \in DOMAIN list : list[j] \in wanted => i <= j
  BY FirstHit
<1>2. i <= n /\ ~(i < n) /\ i \in Int /\ n \in Int
  BY <1>1
<1>3. i = n
  BY <1>2
<1> QED BY <1>1, <1>3, SniffAssumption

(* Looking for what is not in the list finds nothing.                      *)
LEMMA ScanMisses ==
  ASSUME NEW list \in Seq(Formats), NEW wanted, \A i \in DOMAIN list : list[i] \notin wanted
  PROVE  FirstIn(list, wanted) = NoFormat
BY FirstHit

(* Ordered lists that are alike have the same first.                       *)
LEMMA AlikeFirst ==
  ASSUME NEW l \in Seq(Formats), NEW m \in Seq(Formats), NEW wanted,
         Ordered(l), Ordered(m), Alike(l, m)
  PROVE  FirstIn(l, wanted) = FirstIn(m, wanted)
<1>0. Elements(l) = Elements(m)
  BY DEF Alike
<1>1. CASE \A i \in DOMAIN l : l[i] \notin wanted
  <2>1. \A i \in DOMAIN m : m[i] \notin wanted
    BY <1>0, <1>1 DEF Elements
  <2> QED BY <1>1, <2>1, ScanMisses
<1>2. CASE \E i \in DOMAIN l : l[i] \in wanted
  <2>1. PICK i \in DOMAIN l :
          /\ FirstIn(l, wanted) = l[i] /\ l[i] \in wanted
          /\ \A j \in DOMAIN l : l[j] \in wanted => i <= j
    BY <1>2, FirstHit
  <2>2. PICK j \in DOMAIN m :
          /\ FirstIn(m, wanted) = m[j] /\ m[j] \in wanted
          /\ \A k \in DOMAIN m : m[k] \in wanted => j <= k
    <3>1. \E k \in DOMAIN m : m[k] \in wanted
      BY <1>0, <1>2 DEF Elements
    <3> QED BY <3>1, FirstHit
  <2> SUFFICES ASSUME l[i] # m[j] PROVE FALSE
    BY <2>1, <2>2
  <2>3. /\ \A n \in DOMAIN l : n \in Int /\ l[n] \in Formats
        /\ \A n \in DOMAIN m : n \in Int /\ m[n] \in Formats
    OBVIOUS
  <2>4. PICK i2 \in DOMAIN l : l[i2] = m[j]
    BY <1>0 DEF Elements
  <2>5. PICK j2 \in DOMAIN m : m[j2] = l[i]
    BY <1>0 DEF Elements
  <2>6. i < i2 /\ j < j2
    BY <2>1, <2>2, <2>3, <2>4, <2>5
  <2>7. Tied(l[i], m[j])
    BY <2>4, <2>5, <2>6 DEF Ordered, Tied
  <2>8. Leads(l, l[i], m[j])
    <3>1. ASSUME NEW k \in DOMAIN l, l[k] = m[j] PROVE i < k
      <4>1. i <= k /\ i # k
        BY <2>1, <2>2, <3>1
      <4> QED BY <2>3, <4>1
    <3> QED BY <3>1 DEF Leads
  <2>9. Leads(m, l[i], m[j])
    BY <2>3, <2>7, <2>8 DEF Alike
  <2>10. PICK k \in DOMAIN m : m[k] = l[i] /\ k < j
    BY <2>9 DEF Leads
  <2>11. j <= k
    BY <2>1, <2>2, <2>10
  <2> QED BY <2>3, <2>10, <2>11
<1> QED BY <1>1, <1>2

(* sniff_source on a list like the ideal one.                              *)
LEMMA AlikeDetect ==
  ASSUME NEW l \in Seq(Formats), NEW m \in Seq(Formats), NEW file, Ordered(l), Alike(l, m)
  PROVE  Detect(l, file) = Detect(Sorted(m), file)
<1>1. Sorted(m) \in Seq(Formats) /\ Ordered(Sorted(m)) /\ Alike(Sorted(m), m)
  BY SortedItems, SortedIsAlike
<1>2. Alike(l, Sorted(m))
  BY <1>1, AlikeIsEquivalence
<1>3. /\ FirstIn(l, Banner[file]) = FirstIn(Sorted(m), Banner[file])
      /\ FirstIn(l, Suffix[file]) = FirstIn(Sorted(m), Suffix[file])
  BY <1>1, <1>2, AlikeFirst
<1> QED BY <1>3 DEF Detect

-----------------------------------------------------------------------------
(* Types.                                                                  *)

(* Every index of a sweep is that of one of its files.                     *)
LEMMA FileOfIndex ==
  ASSUME TypeOK
  PROVE  /\ paths \in Seq(Files) /\ Len(paths) \in Nat /\ Index = 1 .. Len(paths)
         /\ \A i \in Index : paths[i] \in Files
BY SweepAssumption DEF TypeOK, Index

(* What is loaded from the spec directory are formats.                     *)
LEMMA LoadedFormats == Loaded \subseteq Formats
BY RegistryAssumption DEF Loaded

(* A step of _resolve is one of its thread; it ends in a format or fails.  *)
LEMMA ResolveFrame ==
  ASSUME RegistryTypeOK, NEW t \in Threads, NEW file, Resolve(t, file)
  PROVE  /\ pc' \in [Threads -> Step] /\ pc'[t] # "idle"
         /\ \A u \in Threads \ {t} :
              UNCHANGED <<pc[u], todo[u], saved[u], pos[u], detected[u]>>
         /\ disk' = disk
<1> USE DEF RegistryTypeOK, Goto, Step, Publishing, Sniffing, registry
<1>1. CASE CheckWarm(t, file) \/ CheckCold(t)
  BY <1>1 DEF CheckWarm, CheckCold
<1>2. CASE Load(t)
  BY <1>2 DEF Load
<1>3. CASE Publish(t) \/ Published(t, file)
  BY <1>3 DEF Publish, Published
<1>4. CASE SortBegin(t) \/ SortEnd(t) \/ SortRaises(t)
  BY <1>4 DEF SortBegin, SortEnd, SortRaises, PutBack
<1>5. CASE SniffContent(t, file) \/ SniffSuffix(t, file)
  BY <1>5 DEF SniffContent, SniffSuffix, SniffStep
<1>6. CASE Get(t)
  BY <1>6 DEF Get
<1> QED BY <1>1, <1>2, <1>3, <1>4, <1>5, <1>6 DEF Resolve

(* Finding the format of a file keeps the types of the registry.           *)
LEMMA ResolveType ==
  ASSUME RegistryTypeOK, PublishInv, NEW t \in Threads, NEW file, Resolve(t, file)
  PROVE  RegistryTypeOK'
<1> USE DEF RegistryTypeOK
<1>0. pc' \in [Threads -> Step] /\ disk' = disk
  BY ResolveFrame
<1>1. CASE CheckCold(t) \/ Get(t)
  BY <1>0, <1>1 DEF CheckCold, Get, registry
<1>a. CASE CheckWarm(t, file) \/ Published(t, file)
  <2>1. pos' = [pos EXCEPT ![t] = 1] /\ UNCHANGED <<registry, todo, saved, detected>>
    BY <1>a DEF CheckWarm, Published
  <2> QED BY <1>0, <2>1 DEF registry
<1>2. CASE Load(t)
  BY <1>0, <1>2, OnDiskElements DEF Load
<1>3. CASE Publish(t)
  <2>1. Head(todo[t]) \in Formats
    BY <1>3 DEF Publish
  <2>2. Append(sigs, Head(todo[t])) \in Seq(Formats)
    BY <2>1
  <2> QED BY <1>0, <1>3, <2>2 DEF Publish
<1>4. CASE SortBegin(t)
  <2>1. << >> \in Seq(Formats)
    OBVIOUS
  <2>2. saved' \in [Threads -> [items: Seq(Formats), fresh: BOOLEAN]]
    BY <1>4 DEF SortBegin
  <2> QED BY <1>0, <1>4, <2>1, <2>2 DEF SortBegin
<1>5. CASE SortEnd(t) \/ SortRaises(t)
  <2>1. saved[t].items \in Seq(Formats) /\ saved[t].fresh \in BOOLEAN
    OBVIOUS
  <2>2. NothingSaved \in [items: Seq(Formats), fresh: BOOLEAN]
    BY DEF NothingSaved
  <2>3. /\ sigs' = Sorted(saved[t].items)
        /\ fresh' = saved[t].fresh
        /\ saved' = [saved EXCEPT ![t] = NothingSaved]
        /\ UNCHANGED <<disk, cache, pos, detected>>
    BY <1>5 DEF SortEnd, SortRaises, PutBack
  <2>4. sigs' \in Seq(Formats)
    BY <2>1, <2>3, SortedItems
  <2>5. todo' \in [Threads -> Seq(Formats)]
    <3>1. << >> \in Seq(Formats)
      OBVIOUS
    <3>2. CASE SortRaises(t)
      BY <3>1, <3>2 DEF SortRaises
    <3>3. CASE SortEnd(t)
      <4>1. todo[t] \in Seq(Formats) /\ todo[t] # << >>
        BY <3>3 DEF SortEnd, PublishInv
      <4>2. Tail(todo[t]) \in Seq(Formats)
        BY <4>1
      <4> QED BY <3>3, <4>2 DEF SortEnd
    <3> QED BY <1>5, <3>2, <3>3
  <2>6. saved' \in [Threads -> [items: Seq(Formats), fresh: BOOLEAN]]
    BY <2>2, <2>3
  <2> QED BY <1>0, <2>1, <2>3, <2>4, <2>5, <2>6
<1>6. CASE SniffContent(t, file) \/ SniffSuffix(t, file)
  <2>1. \A i \in DOMAIN sigs : sigs[i] \in Formats
    OBVIOUS
  <2>2. pos[t] \in Nat \ {0} /\ (pos[t] <= Len(sigs) => pos[t] \in DOMAIN sigs)
    OBVIOUS
  <2>3. pos' \in [Threads -> Nat \ {0}]
    <3>1. pos[t] + 1 \in Nat \ {0} /\ 1 \in Nat \ {0}
      BY <2>2
    <3>2. \E n \in {1, pos[t] + 1} : pos' = [pos EXCEPT ![t] = n]
      BY <1>6 DEF SniffContent, SniffSuffix, SniffStep
    <3> QED BY <3>1, <3>2
  <2>4. detected' \in [Threads -> Formats \union {NoFormat}]
    <3>1. UNCHANGED detected \/ \E f \in Formats : detected' = [detected EXCEPT ![t] = f]
      BY <1>6, <2>1, <2>2 DEF SniffContent, SniffSuffix, SniffStep
    <3> QED BY <3>1
  <2> QED BY <1>0, <1>6, <2>3, <2>4 DEF SniffContent, SniffSuffix, SniffStep, registry
<1> QED BY <1>1, <1>a, <1>2, <1>3, <1>4, <1>5, <1>6 DEF Resolve

(* The table and the errors of a sweep all of whose results are there.     *)
LEMMA RowsInOrder ==
  ASSUME TypeOK
  PROVE  /\ Answered \in Seq(Index)
         /\ DOMAIN Rows = DOMAIN Answered /\ \A n \in DOMAIN Rows : Rows[n] = Part(Answered[n])
         /\ \A n \in DOMAIN Answered : Answered[n] \in Index /\ ~Fails(Answered[n])
         /\ \A m, n \in DOMAIN Answered : m < n => Answered[m] < Answered[n]
         /\ \A i \in Index : ~Fails(i) => \E n \in DOMAIN Answered : Answered[n] = i
<1> DEFINE all == [i \in Index |-> i]
           hits == {i \in Index : ~Fails(i)}
<1>1. all \in Seq(Index) /\ DOMAIN all = Index /\ hits \in SUBSET DOMAIN all
  BY FileOfIndex
<1>2. Answered = Kept(all, hits)
  BY DEF Answered
<1>3. \A i \in Index : all[i] = i
  OBVIOUS
<1>h. \A i : i \in hits <=> i \in Index /\ ~Fails(i)
  OBVIOUS
<1> HIDE DEF all
<1> HIDE DEF hits
<1>4. Answered \in Seq(Index)
  <2>1. Kept(all, hits) \in Seq(Index)
    BY <1>1, KeptInOrder
  <2> QED BY <1>2, <2>1
<1>5. PICK at : Enumerates(Answered, all, hits, at)
  BY <1>1, <1>2, KeptInOrder
<1>6. \A n \in DOMAIN Answered : Answered[n] = at[n] /\ at[n] \in hits
  BY <1>1, <1>3, <1>5 DEF Enumerates
<1>7. \A n \in DOMAIN Answered : Answered[n] \in Index /\ ~Fails(Answered[n])
  BY <1>6, <1>h
<1>8. /\ \A m, n \in DOMAIN Answered : m < n => Answered[m] < Answered[n]
      /\ \A i \in hits : \E n \in DOMAIN Answered : Answered[n] = i
  BY <1>5, <1>6 DEF Enumerates
<1>9. \A i \in Index : ~Fails(i) => \E n \in DOMAIN Answered : Answered[n] = i
  BY <1>8, <1>h
<1>10. DOMAIN Rows = DOMAIN Answered /\ \A n \in DOMAIN Rows : Rows[n] = Part(Answered[n])
  BY DEF Rows
<1> QED BY <1>4, <1>7, <1>8, <1>9, <1>10

(* What a path that answered gives: values of the quantities asked for.    *)
LEMMA ValuesOfAnswered ==
  ASSUME TypeOK, NEW i \in Index, results[i] # Pending, ~Fails(i)
  PROVE  /\ DOMAIN Read(i) = Quantities /\ \A n \in Quantities : IsValue(Read(i)[n])
         /\ Misses(i) = Absent(i)
<1>1. results[i] \in Formats /\ paths[i] \in Files
  BY FileOfIndex DEF TypeOK, Fails
<1>2. DOMAIN Read(i) = Quantities /\ \A n \in Quantities : IsValue(Read(i)[n])
  BY <1>1, SweepAssumption DEF Read, Fails
<1>3. TableOf(i).missing = Names(Read(i), "missing")
  BY DEF TableOf, FromValues
<1> QED BY <1>2, <1>3 DEF Misses, Absent, Names

(* Once no result is pending, the rows, errors and statuses collated from  *)
(* them are of their types (batch.py:92-127).                              *)
LEMMA FoldType ==
  ASSUME TypeOK, \A i \in Index : results[i] # Pending
  PROVE  /\ Rows \in Seq({Rows[n] : n \in DOMAIN Rows}) /\ \A n \in DOMAIN Rows : Rows[n].path \in Index
         /\ Errors \subseteq Index \X (Quantities \union {WholeFile})
         /\ Statuses \in [Index -> Endings]
<1>1. \A i \in Index : results[i] \in Formats \union {Error} /\ paths[i] \in Files
  BY FileOfIndex DEF TypeOK
<1>2. /\ Answered \in Seq(Index) /\ DOMAIN Rows = DOMAIN Answered
      /\ \A n \in DOMAIN Rows : Rows[n].path \in Index
  BY RowsInOrder DEF Part
<1>3. Rows \in Seq({Rows[n] : n \in DOMAIN Rows})
  <2>1. DOMAIN Answered = 1 .. Len(Answered) /\ Len(Answered) \in Nat
    BY <1>2
  <2>2. Rows = [n \in 1 .. Len(Answered) |-> Part(Answered[n])]
    BY <2>1 DEF Rows
  <2> QED BY <1>2, <2>1, <2>2
<1>4. \A i \in Index : Misses(i) \subseteq Quantities \union {WholeFile}
  <2>1. ASSUME NEW i \in Index, Fails(i) PROVE Misses(i) \subseteq Quantities \union {WholeFile}
    BY <2>1 DEF Misses
  <2>2. ASSUME NEW i \in Index, ~Fails(i) PROVE Misses(i) \subseteq Quantities \union {WholeFile}
    BY <2>2, ValuesOfAnswered DEF Absent
  <2> QED BY <2>1, <2>2
<1>5. Errors \subseteq Index \X (Quantities \union {WholeFile})
  BY <1>4 DEF Errors
<1>6. Statuses \in [Index -> Endings]
  BY <1>1, SweepAssumption DEF Statuses, StatusOf, Endings
<1> QED BY <1>2, <1>3, <1>5, <1>6

-----------------------------------------------------------------------------
(* The invariant that holds with races and without.                        *)

(* Before the sweep begins, its invariant holds.                           *)
LEMMA InitBase == Init => BaseInv
<1> SUFFICES ASSUME Init PROVE BaseInv
  OBVIOUS
<1> USE DEF Init, RegistryInit
<1>1. paths \in Seq(Files) /\ Len(paths) \in Nat
  BY SweepAssumption
<1>2. RegistryTypeOK
  <2>1. << >> \in Seq(Formats) /\ NothingSaved \in [items: Seq(Formats), fresh: BOOLEAN]
    BY DEF NothingSaved
  <2>2. sigs \in Seq(Formats)
    BY SniffAssumption
  <2>3. /\ disk \subseteq Formats /\ cache \in (SUBSET Formats) \union {NoCache} /\ fresh \in BOOLEAN
    BY LoadedFormats
  <2>4. /\ pc \in [Threads -> Step] /\ todo \in [Threads -> Seq(Formats)]
        /\ saved \in [Threads -> [items: Seq(Formats), fresh: BOOLEAN]]
    BY <2>1 DEF Step
  <2>5. pos \in [Threads -> Nat \ {0}] /\ detected \in [Threads -> Formats \union {NoFormat}]
    OBVIOUS
  <2> QED BY <2>2, <2>3, <2>4, <2>5 DEF RegistryTypeOK
<1>3. TypeOK
  <2>1. /\ phase \in {"idle", "sweeping"} /\ job \in {"get", "check"} /\ active \subseteq Threads
        /\ raced \in BOOLEAN /\ edited \in BOOLEAN
    OBVIOUS
  <2>2. /\ next \in 1 .. Len(paths) + 1
        /\ task \in [Threads -> Index \union {0}]
        /\ results \in [Index -> Formats \union {Pending, Error}]
    BY <1>1 DEF NoResults
  <2>3. /\ rows \in Seq({rows[n] : n \in DOMAIN rows}) /\ \A n \in DOMAIN rows : rows[n].path \in Index
        /\ errors \subseteq Index \X (Quantities \union {WholeFile})
        /\ statuses \in [Index -> Endings] \union {<< >>}
    OBVIOUS
  <2>4. counts \in [sweeps: 0 .. MaxSweeps, refreshes: 0 .. MaxRefreshes, edits: 0 .. MaxEdits]
    BY SweepAssumption
  <2> QED BY <1>2, <2>1, <2>2, <2>3, <2>4 DEF TypeOK
<1>4. PublishInv /\ TaskInv
  BY DEF PublishInv, TaskInv
<1>5. EarnedInv /\ FormatsAreEarned
  BY SweepAssumption DEF EarnedInv, FormatsAreEarned, NoResults
<1>6. FoldInv
  BY DEF FoldInv, IsOver
<1> QED BY <1>3, <1>4, <1>5, <1>6 DEF BaseInv

(* The main thread keeps the types: beginning, collating, refreshing the   *)
(* registry, and editing spec files.                                       *)
LEMMA MainKeepsType ==
  ASSUME TypeOK, PublishInv, Begin \/ Collate \/ RefreshRegistry \/ EditSpecs
  PROVE  TypeOK' /\ PublishInv'
<1>0. paths \in Seq(Files) /\ Len(paths) \in Nat /\ Index = 1 .. Len(paths) /\ paths' = paths
  BY FileOfIndex DEF Begin, Collate, RefreshRegistry, EditSpecs
<1>1. CASE Begin
  <2>1. RegistryTypeOK' /\ PublishInv'
    BY <1>1 DEF Begin, registry, thread, TypeOK, RegistryTypeOK, PublishInv
  <2>2. results' \in [Index -> Formats \union {Pending, Error}] /\ next' \in 1 .. Len(paths) + 1
    BY <1>0, <1>1 DEF Begin, NoResults
  <2>3. counts' \in [sweeps: 0 .. MaxSweeps, refreshes: 0 .. MaxRefreshes, edits: 0 .. MaxEdits]
    BY <1>1, SweepAssumption, SMTT(30) DEF Begin, TypeOK
  <2>4. active' \subseteq Threads /\ raced' \in BOOLEAN
    BY <1>1 DEF Begin, TypeOK
  <2>5. /\ rows' \in Seq({rows'[n] : n \in DOMAIN rows'}) /\ \A n \in DOMAIN rows' : rows'[n].path \in Index
        /\ errors' \subseteq Index \X (Quantities \union {WholeFile})
        /\ statuses' \in [Index -> Endings] \union {<< >>}
    BY <1>1 DEF Begin
  <2>6. phase' \in {"idle", "sweeping"} /\ job' \in {"get", "check"} /\ UNCHANGED <<task, edited>>
    BY <1>1 DEF Begin
  <2>7. Index' = Index
    BY <1>0 DEF Index
  <2> QED BY <1>0, <2>1, <2>2, <2>3, <2>4, <2>5, <2>6, <2>7 DEF TypeOK
<1>2. CASE Collate
  <2>1. RegistryTypeOK' /\ PublishInv'
    BY <1>2 DEF Collate, registry, thread, TypeOK, RegistryTypeOK, PublishInv
  <2>2. /\ rows' \in Seq({rows'[n] : n \in DOMAIN rows'}) /\ \A n \in DOMAIN rows' : rows'[n].path \in Index
        /\ errors' \subseteq Index \X (Quantities \union {WholeFile})
        /\ statuses' \in [Index -> Endings] \union {<< >>}
    BY <1>2, FoldType DEF Collate, Collect, TypeOK
  <2>3. /\ phase' \in {"idle", "sweeping"} /\ active' \subseteq Threads
        /\ UNCHANGED <<job, next, task, results, counts, raced, edited>>
    BY <1>2 DEF Collate
  <2>4. Index' = Index
    BY <1>0 DEF Index
  <2> QED BY <1>0, <2>1, <2>2, <2>3, <2>4 DEF TypeOK
<1>3. CASE RefreshRegistry
  <2>1. RegistryTypeOK' /\ PublishInv'
    <3>1. cache' = NoCache /\ UNCHANGED <<disk, sigs, fresh, pc, todo, saved, pos, detected>>
      BY <1>3 DEF RefreshRegistry, Refresh, thread
    <3> QED BY <3>1 DEF TypeOK, RegistryTypeOK, PublishInv
  <2>2. counts' \in [sweeps: 0 .. MaxSweeps, refreshes: 0 .. MaxRefreshes, edits: 0 .. MaxEdits]
    BY <1>3, SweepAssumption, SMTT(30) DEF RefreshRegistry, TypeOK
  <2>3. Index' = Index
    BY <1>0 DEF Index
  <2> QED BY <1>0, <1>3, <2>1, <2>2, <2>3 DEF TypeOK, RefreshRegistry, sweep, folded
<1>4. CASE EditSpecs
  <2>1. RegistryTypeOK' /\ PublishInv'
    BY <1>4 DEF EditSpecs, RemoveSpec, thread, TypeOK, RegistryTypeOK, PublishInv
  <2>2. counts' \in [sweeps: 0 .. MaxSweeps, refreshes: 0 .. MaxRefreshes, edits: 0 .. MaxEdits]
    <3>1. counts.edits < MaxEdits /\ counts' = [counts EXCEPT !.edits = @ + 1]
      BY <1>4 DEF EditSpecs
    <3>2. counts.edits + 1 \in 0 .. MaxEdits
      BY <3>1, SweepAssumption DEF TypeOK
    <3> QED BY <3>1, <3>2 DEF TypeOK
  <2>3. edited' \in BOOLEAN
    BY <1>4 DEF EditSpecs, TypeOK
  <2>4. Index' = Index
    BY <1>0 DEF Index
  <2> QED BY <1>0, <1>4, <2>1, <2>2, <2>3, <2>4 DEF TypeOK, EditSpecs, sweep, folded
<1> QED BY <1>1, <1>2, <1>3, <1>4

(* The steps of a worker outside the registry.                             *)
LEMMA WorkerFrame ==
  ASSUME TypeOK, NEW t \in Threads, Take(t) \/ Deliver(t)
  PROVE  /\ pc' \in [Threads -> Step]
         /\ \A u \in Threads \ {t} : UNCHANGED <<pc[u], detected[u], task[u]>>
         /\ UNCHANGED <<registry, todo, saved, pos, paths, sweep, counts, raced, edited>>
         /\ UNCHANGED <<disk, cache, sigs, fresh, phase, job, active, rows, errors, statuses>>
BY DEF Take, Deliver, TypeOK, RegistryTypeOK, Goto, Step, registry, sweep, folded

(* So does every thread of the pool.                                       *)
LEMMA WorkerKeepsType ==
  ASSUME BaseInv, NEW t \in Threads, Worker(t)
  PROVE  TypeOK' /\ PublishInv'
<1> USE DEF BaseInv
<1>0. paths \in Seq(Files) /\ Len(paths) \in Nat /\ Index = 1 .. Len(paths) /\ paths' = paths
  BY FileOfIndex DEF Worker, Take, Work, Deliver, batch
<1>a. Index' = Index
  BY <1>0 DEF Index
<1>1. CASE Take(t)
  <2>1. pc'[t] \in {"failed", "check"} /\ UNCHANGED <<detected, results>>
    BY <1>1 DEF Take, Goto, TypeOK, RegistryTypeOK
  <2>2. RegistryTypeOK' /\ PublishInv'
    BY <1>1, <2>1, WorkerFrame DEF TypeOK, RegistryTypeOK, PublishInv
  <2>3. next' \in 1 .. Len(paths) + 1 /\ task' \in [Threads -> Index \union {0}]
    BY <1>0, <1>1 DEF Take, TypeOK
  <2> QED BY <1>0, <1>1, <1>a, <2>1, <2>2, <2>3, WorkerFrame DEF TypeOK
<1>2. CASE Deliver(t)
  <2>1. /\ pc'[t] = "idle" /\ UNCHANGED next
        /\ task' \in [Threads -> Index \union {0}]
        /\ detected' \in [Threads -> Formats \union {NoFormat}]
    BY <1>2 DEF Deliver, Goto, TypeOK, RegistryTypeOK
  <2>2. RegistryTypeOK' /\ PublishInv'
    BY <1>2, <2>1, WorkerFrame DEF TypeOK, RegistryTypeOK, PublishInv
  <2>3. results' \in [Index -> Formats \union {Pending, Error}]
    <3>1. pc[t] = "found" => detected[t] \in Formats
      BY LoadedFormats DEF EarnedInv
    <3> QED BY <1>2, <3>1 DEF Deliver, TypeOK
  <2> QED BY <1>0, <1>2, <1>a, <2>1, <2>2, <2>3, WorkerFrame DEF TypeOK
<1>3. CASE Work(t)
  <2>1. Resolve(t, File(t)) /\ UNCHANGED batch
    BY <1>3 DEF Work
  <2>2. RegistryTypeOK'
    BY <2>1, ResolveType DEF TypeOK
  <2>3. PublishInv'
    <3>1. \A u \in Threads \ {t} : UNCHANGED <<pc[u], todo[u]>>
      BY <2>1, ResolveFrame DEF TypeOK
    <3>2. pc'[t] \in {"sort", "sorting"} => todo'[t] # << >>
      <4> USE DEF TypeOK, RegistryTypeOK, Goto
      <4>1. CASE CheckWarm(t, File(t)) \/ CheckCold(t) \/ Load(t) \/ Published(t, File(t)) \/ Get(t)
        BY <4>1 DEF CheckWarm, CheckCold, Load, Published, Get
      <4>2. CASE Publish(t)
        BY <4>2 DEF Publish
      <4>3. CASE SortBegin(t)
        BY <4>3 DEF SortBegin, PublishInv
      <4>4. CASE SortEnd(t) \/ SortRaises(t)
        BY <4>4 DEF SortEnd, SortRaises
      <4>5. CASE SniffContent(t, File(t)) \/ SniffSuffix(t, File(t))
        BY <4>5 DEF SniffContent, SniffSuffix, SniffStep
      <4> QED BY <2>1, <4>1, <4>2, <4>3, <4>4, <4>5 DEF Resolve
    <3> QED BY <3>1, <3>2 DEF PublishInv
  <2> QED BY <1>a, <2>1, <2>2, <2>3 DEF TypeOK, batch, sweep, folded
<1> QED BY <1>1, <1>2, <1>3 DEF Worker

(* The main thread leaves what the tasks have reached in order.            *)
LEMMA MainKeepsTasks ==
  ASSUME BaseInv, Begin \/ Collate \/ RefreshRegistry \/ EditSpecs
  PROVE  TaskInv'
<1> USE DEF BaseInv
<1>0. UNCHANGED <<pc, task, paths>> /\ Index' = Index
  BY DEF Begin, Collate, RefreshRegistry, EditSpecs, Refresh, RemoveSpec, thread, Index
<1>1. CASE Begin
  <2>1. \A t \in Threads : pc[t] = "idle"
    BY <1>1 DEF Begin, TaskInv
  <2>2. \A i \in Index : results'[i] = Pending
    BY <1>1 DEF Begin, NoResults
  <2> QED BY <1>0, <2>1, <2>2 DEF TaskInv
<1>2. CASE Collate
  <2>1. \A t \in Threads : pc[t] = "idle"
    BY <1>2 DEF Collate, TaskInv
  <2> QED BY <1>0, <1>2, <2>1 DEF Collate, TaskInv
<1>3. CASE RefreshRegistry \/ EditSpecs
  <2>1. UNCHANGED <<phase, active, next, results>>
    BY <1>3 DEF RefreshRegistry, EditSpecs, sweep
  <2> QED BY <1>0, <2>1 DEF TaskInv
<1> QED BY <1>1, <1>2, <1>3

(* A thread of the pool works on one task, which no other thread has.      *)
LEMMA WorkerKeepsTasks ==
  ASSUME BaseInv, NEW t \in Threads, Worker(t)
  PROVE  TaskInv'
<1> USE DEF BaseInv
<1>0. Index' = Index /\ \A i \in Index : i \in Nat
  BY FileOfIndex DEF Worker, Take, Work, Deliver, batch, Index
<1>1. CASE Take(t)
  <2>1. /\ phase = "sweeping" /\ t \in active /\ next \in Index
        /\ task'[t] = next /\ next' = next + 1 /\ UNCHANGED results
    BY <1>1 DEF Take, TypeOK
  <2>2. \A u \in Threads \ {t} : UNCHANGED <<pc[u], task[u]>>
    BY <1>1, WorkerFrame
  <2>3. pc[t] = "idle" /\ UNCHANGED <<phase, active>>
    BY <1>1 DEF Take, sweep
  <2>4. results[next] = Pending
    BY <1>0, <2>1 DEF TaskInv
  <2>5. \A u \in Threads : pc[u] # "idle" => task[u] \in Nat /\ task[u] < next /\ task[u] < next'
    BY <1>0, <2>1 DEF TaskInv
  <2>6. \A u \in Threads : pc'[u] # "idle" =>
          /\ phase' = "sweeping" /\ u \in active'
          /\ task'[u] \in Index' /\ task'[u] < next' /\ results'[task'[u]] = Pending
    BY <1>0, <2>1, <2>2, <2>3, <2>4, <2>5 DEF TaskInv
  <2>7. \A u, v \in Threads :
          pc'[u] # "idle" /\ pc'[v] # "idle" /\ task'[u] = task'[v] => u = v
    BY <1>0, <2>1, <2>2, <2>5 DEF TaskInv
  <2>8. \A i \in Index : i >= next' => results'[i] = Pending
    BY <1>0, <2>1 DEF TaskInv
  <2> QED BY <1>0, <2>6, <2>7, <2>8 DEF TaskInv
<1>2. CASE Deliver(t)
  <2>1. \A u \in Threads \ {t} : UNCHANGED <<pc[u], task[u]>>
    BY <1>2, WorkerFrame
  <2>2. pc[t] # "idle" /\ pc'[t] = "idle" /\ UNCHANGED <<phase, active, next>>
    BY <1>2 DEF Deliver, Goto, sweep, TypeOK, RegistryTypeOK
  <2>3. task[t] \in Index /\ task[t] < next
    BY <2>2 DEF TaskInv
  <2>4. \A i \in Index \ {task[t]} : results'[i] = results[i]
    BY <1>2 DEF Deliver, TypeOK
  <2>5. \A u \in Threads \ {t} : pc[u] # "idle" => task[u] # task[t]
    BY <2>2 DEF TaskInv
  <2>6. \A i \in Index : i >= next => i # task[t]
    BY <1>0, <2>3 DEF TypeOK
  <2>7. \A u \in Threads : pc'[u] # "idle" =>
          /\ phase' = "sweeping" /\ u \in active'
          /\ task'[u] \in Index' /\ task'[u] < next' /\ results'[task'[u]] = Pending
    BY <1>0, <2>1, <2>2, <2>4, <2>5 DEF TaskInv
  <2>8. \A u, v \in Threads :
          pc'[u] # "idle" /\ pc'[v] # "idle" /\ task'[u] = task'[v] => u = v
    BY <2>1, <2>2 DEF TaskInv
  <2>9. phase' = "sweeping" => \A i \in Index' : i >= next' => results'[i] = Pending
    BY <1>0, <2>2, <2>4, <2>6 DEF TaskInv
  <2> QED BY <2>7, <2>8, <2>9 DEF TaskInv
<1>3. CASE Work(t)
  <2>1. /\ pc[t] # "idle" /\ pc'[t] # "idle"
        /\ \A u \in Threads \ {t} : UNCHANGED pc[u]
    BY <1>3, ResolveFrame DEF Work, TypeOK
  <2>2. UNCHANGED <<phase, active, next, task, results>>
    BY <1>3 DEF Work, batch, sweep
  <2> QED BY <1>0, <2>1, <2>2 DEF TaskInv
<1> QED BY <1>1, <1>2, <1>3 DEF Worker

(* What a thread takes for the format of a file, its scan met in the list, *)
(* among what the file's head or suffix speaks for.                        *)
LEMMA ResolveEarns ==
  ASSUME BaseInv, NEW t \in Threads, Resolve(t, File(t))
  PROVE  /\ pc'[t] \in {"get", "found"} => detected'[t] \in Banner[File(t)] \union Suffix[File(t)]
         /\ pc'[t] = "found" => detected'[t] \in Loaded
         /\ disk' = disk /\ (cache' # NoCache => cache' \subseteq Loaded)
<1> USE DEF BaseInv, TypeOK, RegistryTypeOK, EarnedInv, Goto
<1>1. CASE CheckWarm(t, File(t)) \/ CheckCold(t) \/ Published(t, File(t))
  BY <1>1 DEF CheckWarm, CheckCold, Published, registry
<1>2. CASE Load(t)
  BY <1>2 DEF Load
<1>3. CASE Publish(t) \/ SortBegin(t) \/ SortEnd(t) \/ SortRaises(t)
  BY <1>3 DEF Publish, SortBegin, SortEnd, SortRaises, PutBack
<1>4. CASE SniffContent(t, File(t)) \/ SniffSuffix(t, File(t))
  BY <1>4 DEF SniffContent, SniffSuffix, SniffStep, registry
<1>5. CASE Get(t)
  BY <1>5 DEF Get, registry
<1> QED BY <1>1, <1>2, <1>3, <1>4, <1>5 DEF Resolve

(* What a file is taken for is in its banner or its suffix and was loaded: *)
(* every step keeps that, and so each format found is earned.              *)
LEMMA EarnedStep ==
  ASSUME BaseInv, Next
  PROVE  EarnedInv' /\ FormatsAreEarned'
<1> USE DEF BaseInv
<1>a. ASSUME UNCHANGED <<paths, results>> PROVE FormatsAreEarned'
  BY <1>a DEF FormatsAreEarned, Index
<1>b. ASSUME NEW u \in Threads, UNCHANGED <<pc[u], detected[u], File(u)>>
      PROVE  /\ pc'[u] \in {"get", "found"} =>
                  detected'[u] \in Banner[File(u)'] \union Suffix[File(u)']
             /\ pc'[u] = "found" => detected'[u] \in Loaded
  BY <1>b DEF EarnedInv
<1>1. CASE Begin
  <2>1. FormatsAreEarned'
    BY <1>1, SweepAssumption DEF Begin, NoResults, FormatsAreEarned, Index
  <2> QED BY <1>1, <2>1 DEF Begin, registry, thread, EarnedInv, File
<1>2. CASE Collate \/ RefreshRegistry \/ EditSpecs
  <2>1. UNCHANGED <<pc, task, paths, detected, results>>
    BY <1>2 DEF Collate, RefreshRegistry, EditSpecs, Refresh, RemoveSpec, thread
  <2>2. disk' \subseteq disk /\ cache' \in {cache, NoCache}
    BY <1>2 DEF Collate, RefreshRegistry, EditSpecs, Refresh, RemoveSpec, registry
  <2> QED BY <1>a, <2>1, <2>2 DEF EarnedInv, File
<1>3. ASSUME NEW t \in Threads, Take(t) PROVE EarnedInv' /\ FormatsAreEarned'
  <2>1. /\ \A u \in Threads \ {t} : UNCHANGED <<pc[u], detected[u], task[u]>>
        /\ UNCHANGED <<disk, cache, paths, results>>
    BY <1>3, WorkerFrame DEF Take
  <2>2. pc'[t] \in {"failed", "check"}
    BY <1>3 DEF Take, Goto, TypeOK, RegistryTypeOK
  <2>3. \A u \in Threads \ {t} : UNCHANGED File(u)
    BY <2>1 DEF File
  <2> QED BY <1>a, <1>b, <2>1, <2>2, <2>3 DEF EarnedInv
<1>4. ASSUME NEW t \in Threads, Deliver(t) PROVE EarnedInv' /\ FormatsAreEarned'
  <2>1. /\ \A u \in Threads \ {t} : UNCHANGED <<pc[u], detected[u], task[u]>>
        /\ UNCHANGED <<disk, cache, paths>>
    BY <1>4, WorkerFrame
  <2>2. pc'[t] = "idle" /\ pc[t] # "idle"
    BY <1>4 DEF Deliver, Goto, TypeOK, RegistryTypeOK
  <2>3. \A u \in Threads \ {t} : UNCHANGED File(u)
    BY <2>1 DEF File
  <2>4. FormatsAreEarned'
    <3>1. /\ \A i \in Index \ {task[t]} : results'[i] = results[i]
          /\ task[t] \in Index
          /\ results'[task[t]] = IF pc[t] = "found" THEN detected[t] ELSE Error
      BY <1>4, <2>2 DEF Deliver, TypeOK, TaskInv
    <3>2. pc[t] = "found" =>
            detected[t] \in Banner[paths[task[t]]] \union Suffix[paths[task[t]]] /\ detected[t] \in Loaded
      BY DEF EarnedInv, File
    <3>3. \A i \in Index : results'[i] \in Formats =>
            results'[i] \in Banner[paths[i]] \union Suffix[paths[i]] /\ results'[i] \in Loaded
      BY <3>1, <3>2, SweepAssumption DEF FormatsAreEarned
    <3> QED BY <2>1, <3>3 DEF FormatsAreEarned, Index
  <2> QED BY <1>b, <2>1, <2>2, <2>3, <2>4 DEF EarnedInv
<1>5. ASSUME NEW t \in Threads, Work(t) PROVE EarnedInv' /\ FormatsAreEarned'
  <2>1. Resolve(t, File(t)) /\ UNCHANGED <<paths, task, results>>
    BY <1>5 DEF Work, batch
  <2>2. \A u \in Threads \ {t} : UNCHANGED <<pc[u], detected[u]>>
    BY <2>1, ResolveFrame DEF TypeOK
  <2>3. \A u \in Threads : UNCHANGED File(u)
    BY <2>1 DEF File
  <2>4. /\ pc'[t] \in {"get", "found"} => detected'[t] \in Banner[File(t)] \union Suffix[File(t)]
        /\ pc'[t] = "found" => detected'[t] \in Loaded
        /\ disk' = disk /\ (cache' # NoCache => cache' \subseteq Loaded)
    BY <2>1, ResolveEarns
  <2> QED BY <1>a, <1>b, <2>1, <2>2, <2>3, <2>4 DEF EarnedInv
<1> QED BY <1>1, <1>2, <1>3, <1>4, <1>5 DEF Next, Worker

(* No step makes the table disagree with the results it is folded from.    *)
LEMMA FoldStep ==
  ASSUME BaseInv, Next
  PROVE  FoldInv'
<1> USE DEF BaseInv
<1>a. ASSUME UNCHANGED <<paths, results>>
      PROVE  UNCHANGED <<Index, Rows, Errors, Statuses>>
  BY <1>a DEF Index, Rows, Part, TableOf, Read, Fails, Answered, Errors, Misses, Statuses
<1>1. CASE Begin
  BY <1>1 DEF Begin, FoldInv, IsOver
<1>2. CASE Collate
  BY <1>2, <1>a DEF Collate, Collect, FoldInv, IsOver
<1>3. CASE RefreshRegistry \/ EditSpecs
  <2>1. UNCHANGED <<paths, results, phase, job, rows, errors, statuses>>
    BY <1>3 DEF RefreshRegistry, EditSpecs, sweep, folded
  <2>2. counts'.sweeps = counts.sweeps
    BY <1>3 DEF RefreshRegistry, EditSpecs, TypeOK
  <2> QED BY <1>a, <2>1, <2>2 DEF FoldInv, IsOver
<1>4. ASSUME NEW t \in Threads, Worker(t) PROVE FoldInv'
  <2>1. phase = "sweeping" /\ UNCHANGED phase
    BY <1>4 DEF Worker, Take, Work, Deliver, TaskInv, batch, sweep
  <2> QED BY <2>1 DEF FoldInv, IsOver
<1> QED BY <1>1, <1>2, <1>3, <1>4 DEF Next

(* Every step keeps the invariant that holds with and without races.       *)
LEMMA BaseStep ==
  ASSUME BaseInv, [Next]_vars
  PROVE  BaseInv'
<1>1. CASE Next
  <2>1. TypeOK' /\ PublishInv'
    BY <1>1, MainKeepsType, WorkerKeepsType DEF Next, BaseInv
  <2>2. TaskInv'
    BY <1>1, MainKeepsTasks, WorkerKeepsTasks DEF Next
  <2> QED BY <1>1, <2>1, <2>2, EarnedStep, FoldStep DEF BaseInv
<1>2. CASE UNCHANGED vars
  <2>1. UNCHANGED <<registry, thread, batch, sweep, folded>>
    BY <1>2 DEF vars, batch, sweep
  <2>2. UNCHANGED <<Index, Rows, Errors, Statuses>>
    BY <2>1 DEF batch, Index, Rows, Part, TableOf, Read, Fails, Answered, Errors, Misses, Statuses
  <2>3. TypeOK' /\ PublishInv'
    BY <2>1, <2>2 DEF registry, thread, batch, sweep, folded, BaseInv, TypeOK, RegistryTypeOK,
       PublishInv
  <2>4. TaskInv' /\ EarnedInv' /\ FormatsAreEarned' /\ FoldInv'
    BY <2>1, <2>2 DEF registry, thread, batch, sweep, folded, BaseInv, TaskInv, EarnedInv,
       FormatsAreEarned, FoldInv, IsOver, File
  <2> QED BY <2>3, <2>4 DEF BaseInv
<1> QED BY <1>1, <1>2

-----------------------------------------------------------------------------
(* Whatever the interleaving, tasks, results, formats and the table stay   *)
(* as BaseInv has them (batch.py:60-127, registry.py).                     *)
THEOREM SweepBaseInvariant == Spec => []BaseInv
<1>1. BaseInv /\ [Next]_vars => BaseInv'
  BY BaseStep
<1> QED BY <1>1, InitBase, PTL DEF Spec

(* Every variable keeps its type.                                          *)
THEOREM SweepTypeCorrect == Spec => []TypeOK
<1>1. BaseInv => TypeOK
  BY DEF BaseInv
<1> QED BY <1>1, SweepBaseInvariant, PTL

(* However loaders race, no file is given a format that nothing in it      *)
(* speaks for.                                                             *)
THEOREM FormatsAreAlwaysEarned == Spec => []FormatsAreEarned
<1>1. BaseInv => FormatsAreEarned
  BY DEF BaseInv
<1> QED BY <1>1, SweepBaseInvariant, PTL

(* The rows of a path show its values, by the lemma on tables.             *)
LEMMA PartShows ==
  ASSUME TypeOK, NEW i \in Index, results[i] # Pending, ~Fails(i)
  PROVE  Shown(Part(i))
<1> DEFINE values == Read(i)
           rows1 == TableOf(i).rows
<1>1. DOMAIN values = Quantities /\ \A n \in Quantities : IsValue(values[n])
  BY ValuesOfAnswered
<1>2. Part(i).path = i /\ Part(i).rows = rows1
  BY DEF Part
<1>3. rows1 = Tab!FromValues(values, {}, paths[i]).rows
  BY SameCount DEF TableOf, FromValues, Tab!FromValues, Names, Tab!Names, Scalars, Tab!Scalars,
     Over, Tab!Over, Path, Tab!Path
<1> HIDE DEF values, rows1
<1>4. IsFiniteSet(DOMAIN values) /\ \A n \in DOMAIN values : Tab!IsValue(values[n])
  BY <1>1, SweepAssumption DEF IsValue, Tab!IsValue
<1>5. IF Cardinality(Tab!ListsOf(values)) <= 1 THEN Tab!Shows(rows1, values)
      ELSE Tab!ShowsScalars(rows1, values)
  BY <1>3, <1>4, RowsShowValues
<1>6. ListsOf(values) = Tab!ListsOf(values)
  BY DEF ListsOf, Tab!ListsOf, Names, Tab!Names
<1>7. Shows(rows1, values) <=> Tab!Shows(rows1, values)
  BY DEF Shows, Tab!Shows, ListsOf, Tab!ListsOf, Names, Tab!Names, Shadowed, Tab!Shadowed
<1>8. ShowsScalars(rows1, values) <=> Tab!ShowsScalars(rows1, values)
  BY DEF ShowsScalars, Tab!ShowsScalars, Names, Tab!Names, Path, Tab!Path
<1>9. IF Cardinality(ListsOf(values)) <= 1 THEN Shows(rows1, values) ELSE ShowsScalars(rows1, values)
  BY <1>5, <1>6, <1>7, <1>8
<1> QED BY <1>2, <1>9 DEF Shown, values

(* What is folded from all results has every file in the rows or among the *)
(* errors.                                                                 *)
LEMMA FoldAccounts == BaseInv => EveryPathAccounted
<1> SUFFICES ASSUME BaseInv, IsOver("get") PROVE EveryPathAccounted
  BY DEF EveryPathAccounted
<1> DEFINE good == {i \in Index : ~Fails(i)}
<1>1. rows = Rows /\ errors = Errors
  BY DEF BaseInv, FoldInv, IsOver
<1>2. TypeOK /\ \A i \in Index : results[i] # Pending
  BY DEF BaseInv, FoldInv, IsOver
<1>3. \A i \in Index : \A name : <<i, name>> \in errors <=> name \in Misses(i)
  BY <1>1 DEF Errors
<1>4. /\ \A i \in good : Misses(i) = Absent(i) /\ Absent(i) \subseteq Quantities
      /\ \A i \in Index \ good : Misses(i) = {WholeFile}
  <2>1. \A i \in good : Misses(i) = Absent(i)
    BY <1>2, ValuesOfAnswered
  <2> QED BY <2>1 DEF Absent, Misses
<1>5. Unread = Index \ good
  BY <1>3, <1>4, SweepAssumption DEF Unread
<1>6. /\ DOMAIN rows = DOMAIN Answered
      /\ \A n \in DOMAIN rows : rows[n] = Part(Answered[n])
      /\ \A n \in DOMAIN Answered : Answered[n] \in good
      /\ \A m, n \in DOMAIN Answered : m < n => Answered[m] < Answered[n]
      /\ \A i \in good : \E n \in DOMAIN Answered : Answered[n] = i
  BY <1>1, <1>2, RowsInOrder
<1>7. \A n \in DOMAIN rows : rows[n].path = Answered[n]
  BY <1>6 DEF Part
<1>8. \A n \in DOMAIN rows : Shown(rows[n])
  BY <1>2, <1>6, PartShows
<1> HIDE DEF good
<1>9. {rows[n].path : n \in DOMAIN rows} = Index \ Unread
  <2>1. {rows[n].path : n \in DOMAIN rows} = good
    BY <1>6, <1>7
  <2>2. good \subseteq Index
    BY DEF good
  <2> QED BY <1>5, <2>1, <2>2
<1>10. \A m, n \in DOMAIN rows : m < n => rows[m].path < rows[n].path
  BY <1>6, <1>7
<1>11. \A i \in Index \ Unread, name \in Quantities : <<i, name>> \in errors <=> name \in Absent(i)
  <2>1. \A i \in Index \ Unread : i \in good
    BY <1>5
  <2> QED BY <1>3, <1>4, <2>1
<1>12. GetExit = 0 <=> Unread = {} /\ \A i \in Index : Absent(i) = {}
  <2>1. GetExit = 0 <=> errors = {}
    BY DEF GetExit
  <2>2. errors = {} <=> \A i \in Index : Misses(i) = {}
    <3>1. errors \subseteq Index \X (Quantities \union {WholeFile})
      BY <1>2 DEF TypeOK
    <3>2. ASSUME errors = {} PROVE \A i \in Index : Misses(i) = {}
      BY <1>3, <3>2
    <3>3. ASSUME errors # {} PROVE \E i \in Index : Misses(i) # {}
      BY <1>3, <3>1, <3>3
    <3> QED BY <3>2, <3>3
  <2>3. CASE Unread = {}
    <3>1. \A i \in Index : i \in good
      BY <1>5, <2>3
    <3>2. \A i \in Index : Misses(i) = Absent(i)
      BY <1>4, <3>1
    <3> QED BY <2>1, <2>2, <2>3, <3>2
  <2>4. CASE Unread # {}
    <3>1. PICK i \in Unread : TRUE
      BY <2>4
    <3>2. i \in Index /\ Misses(i) = {WholeFile}
      BY <1>4, <1>5, <3>1
    <3>3. ~(\A j \in Index : Misses(j) = {})
      BY <3>2
    <3> QED BY <2>1, <2>2, <2>4, <3>3
  <2> QED BY <2>3, <2>4
<1> QED BY <1>8, <1>9, <1>10, <1>11, <1>12 DEF EveryPathAccounted

(* A sweep that is over has accounted for every path exactly once, by rows *)
(* that show all that was read unless it is two lists or more, or by an    *)
(* error.                                                                  *)
THEOREM SweepsAccount == Spec => []EveryPathAccounted
<1> QED BY FoldAccounts, SweepBaseInvariant, PTL

(* Within a sweep a path gets one result, and keeps it.                    *)
THEOREM ResultsAreFinal == Spec => ResultsStick
<1> DEFINE Stick == phase = "sweeping" =>
                      \A i \in Index : results[i] # Pending => results'[i] = results[i]
<1>1. BaseInv /\ [Next]_vars => [Stick]_vars
  <2> SUFFICES ASSUME BaseInv, Next, phase = "sweeping",
                      NEW i \in Index, results[i] # Pending
               PROVE  results'[i] = results[i]
    OBVIOUS
  <2>1. CASE Collate \/ RefreshRegistry \/ EditSpecs
    BY <2>1 DEF Collate, RefreshRegistry, EditSpecs
  <2>2. CASE Begin
    BY <2>2 DEF Begin
  <2>3. CASE \E t \in Threads : Take(t) \/ Work(t)
    BY <2>3 DEF Take, Work, batch
  <2>4. ASSUME NEW t \in Threads, Deliver(t) PROVE results'[i] = results[i]
    <3>1. results[task[t]] = Pending
      BY <2>4 DEF Deliver, BaseInv, TaskInv
    <3> QED BY <2>4, <3>1 DEF Deliver, BaseInv, TypeOK
  <2> QED BY <2>1, <2>2, <2>3, <2>4 DEF Next, Worker
<1> QED BY <1>1, SweepBaseInvariant, PTL DEF Spec, ResultsStick

-----------------------------------------------------------------------------
(* Without a race: the list is the one a single loader makes.              *)
RightInv == \A i \in Index : results[i] \in {Pending, Expected(paths[i])}
Quiet == ColdInv /\ AloneInv /\ ListInv /\ ScanInv /\ RightInv

(* The list that a registry loaded at leisure would have is one of         *)
(* formats, and the built-in one is ordered.                               *)
LEMMA IdealList ==
  /\ OnDisk \in Seq(Formats) /\ Ideal \in Seq(Formats)
  /\ Ordered(Builtin)
<1>1. OnDisk \in Seq(Formats)
  BY OnDiskElements
<1>2. Ideal \in Seq(Formats)
  BY <1>1, SniffAssumption DEF Ideal
<1>3. Ordered(Builtin)
  <2>1. \A i \in DOMAIN Builtin : Builtin[i] \in Formats
    BY SniffAssumption
  <2> QED BY <2>1, SniffAssumption DEF Ordered, Before
<1> QED BY <1>1, <1>2, <1>3

(* What is expected of the registry depends on the spec directory alone.   *)
LEMMA DiskFrame ==
  ASSUME disk' = disk
  PROVE  /\ OnDisk' = OnDisk /\ Ideal' = Ideal
         /\ \A file : Expected(file)' = Expected(file)
<1>1. OnDisk' = OnDisk
  BY DEF OnDisk
<1> QED BY <1>1 DEF Expected, Ideal

(* The formats on disk are never the mark of an empty registry.            *)
LEMMA DiskIsNoMark == TypeOK => disk # NoCache /\ NoFormat \notin disk
BY SniffAssumption DEF TypeOK, RegistryTypeOK, NoCache

(* A registry that is warm or still cold, and that nobody is publishing    *)
(* to, gives a scan of the list what the ideal list gives.                 *)
LEMMA WarmDetects ==
  ASSUME TypeOK, ListInv, cache # NoCache, \A t \in Threads : ~Publishes(t), NEW file
  PROVE  /\ Ordered(sigs) /\ Detect(sigs, file) = Detect(Sorted(Ideal), file)
         /\ Expected(file) = IF file \in Unreadable \/ Detect(sigs, file) \notin disk
                             THEN Error ELSE Detect(sigs, file)
<1>1. sigs \in Seq(Formats) /\ Ordered(sigs) /\ Alike(sigs, Ideal)
  BY DEF TypeOK, RegistryTypeOK, ListInv
<1>2. Detect(sigs, file) = Detect(Sorted(Ideal), file)
  BY <1>1, IdealList, AlikeDetect
<1> QED BY <1>1, <1>2 DEF Expected, Ideal

(* While the registry is empty or filled, one thread is at work.           *)
LEMMA OthersIdle ==
  ASSUME TaskInv, AloneInv, NEW t \in Threads, pc[t] # "idle",
         cache = NoCache \/ Publishes(t)
  PROVE  \A u \in Threads \ {t} : pc[u] = "idle"
BY DEF TaskInv, AloneInv

(* When a thread is at work and does not publish, none does.               *)
LEMMA NobodyPublishes ==
  ASSUME TaskInv, AloneInv, NEW t \in Threads, pc[t] # "idle", ~Publishes(t)
  PROVE  \A u \in Threads : ~Publishes(u)
<1>1. SUFFICES ASSUME NEW u \in Threads, Publishes(u), u # t PROVE FALSE
  OBVIOUS
<1>2. pc[u] # "idle"
  BY <1>1 DEF Publishes, Publishing
<1> QED BY <1>1, <1>2 DEF TaskInv, AloneInv

-----------------------------------------------------------------------------
(* Before the sweep begins, the invariant of a sweep without races holds.  *)
LEMMA InitQuiet == Init => UnracedInv
<1> SUFFICES ASSUME Init PROVE Quiet
  BY DEF UnracedInv, Quiet, RightInv
<1> USE DEF Init, RegistryInit
<1>1. \A t \in Threads : pc[t] = "idle" /\ ~Publishes(t)
  BY DEF Publishes, Publishing
<1>2. ColdInv /\ AloneInv /\ ScanInv
  BY <1>1 DEF ColdInv, AloneInv, ScanInv
<1>3. ListInv
  BY <1>1, IdealList, AlikeIsEquivalence DEF ListInv, Ideal
<1>4. RightInv
  BY DEF RightInv, NoResults
<1> QED BY <1>2, <1>3, <1>4 DEF Quiet

(* The main thread, whose steps find every worker idle.                    *)
LEMMA MainKeepsQuiet ==
  ASSUME BaseInv, Quiet, ~raced', ~edited',
         Begin \/ Collate \/ RefreshRegistry \/ EditSpecs
  PROVE  Quiet'
<1> USE DEF BaseInv, Quiet
<1>0. \A t \in Threads : pc[t] = "idle" /\ ~Publishes(t)
  BY DEF Begin, Collate, RefreshRegistry, EditSpecs, TaskInv, Publishes, Publishing
<1>1. UNCHANGED <<sigs, fresh, pc, todo, saved, pos, detected, task, paths>> /\ Index' = Index
  BY DEF Begin, Collate, RefreshRegistry, EditSpecs, Refresh, RemoveSpec, registry, thread, Index
<1>2. \A t \in Threads : ~Publishes(t)'
  BY <1>0, <1>1 DEF Publishes
<1>3. ScanInv'
  BY <1>0, <1>1 DEF ScanInv
<1>4. Ordered(sigs) /\ Alike(IF cache = NoCache THEN sigs \o OnDisk ELSE sigs, Ideal)
  BY <1>0 DEF ListInv
<1>5. counts.sweeps \in Nat
  BY SweepAssumption DEF TypeOK
<1>6. CASE Begin
  <2>1. UNCHANGED <<disk, cache>>
    BY <1>6 DEF Begin, registry
  <2>2. ListInv'
    BY <1>1, <1>2, <1>4, <2>1, DiskFrame DEF ListInv
  <2>3. RightInv'
    BY <1>1, <1>6 DEF Begin, NoResults, RightInv
  <2>4. counts'.sweeps # 0
    BY <1>5, <1>6 DEF Begin, TypeOK
  <2>5. ColdInv'
    BY <2>1, <2>4 DEF ColdInv
  <2>6. ASSUME cache = NoCache PROVE \A t, u \in active' : t = u
    <3>1. active' \subseteq Threads /\ ~(Cardinality(active') > 1)
      BY <1>6, <2>6 DEF Begin
    <3>2. IsFiniteSet(active')
      BY <3>1, SweepAssumption, FS_Subset
    <3>3. SUFFICES ASSUME NEW t \in active', NEW u \in active', t # u PROVE FALSE
      OBVIOUS
    <3>4. {t, u} \subseteq active' /\ Cardinality({t, u}) = 2
      <4>1. IsFiniteSet({t}) /\ Cardinality({t}) = 1
        BY FS_Singleton
      <4>2. Cardinality({t} \union {u}) = 1 + 1
        BY <3>3, <4>1, FS_AddElement
      <4>3. {t} \union {u} = {t, u}
        OBVIOUS
      <4> QED BY <3>3, <4>2, <4>3
    <3>5. Cardinality({t, u}) <= Cardinality(active') /\ Cardinality(active') \in Nat
      BY <3>2, <3>4, FS_Subset, FS_CardinalityType
    <3> QED BY <3>1, <3>4, <3>5
  <2>7. AloneInv'
    BY <1>0, <1>1, <1>2, <2>1, <2>6 DEF AloneInv
  <2> QED BY <1>3, <2>2, <2>3, <2>5, <2>7
<1>7. CASE Collate
  <2>1. UNCHANGED <<disk, cache, counts, results>> /\ phase = "sweeping" /\ phase' = "idle"
    BY <1>7 DEF Collate, registry
  <2>2. ListInv'
    BY <1>1, <1>2, <1>4, <2>1, DiskFrame DEF ListInv
  <2>3. RightInv'
    BY <1>1, <2>1, DiskFrame DEF RightInv
  <2>4. ColdInv'
    BY <2>1 DEF ColdInv
  <2>5. AloneInv'
    BY <1>0, <1>1, <2>1 DEF AloneInv
  <2> QED BY <1>3, <2>2, <2>3, <2>4, <2>5
<1>8. CASE RefreshRegistry
  <2>1. UNCHANGED <<disk, results, phase>> /\ phase = "idle" /\ cache' = NoCache
    BY <1>8 DEF RefreshRegistry, Refresh, sweep
  <2>2. counts'.sweeps = counts.sweeps
    BY <1>8 DEF RefreshRegistry, TypeOK
  <2>3. Alike(sigs \o OnDisk, Ideal)
    <3>1. CASE cache = NoCache
      BY <1>4, <3>1
    <3>2. CASE cache # NoCache
      <4>1. Alike(sigs, Ideal) /\ sigs \in Seq(Formats)
        BY <1>4, <3>2 DEF TypeOK, RegistryTypeOK
      <4>2. Elements(Ideal) = Elements(Builtin) \union Elements(OnDisk)
        BY IdealList, SniffAssumption, JoinedElements, Zenon DEF Ideal
      <4>3. Elements(OnDisk) \subseteq Elements(sigs)
        BY <4>1, <4>2 DEF Alike
      <4>4. Alike(sigs \o OnDisk, sigs)
        BY <4>1, <4>3, IdealList, AlikeAbsorbs
      <4> QED BY <4>1, <4>4, AlikeIsEquivalence
    <3> QED BY <3>1, <3>2
  <2>4. ListInv'
    BY <1>1, <1>2, <1>4, <2>1, <2>3, DiskFrame DEF ListInv
  <2>5. RightInv'
    BY <1>1, <2>1, DiskFrame DEF RightInv
  <2>6. ColdInv'
    BY <1>1, <2>1, <2>2 DEF ColdInv, NoResults
  <2>7. AloneInv'
    BY <1>0, <1>1, <2>1 DEF AloneInv
  <2> QED BY <1>3, <2>4, <2>5, <2>6, <2>7
<1>9. CASE EditSpecs
  <2>1. counts.sweeps = 0
    <3>1. ~(counts.sweeps > 0)
      BY <1>9, Zenon DEF EditSpecs
    <3> QED BY <1>5, <3>1
  <2>2. cache = NoCache /\ sigs = Builtin /\ results = NoResults /\ phase = "idle"
    BY <2>1 DEF ColdInv
  <2>3. UNCHANGED <<cache, results, phase>> /\ counts'.sweeps = counts.sweeps
    BY <1>9 DEF EditSpecs, RemoveSpec, sweep, TypeOK
  <2>4. ListInv'
    BY <1>1, <1>2, <2>2, <2>3, IdealList, AlikeIsEquivalence DEF ListInv, Ideal
  <2>5. RightInv'
    BY <1>1, <2>2, <2>3 DEF RightInv, NoResults
  <2>6. ColdInv'
    BY <1>1, <2>2, <2>3 DEF ColdInv, NoResults
  <2>7. AloneInv'
    BY <1>0, <1>1, <2>2, <2>3 DEF AloneInv
  <2> QED BY <1>3, <2>4, <2>5, <2>6, <2>7
<1> QED BY <1>6, <1>7, <1>8, <1>9

-----------------------------------------------------------------------------
(* Every step of a worker is in a sweep, and leaves the specs as they are. *)
LEMMA WorkerInSweep ==
  ASSUME BaseInv, Quiet, NEW t \in Threads, Worker(t)
  PROVE  /\ phase = "sweeping" /\ t \in active /\ counts.sweeps # 0
         /\ UNCHANGED <<paths, phase, active, counts, raced, edited, disk>>
         /\ UNCHANGED <<Index, OnDisk, Ideal>> /\ \A file : Expected(file)' = Expected(file)
<1> USE DEF BaseInv, Quiet
<1>1. phase = "sweeping" /\ t \in active /\ disk' = disk
  <2>1. CASE Take(t) \/ Deliver(t)
    BY <2>1 DEF Take, Deliver, registry, TaskInv
  <2>2. CASE Work(t)
    BY <2>2, ResolveFrame DEF Work, TaskInv, TypeOK
  <2> QED BY <2>1, <2>2 DEF Worker
<1>2. counts.sweeps # 0
  BY <1>1 DEF ColdInv
<1>3. UNCHANGED <<paths, phase, active, counts, raced, edited>>
  BY DEF Worker, Take, Work, Deliver, batch, sweep
<1>4. Index' = Index
  BY <1>3 DEF Index
<1> QED BY <1>1, <1>2, <1>3, <1>4, DiskFrame

(* Taking a path and delivering a result leave the registry alone.         *)
LEMMA TakeAndDeliverKeepQuiet ==
  ASSUME BaseInv, Quiet, NEW t \in Threads, Take(t) \/ Deliver(t)
  PROVE  Quiet'
<1> USE DEF BaseInv, Quiet
<1>1. /\ UNCHANGED <<paths, phase, active, counts, disk, Index, OnDisk, Ideal>>
      /\ counts.sweeps # 0 /\ \A file : Expected(file)' = Expected(file)
  BY WorkerInSweep DEF Worker
<1>2. /\ UNCHANGED <<cache, sigs, fresh, todo, saved, pos>>
      /\ \A u \in Threads \ {t} : UNCHANGED <<pc[u], detected[u], task[u]>>
  BY WorkerFrame
<1>3. pc[t] \in {"idle", "found", "failed"} /\ pc'[t] \in {"idle", "check", "failed"}
  BY DEF Take, Deliver, Goto, TypeOK, RegistryTypeOK
<1>4. \A u \in Threads : Publishes(u)' <=> Publishes(u)
  BY <1>2, <1>3 DEF Publishes, Publishing
<1>5. \A u \in Threads : Publishes(u) => UNCHANGED <<pc[u], Upcoming(u)>>
  BY <1>1, <1>2, <1>3 DEF Publishes, Publishing, Upcoming
<1>6. ColdInv'
  BY <1>1, <1>2 DEF ColdInv
<1>7. AloneInv'
  BY <1>1, <1>2, <1>3, <1>4 DEF AloneInv
<1>8. ListInv'
  BY <1>1, <1>2, <1>4, <1>5 DEF ListInv
<1>9. \A u \in Threads \ {t} : UNCHANGED File(u)
  BY <1>1, <1>2 DEF File
<1>10. CASE Take(t)
  <2>1. /\ pc'[t] = IF paths[next] \in Unreadable THEN "failed" ELSE "check"
        /\ task'[t] = next /\ UNCHANGED <<results, detected>>
    BY <1>10 DEF Take, Goto, TypeOK, RegistryTypeOK
  <2>2. File(t)' = paths[next]
    BY <1>1, <2>1 DEF File
  <2>3. pc'[t] = "failed" => Expected(paths[next]) = Error
    BY <2>1 DEF Expected
  <2>4. ScanInv'
    BY <1>1, <1>2, <1>9, <2>1, <2>2, <2>3 DEF ScanInv, Passed
  <2>5. RightInv'
    BY <1>1, <2>1 DEF RightInv
  <2> QED BY <1>6, <1>7, <1>8, <2>4, <2>5
<1>11. CASE Deliver(t)
  <2>1. pc'[t] = "idle" /\ pc[t] \in {"found", "failed"}
    BY <1>11 DEF Deliver, Goto, TypeOK, RegistryTypeOK
  <2>2. ScanInv'
    BY <1>1, <1>2, <1>9, <2>1 DEF ScanInv, Passed
  <2>3. /\ \A i \in Index \ {task[t]} : results'[i] = results[i]
        /\ results'[task[t]] = IF pc[t] = "found" THEN detected[t] ELSE Error
    BY <1>11, <2>1 DEF Deliver, TypeOK, TaskInv
  <2>4. results'[task[t]] = Expected(paths[task[t]])
    BY <2>1, <2>3 DEF ScanInv, File
  <2>5. RightInv'
    BY <1>1, <2>3, <2>4 DEF RightInv
  <2> QED BY <1>6, <1>7, <1>8, <2>2, <2>5
<1> QED BY <1>10, <1>11

(* What a step of the registry leaves alone.                               *)
LEMMA WorkFrame ==
  ASSUME BaseInv, Quiet, NEW t \in Threads, Work(t)
  PROVE  /\ Resolve(t, File(t)) /\ UNCHANGED <<task, results>>
         /\ \A u \in Threads : UNCHANGED File(u)
         /\ \A u \in Threads \ {t} : UNCHANGED <<pc[u], todo[u], saved[u], pos[u], detected[u]>>
         /\ RightInv'
<1> USE DEF BaseInv, Quiet
<1>1. Resolve(t, File(t)) /\ UNCHANGED <<task, results, paths>>
  BY DEF Work, batch
<1>2. \A u \in Threads : UNCHANGED File(u)
  BY <1>1 DEF File
<1>3. \A u \in Threads \ {t} : UNCHANGED <<pc[u], todo[u], saved[u], pos[u], detected[u]>>
  BY <1>1, ResolveFrame DEF TypeOK
<1>4. RightInv'
  BY <1>1, WorkerInSweep DEF Worker, RightInv
<1> QED BY <1>1, <1>2, <1>3, <1>4

(* A step that leaves the list as it is, by a thread that does not publish.*)
LEMMA ScanKeepsQuiet ==
  ASSUME BaseInv, Quiet, NEW t \in Threads, Work(t),
         CheckWarm(t, File(t)) \/ SniffContent(t, File(t)) \/ SniffSuffix(t, File(t)) \/ Get(t)
  PROVE  Quiet'
<1> USE DEF BaseInv, Quiet
<1>1. /\ UNCHANGED <<paths, phase, active, counts, disk, Index, OnDisk, Ideal>>
      /\ counts.sweeps # 0 /\ \A file : Expected(file)' = Expected(file)
  BY WorkerInSweep DEF Worker
<1>2. /\ \A u \in Threads \ {t} : UNCHANGED <<pc[u], todo[u], saved[u], pos[u], detected[u]>>
      /\ \A u \in Threads : UNCHANGED File(u)
      /\ RightInv'
  BY WorkFrame
<1>3. UNCHANGED <<cache, sigs, fresh, todo, saved>>
  BY DEF CheckWarm, SniffContent, SniffSuffix, SniffStep, Get, registry
<1>4. pc[t] \in {"check", "content", "suffix", "get"} /\ cache # NoCache /\ ~Publishes(t)
  BY DEF CheckWarm, SniffContent, SniffSuffix, SniffStep, Get, AloneInv, Step, Publishing,
     Sniffing, Publishes
<1>5. pc'[t] \in {"content", "suffix", "get", "found", "failed"}
  BY DEF CheckWarm, SniffContent, SniffSuffix, SniffStep, Get, Goto, TypeOK, RegistryTypeOK
<1>6. \A u \in Threads : ~Publishes(u)
  BY <1>4, NobodyPublishes
<1>7. \A u \in Threads : ~Publishes(u)'
  BY <1>2, <1>5, <1>6 DEF Publishes, Publishing
<1>8. ColdInv' /\ AloneInv'
  BY <1>1, <1>2, <1>3, <1>4, <1>5, <1>7 DEF ColdInv, AloneInv
<1>9. ListInv'
  BY <1>1, <1>3, <1>6, <1>7 DEF ListInv
<1>10. /\ Detect(sigs, File(t)) = Detect(Sorted(Ideal), File(t))
       /\ Expected(File(t)) = IF File(t) \in Unreadable \/ Detect(sigs, File(t)) \notin disk
                              THEN Error ELSE Detect(sigs, File(t))
  BY <1>4, <1>6, WarmDetects
<1>11. File(t) \notin Unreadable
  BY <1>4 DEF ScanInv
<1>12. sigs \in Seq(Formats) /\ pos[t] \in Nat \ {0} /\ disk \subseteq Formats
  BY DEF TypeOK, RegistryTypeOK
<1>13. /\ pc'[t] = "content" => Passed(t, Banner[File(t)])'
       /\ pc'[t] = "suffix" =>
            /\ \A i \in DOMAIN sigs : sigs[i] \notin Banner[File(t)]
            /\ Passed(t, Suffix[File(t)])'
       /\ pc'[t] = "get" => detected'[t] = Detect(Sorted(Ideal), File(t))
       /\ pc'[t] = "found" => detected'[t] = Expected(File(t))
       /\ pc'[t] = "failed" => Expected(File(t)) = Error
  <2> USE DEF Goto, TypeOK, RegistryTypeOK
  <2>a. \A i \in DOMAIN sigs : ~(i < 1)
    BY <1>12
  <2>b. \A i \in DOMAIN sigs : i < pos[t] + 1 => i < pos[t] \/ i = pos[t]
    BY <1>12
  <2>c. /\ pos[t] <= Len(sigs) => pos[t] \in DOMAIN sigs
        /\ pos[t] > Len(sigs) => \A i \in DOMAIN sigs : i < pos[t]
    BY <1>12
  <2>1. CASE CheckWarm(t, File(t))
    BY <1>2, <1>3, <2>1, <2>a DEF CheckWarm, Passed
  <2>2. CASE SniffContent(t, File(t))
    <3>1. Passed(t, Banner[File(t)])
      BY <2>2 DEF SniffContent, SniffStep, ScanInv
    <3>2. CASE pos[t] <= Len(sigs) /\ sigs[pos[t]] \in Banner[File(t)]
      <4>1. Detect(sigs, File(t)) = sigs[pos[t]]
        BY <1>12, <2>c, <3>1, <3>2, ScanHits DEF Passed, Detect
      <4>2. pc'[t] = "get" /\ detected'[t] = sigs[pos[t]]
        BY <1>12, <2>2, <3>2 DEF SniffContent, SniffStep
      <4> QED BY <1>10, <4>1, <4>2
    <3>3. CASE pos[t] <= Len(sigs) /\ sigs[pos[t]] \notin Banner[File(t)]
      <4>1. pc'[t] = "content" /\ pos'[t] = pos[t] + 1
        BY <1>12, <2>2, <3>3 DEF SniffContent, SniffStep
      <4>2. Passed(t, Banner[File(t)])'
        BY <1>2, <1>3, <2>b, <3>1, <3>3, <4>1 DEF Passed
      <4> QED BY <4>1, <4>2
    <3>4. CASE pos[t] > Len(sigs)
      <4>1. pc'[t] = "suffix" /\ pos'[t] = 1
        BY <1>12, <2>2, <3>4 DEF SniffContent, SniffStep
      <4>2. \A i \in DOMAIN sigs : sigs[i] \notin Banner[File(t)]
        BY <2>c, <3>1, <3>4 DEF Passed
      <4>3. Passed(t, Suffix[File(t)])'
        BY <1>2, <1>3, <2>a, <4>1 DEF Passed
      <4> QED BY <4>1, <4>2, <4>3
    <3> QED BY <1>12, <3>2, <3>3, <3>4
  <2>3. CASE SniffSuffix(t, File(t))
    <3>1. /\ \A i \in DOMAIN sigs : sigs[i] \notin Banner[File(t)]
          /\ Passed(t, Suffix[File(t)])
      BY <2>3 DEF SniffSuffix, SniffStep, ScanInv
    <3>a. Detect(sigs, File(t)) = FirstIn(sigs, Suffix[File(t)])
      BY <1>12, <3>1, ScanMisses DEF Detect
    <3>2. CASE pos[t] <= Len(sigs) /\ sigs[pos[t]] \in Suffix[File(t)]
      <4>1. Detect(sigs, File(t)) = sigs[pos[t]]
        BY <1>12, <2>c, <3>1, <3>a, <3>2, ScanHits DEF Passed
      <4>2. pc'[t] = "get" /\ detected'[t] = sigs[pos[t]]
        BY <1>12, <2>3, <3>2 DEF SniffSuffix, SniffStep
      <4> QED BY <1>10, <4>1, <4>2
    <3>3. CASE pos[t] <= Len(sigs) /\ sigs[pos[t]] \notin Suffix[File(t)]
      <4>1. pc'[t] = "suffix" /\ pos'[t] = pos[t] + 1
        BY <1>12, <2>3, <3>3 DEF SniffSuffix, SniffStep
      <4>2. Passed(t, Suffix[File(t)])'
        BY <1>2, <1>3, <2>b, <3>1, <3>3, <4>1 DEF Passed
      <4> QED BY <3>1, <4>1, <4>2
    <3>4. CASE pos[t] > Len(sigs)
      <4>1. pc'[t] = "failed"
        BY <1>12, <2>3, <3>4 DEF SniffSuffix, SniffStep
      <4>2. FirstIn(sigs, Suffix[File(t)]) = NoFormat
        BY <1>12, <2>c, <3>1, <3>4, ScanMisses DEF Passed
      <4>3. Expected(File(t)) = Error
        BY <1>10, <3>a, <4>2, DiskIsNoMark
      <4> QED BY <4>1, <4>3
    <3> QED BY <1>12, <3>2, <3>3, <3>4
  <2>4. CASE Get(t)
    <3>1. detected[t] = Detect(Sorted(Ideal), File(t)) /\ cache = disk
      BY <1>4, <2>4 DEF Get, ScanInv, ColdInv
    <3>2. /\ pc'[t] = IF detected[t] \in disk THEN "found" ELSE "failed"
          /\ detected'[t] = detected[t]
      BY <1>4, <2>4, <3>1 DEF Get
    <3> QED BY <1>10, <1>11, <3>1, <3>2
  <2> QED BY <2>1, <2>2, <2>3, <2>4
<1>14. ScanInv'
  <2>1. ASSUME NEW u \in Threads \ {t}
        PROVE  /\ pc'[u] \notin {"idle", "failed"} => File(u) \notin Unreadable
               /\ pc'[u] = "content" => Passed(u, Banner[File(u)])'
               /\ pc'[u] = "suffix" =>
                    /\ \A i \in DOMAIN sigs : sigs[i] \notin Banner[File(u)]
                    /\ Passed(u, Suffix[File(u)])'
               /\ pc'[u] = "get" => detected'[u] = Detect(Sorted(Ideal), File(u))
               /\ pc'[u] = "found" => detected'[u] = Expected(File(u))
               /\ pc'[u] = "failed" => Expected(File(u)) = Error
    BY <1>2, <1>3 DEF ScanInv, Passed
  <2> QED BY <1>1, <1>2, <1>3, <1>11, <1>13, <2>1 DEF ScanInv
<1> QED BY <1>2, <1>8, <1>9, <1>14

(* Moving the head of what is to be published to the end of the list       *)
(* leaves what the list will be.                                           *)
LEMMA AppendHead ==
  ASSUME NEW l \in Seq(Formats), NEW s \in Seq(Formats), s # << >>
  PROVE  /\ Head(s) \in Formats /\ Tail(s) \in Seq(Formats)
         /\ Append(l, Head(s)) \in Seq(Formats)
         /\ Append(l, Head(s)) \o Tail(s) = l \o s
<1>1. Head(s) \in Formats /\ Tail(s) \in Seq(Formats)
  OBVIOUS
<1>2. Append(l, Head(s)) \in Seq(Formats)
  BY <1>1
<1>3. Append(l, Head(s)) \o Tail(s) = l \o s
  <2> DEFINE left == Append(l, Head(s)) \o Tail(s)
             right == l \o s
  <2>1. left \in Seq(Formats) /\ right \in Seq(Formats)
    BY <1>1, <1>2
  <2>2. Len(left) = Len(right)
    BY <1>1, <1>2
  <2>3. ASSUME NEW i \in 1 .. Len(right) PROVE left[i] = right[i]
    <3>1. CASE i <= Len(l)
      BY <1>1, <1>2, <3>1
    <3>2. CASE i = Len(l) + 1
      BY <1>1, <1>2, <3>2
    <3>3. CASE i > Len(l) + 1
      BY <1>1, <1>2, <3>3
    <3> QED BY <3>1, <3>2, <3>3
  <2> QED BY <2>1, <2>2, <2>3, SeqEqual
<1> QED BY <1>1, <1>2, <1>3

(* Loading, publishing and sorting keep the invariant of a sweep without   *)
(* races, in each of their steps.                                          *)
LEMMA PublishKeepsQuiet ==
  ASSUME BaseInv, Quiet, NEW t \in Threads, Work(t),
         \/ CheckCold(t) \/ Load(t) \/ Publish(t) \/ Published(t, File(t))
         \/ SortBegin(t) \/ SortEnd(t) \/ SortRaises(t)
  PROVE  Quiet'
<1> USE DEF BaseInv, Quiet
<1>1. /\ UNCHANGED <<paths, phase, active, counts, disk, Index, OnDisk, Ideal>>
      /\ phase = "sweeping" /\ counts.sweeps # 0
  BY WorkerInSweep DEF Worker
<1>2. /\ \A u \in Threads \ {t} : UNCHANGED pc[u]
      /\ \A u \in Threads : UNCHANGED File(u)
      /\ RightInv'
  BY WorkFrame
<1>3. /\ pc[t] # "idle" /\ (cache = NoCache \/ Publishes(t))
      /\ \A u \in Threads \ {t} : pc[u] = "idle"
  <2>1. pc[t] # "idle" /\ (cache = NoCache \/ Publishes(t))
    BY DEF CheckCold, Load, Publish, Published, SortBegin, SortEnd, SortRaises, Publishes,
       Publishing
  <2> QED BY <2>1, OthersIdle
<1>4. \A u, v \in active : u = v
  BY <1>1, <1>3 DEF AloneInv
<1>5. \A u \in Threads \ {t} : pc'[u] = "idle" /\ ~Publishes(u)' /\ ~Publishes(u)
  BY <1>2, <1>3 DEF Publishes, Publishing
<1>6. /\ sigs \in Seq(Formats) /\ todo[t] \in Seq(Formats) /\ saved[t].items \in Seq(Formats)
      /\ OnDisk \in Seq(Formats) /\ Ideal \in Seq(Formats)
  BY IdealList DEF TypeOK, RegistryTypeOK
<1>7. ASSUME cache' = NoCache \/ cache' = disk', cache = NoCache \/ cache' # NoCache
      PROVE  ColdInv'
  BY <1>1, <1>7 DEF ColdInv
<1>8. ASSUME pc'[t] = "load" => cache' = NoCache,
             pc'[t] \in (Step \ {"idle", "check", "load", "failed"}) => cache' # NoCache,
             pc'[t] = "sorting" => fresh'
      PROVE  AloneInv'
  BY <1>1, <1>4, <1>5, <1>8 DEF AloneInv
<1>9. ASSUME Publishes(t)', Alike(Upcoming(t)', Ideal), pc'[t] \in {"load", "append"} => Ordered(sigs')
      PROVE  ListInv'
  BY <1>1, <1>5, <1>9 DEF ListInv
<1>10. ASSUME pc'[t] \in Publishing PROVE ScanInv'
  <2>1. File(t) \notin Unreadable
    BY <1>3 DEF ScanInv, CheckCold, Load, Publish, Published, SortBegin, SortEnd, SortRaises
  <2> QED BY <1>2, <1>5, <1>10, <2>1 DEF ScanInv, Publishing
<1> USE DEF Goto, TypeOK, RegistryTypeOK
<1>11. CASE CheckCold(t)
  <2>1. cache = NoCache /\ pc'[t] = "load" /\ UNCHANGED <<cache, sigs>>
    BY <1>11 DEF CheckCold, registry
  <2>2. ~Publishes(t)
    BY <1>11 DEF CheckCold, Publishes, Publishing
  <2>3. Ordered(sigs) /\ Alike(sigs \o OnDisk, Ideal)
    BY <1>5, <2>1, <2>2 DEF ListInv
  <2>4. Upcoming(t)' = sigs \o OnDisk /\ Publishes(t)'
    BY <1>1, <2>1 DEF Upcoming, Publishes, Publishing
  <2>5. ListInv'
    BY <1>9, <2>1, <2>3, <2>4
  <2> QED BY <1>2, <1>7, <1>8, <1>10, <2>1, <2>5 DEF Publishing
<1>12. CASE Load(t)
  <2>1. cache' = disk /\ pc'[t] = "append" /\ todo'[t] = OnDisk /\ sigs' = sigs /\ pc[t] = "load"
    BY <1>12 DEF Load
  <2>2. Ordered(sigs) /\ Alike(sigs \o OnDisk, Ideal)
    BY <2>1 DEF ListInv, Publishes, Publishing, Upcoming
  <2>3. Upcoming(t)' = sigs \o OnDisk /\ Publishes(t)'
    BY <2>1 DEF Upcoming, Publishes, Publishing
  <2>4. ListInv'
    BY <1>9, <2>1, <2>2, <2>3
  <2>5. cache' # NoCache /\ cache' = disk'
    BY <1>1, <2>1, DiskIsNoMark
  <2> QED BY <1>2, <1>7, <1>8, <1>10, <2>1, <2>4, <2>5 DEF Publishing
<1>13. CASE Publish(t)
  <2>1. /\ pc[t] = "append" /\ pc'[t] = "sort" /\ UNCHANGED <<cache, todo>>
        /\ todo[t] # << >> /\ sigs' = Append(sigs, Head(todo[t]))
    BY <1>13 DEF Publish
  <2>2. Alike(sigs \o todo[t], Ideal) /\ cache # NoCache
    BY <2>1 DEF ListInv, AloneInv, Publishes, Publishing, Step, Upcoming
  <2>3. Upcoming(t)' = Append(sigs, Head(todo[t])) \o Tail(todo[t])
    BY <2>1 DEF Upcoming
  <2>4. Upcoming(t)' = sigs \o todo[t]
    BY <1>6, <2>1, <2>3, AppendHead
  <2>5. ListInv'
    BY <1>9, <2>1, <2>2, <2>4 DEF Publishes, Publishing
  <2> QED BY <1>1, <1>2, <1>7, <1>8, <1>10, <2>1, <2>2, <2>5 DEF Publishing, ColdInv
<1>14. CASE Published(t, File(t))
  <2>1. /\ pc[t] = "append" /\ pc'[t] = "content" /\ UNCHANGED <<cache, sigs>>
        /\ todo[t] = << >> /\ pos'[t] = 1
    BY <1>14 DEF Published, registry
  <2>2. Alike(sigs \o todo[t], Ideal) /\ Ordered(sigs) /\ cache # NoCache
    BY <2>1 DEF ListInv, AloneInv, Publishes, Publishing, Step, Upcoming
  <2>3. sigs \o todo[t] = sigs
    BY <1>6, <2>1
  <2>4. ~Publishes(t)'
    BY <2>1 DEF Publishes, Publishing
  <2>5. ListInv'
    BY <1>1, <1>5, <2>1, <2>2, <2>3, <2>4 DEF ListInv
  <2>6. ScanInv'
    <3>1. File(t) \notin Unreadable
      BY <2>1 DEF ScanInv
    <3>2. Passed(t, Banner[File(t)])'
      BY <1>6, <2>1 DEF Passed
    <3> QED BY <1>2, <1>5, <2>1, <3>1, <3>2 DEF ScanInv
  <2> QED BY <1>1, <1>2, <1>7, <1>8, <2>1, <2>2, <2>5, <2>6 DEF ColdInv
<1>15. CASE SortBegin(t)
  <2>1. /\ pc[t] = "sort" /\ pc'[t] = "sorting" /\ UNCHANGED <<cache, todo>>
        /\ saved'[t].items = sigs /\ fresh'
    BY <1>15 DEF SortBegin
  <2>2. Alike(sigs \o Tail(todo[t]), Ideal) /\ cache # NoCache
    BY <2>1 DEF ListInv, AloneInv, Publishes, Publishing, Step, Upcoming
  <2>3. Upcoming(t)' = sigs \o Tail(todo[t])
    BY <2>1 DEF Upcoming
  <2>4. ListInv'
    BY <1>9, <2>1, <2>2, <2>3 DEF Publishes, Publishing
  <2> QED BY <1>1, <1>2, <1>7, <1>8, <1>10, <2>1, <2>2, <2>4 DEF Publishing, ColdInv
<1>16. CASE SortEnd(t)
  <2>1. /\ pc[t] = "sorting" /\ pc'[t] = "append" /\ UNCHANGED cache
        /\ sigs' = Sorted(saved[t].items) /\ todo'[t] = Tail(todo[t])
    BY <1>16 DEF SortEnd, PutBack
  <2>2. Alike(saved[t].items \o Tail(todo[t]), Ideal) /\ cache # NoCache
    BY <2>1 DEF ListInv, AloneInv, Publishes, Publishing, Step, Upcoming
  <2>3. Upcoming(t)' = Sorted(saved[t].items) \o Tail(todo[t])
    BY <2>1 DEF Upcoming
  <2>4. Ordered(Sorted(saved[t].items)) /\ Alike(Sorted(saved[t].items), saved[t].items)
    BY <1>6, SortedIsAlike
  <2>5. Sorted(saved[t].items) \in Seq(Formats) /\ Tail(todo[t]) \in Seq(Formats)
    BY <1>6, <2>1, SortedItems, AppendHead DEF PublishInv
  <2>6. Alike(Sorted(saved[t].items) \o Tail(todo[t]), saved[t].items \o Tail(todo[t]))
    BY <1>6, <2>4, <2>5, AlikeJoin
  <2>7. Alike(Upcoming(t)', Ideal)
    BY <2>2, <2>3, <2>6, AlikeIsEquivalence
  <2>8. ListInv'
    BY <1>9, <2>1, <2>4, <2>7 DEF Publishes, Publishing
  <2> QED BY <1>1, <1>2, <1>7, <1>8, <1>10, <2>1, <2>2, <2>8 DEF Publishing, ColdInv
<1>17. CASE SortRaises(t)
  BY <1>17 DEF SortRaises, AloneInv
<1> QED BY <1>11, <1>12, <1>13, <1>14, <1>15, <1>16, <1>17

(* The list, the scans and the results stay as a single loader has them.   *)
LEMMA UnracedStep ==
  ASSUME BaseInv, UnracedInv, [Next]_vars
  PROVE  UnracedInv'
<1> SUFFICES ASSUME ~raced', ~edited' PROVE Quiet'
  BY DEF UnracedInv, Quiet, RightInv
<1>1. ~raced /\ ~edited
  BY DEF Next, Worker, Begin, Collate, RefreshRegistry, EditSpecs, Take, Work, Deliver, vars,
     batch, BaseInv, TypeOK
<1>2. Quiet
  BY <1>1 DEF UnracedInv, Quiet, RightInv
<1>3. CASE Begin \/ Collate \/ RefreshRegistry \/ EditSpecs
  BY <1>2, <1>3, MainKeepsQuiet
<1>4. ASSUME NEW t \in Threads, Take(t) \/ Deliver(t) PROVE Quiet'
  BY <1>2, <1>4, TakeAndDeliverKeepQuiet
<1>5. ASSUME NEW t \in Threads, Work(t) PROVE Quiet'
  BY <1>2, <1>5, ScanKeepsQuiet, PublishKeepsQuiet DEF Work, Resolve
<1>6. CASE UNCHANGED vars
  <2>1. UNCHANGED <<registry, thread, batch, sweep, folded>>
    BY <1>6 DEF vars, batch, sweep
  <2>2. /\ UNCHANGED <<Index, OnDisk, Ideal, NoResults>>
        /\ \A file : Expected(file)' = Expected(file)
    BY <2>1, DiskFrame DEF registry, batch, Index, NoResults
  <2>3. \A u \in Threads : /\ UNCHANGED <<File(u), Upcoming(u)>>
                           /\ Publishes(u)' <=> Publishes(u)
    BY <2>1, <2>2 DEF registry, thread, batch, File, Upcoming, Publishes
  <2>4. ColdInv' /\ AloneInv' /\ ListInv' /\ RightInv'
    BY <1>2, <2>1, <2>2, <2>3 DEF registry, thread, batch, sweep, Quiet, ColdInv, AloneInv,
       ListInv, RightInv
  <2>5. ScanInv'
    BY <1>2, <2>1, <2>2, <2>3 DEF registry, thread, Quiet, ScanInv, Passed
  <2> QED BY <2>4, <2>5 DEF Quiet
<1> QED BY <1>3, <1>4, <1>5, <1>6 DEF Next, Worker

(* The invariant in every reachable state.                                 *)
THEOREM SweepInvariant == Spec => []IInv
<1>1. UnracedInv /\ BaseInv /\ [Next]_vars => UnracedInv'
  BY UnracedStep
<1> QED BY <1>1, InitQuiet, SweepBaseInvariant, PTL DEF Spec, IInv

(* Unless a parallel sweep meets an empty registry, the results of a sweep *)
(* are those of a single thread, however many workers it has, whatever     *)
(* refreshes came before; and the exit status of tolk check is theirs.     *)
THEOREM UnracedSweepsAreSequential == Spec => []UnracedSweepIsSequential
<1>1. IInv => UnracedSweepIsSequential
  <2> SUFFICES ASSUME IInv, ~raced, ~edited
               PROVE  /\ \A i \in Index : results[i] \in {Pending, Expected(paths[i])}
                      /\ IsOver("check") =>
                           (CheckExit = 0 <=>
                              \A i \in Index : StatusOf(paths[i], Expected(paths[i])) = "ok")
    BY DEF UnracedSweepIsSequential
  <2>1. \A i \in Index : results[i] \in {Pending, Expected(paths[i])}
    BY DEF IInv, UnracedInv
  <2>2. ASSUME IsOver("check")
        PROVE  CheckExit = 0 <=> \A i \in Index : StatusOf(paths[i], Expected(paths[i])) = "ok"
    <3>1. \A i \in Index : results[i] = Expected(paths[i])
      BY <2>1, <2>2 DEF IInv, BaseInv, FoldInv, IsOver
    <3>2. statuses = Statuses
      BY <2>2 DEF IInv, BaseInv, FoldInv
    <3>3. DOMAIN statuses = Index /\ \A i \in Index : statuses[i] = StatusOf(paths[i], Expected(paths[i]))
      BY <3>1, <3>2 DEF Statuses
    <3> QED BY <3>3 DEF CheckExit
  <2> QED BY <2>1, <2>2
<1> QED BY <1>1, SweepInvariant, PTL
=============================================================================
