----------------------------- MODULE TextProofs ------------------------------
(***************************************************************************)
(* Proofs about the byte primitives: where patterns and lines of a text    *)
(* are, what growth leaves in place, and that the C engine answers as the  *)
(* Python one, for texts of any length over any alphabet.                  *)
(***************************************************************************)
EXTENDS GrowingText, SequenceTheorems, OrderLemmas

(* A text and something that can be looked for in it.                      *)
Searchable(h, needle) ==
  /\ \E Chars : h \in Seq(Chars) /\ needle \in Seq(Chars)
  /\ needle # << >>

(* A needle has a character at least.                                      *)
LEMMA SearchableLengths ==
  ASSUME NEW h, NEW needle, Searchable(h, needle)
  PROVE  Len(h) \in Nat /\ Len(needle) \in Nat /\ Len(needle) >= 1
BY DEF Searchable

(* Find and Rfind give the least and the greatest occurrence.              *)
LEMMA FindIsLeast ==
  ASSUME NEW h, NEW needle, Searchable(h, needle), NEW from \in Nat, NEW to \in 0 .. Len(h)
  PROVE  LET all == Occurrences(h, needle, from, to)
             hit == Find(h, needle, from, to)
         IN  /\ hit = NotFound <=> all = {}
             /\ hit # NotFound => hit \in all /\ \A o \in all : hit <= o
<1> DEFINE all == Occurrences(h, needle, from, to)
<1>1. all \in SUBSET Nat
  BY SearchableLengths DEF Occurrences
<1>2. CASE all = {}
  BY <1>2 DEF Find
<1>3. CASE all # {}
  <2>1. \E o \in all : \A p \in all : o <= p
    BY <1>1, <1>3, LeastNumber
  <2>2. Min(all) \in all /\ \A p \in all : Min(all) <= p
    BY <2>1 DEF Min
  <2>3. Find(h, needle, from, to) = Min(all)
    BY <1>3 DEF Find
  <2> HIDE DEF all
  <2>4. Min(all) # NotFound
    BY <1>1, <2>2 DEF NotFound
  <2> QED BY <1>3, <2>2, <2>3, <2>4 DEF all
<1> QED BY <1>2, <1>3

(* rfind answers with the last occurrence in the window, if there is one.  *)
LEMMA RfindIsGreatest ==
  ASSUME NEW h, NEW needle, Searchable(h, needle), NEW from \in Nat, NEW to \in 0 .. Len(h)
  PROVE  LET all == Occurrences(h, needle, from, to)
             hit == Rfind(h, needle, from, to)
         IN  /\ hit = NotFound <=> all = {}
             /\ hit # NotFound => hit \in all /\ \A o \in all : o <= hit
<1> DEFINE all == Occurrences(h, needle, from, to)
<1>1. all \in SUBSET (0 .. Len(h)) /\ Len(h) \in Nat
  BY SearchableLengths DEF Occurrences
<1>2. CASE all = {}
  BY <1>2 DEF Rfind
<1>3. CASE all # {}
  <2>1. \E o \in all : \A p \in all : p <= o
    BY <1>1, <1>3, GreatestNumber
  <2>2. Max(all) \in all /\ \A p \in all : p <= Max(all)
    <3>1. \E o \in all : \A p \in all : o >= p
      BY <1>1, <2>1
    <3> QED BY <1>1, <3>1 DEF Max
  <2>3. Rfind(h, needle, from, to) = Max(all)
    BY <1>3 DEF Rfind
  <2> HIDE DEF all
  <2>4. Max(all) # NotFound
    BY <1>1, <2>2 DEF NotFound
  <2> QED BY <1>3, <2>2, <2>3, <2>4 DEF all
<1> QED BY <1>2, <1>3

(* The forward walk: a hit, and what is found behind it.                   *)
ForwardWalk(w, h, needle, to) ==
  w = [pos \in 0 .. Len(h) |->
         LET hit == Find(h, needle, pos, to) IN
         IF hit = NotFound THEN << >> ELSE <<hit>> \o w[hit + Len(needle)]]

(* The walk of iter_find is defined: every step of it goes forward.        *)
LEMMA ForwardWalkExists ==
  ASSUME NEW h, NEW needle, Searchable(h, needle), NEW to \in 0 .. Len(h)
  PROVE  \E w : ForwardWalk(w, h, needle, to)
<1> DEFINE D == 0 .. Len(h)
           V == Seq(Int)
           find(p) == Find(h, needle, p, to)
           rank == [p \in D |-> Len(h) - p]
           over == {p \in D : find(p) = NotFound}
           next == [p \in D \ over |-> find(p) + Len(needle)]
           base == [p \in over |-> << >>]
           step == [p \in D \ over |-> [v \in V |-> <<find(p)>> \o v]]
<1>1. Len(h) \in Nat /\ Len(needle) \in Nat /\ Len(needle) >= 1
  BY SearchableLengths
<1>2. \A p \in D \ over : find(p) \in p .. to - Len(needle)
  BY <1>1, FindIsLeast DEF Occurrences
<1> HIDE DEF find
<1>3. Descends(D, rank, over, next)
  <2>1. \A p \in D \ over : next[p] \in D /\ rank[next[p]] < rank[p]
    BY <1>1, <1>2
  <2>2. rank \in [D -> Nat]
    BY <1>1
  <2> QED BY <2>1, <2>2 DEF Descends
<1>4. base \in [over -> V]
  OBVIOUS
<1>5. \A p \in D \ over, v \in V : step[p][v] \in V
  BY <1>1, <1>2
<1> HIDE DEF rank, over, next, base, step, V, D
<1>6. PICK w \in [D -> V] : \A p \in D : Continues(w, p, over, base, next, step)
  BY <1>3, <1>4, <1>5, RecursionExists
<1>7. ASSUME NEW p \in D
      PROVE  w[p] = IF find(p) = NotFound THEN << >> ELSE <<find(p)>> \o w[find(p) + Len(needle)]
  <2>1. p \in over <=> find(p) = NotFound
    BY DEF over
  <2>2. ASSUME p \notin over
        PROVE  next[p] = find(p) + Len(needle) /\ next[p] \in D /\ w[next[p]] \in V
    BY <1>3, <2>2 DEF next, Descends
  <2>3. p \notin over => step[p][w[next[p]]] = <<find(p)>> \o w[next[p]]
    BY <2>2 DEF step
  <2> QED BY <1>6, <2>1, <2>2, <2>3 DEF Continues, base
<1>8. w = [p \in D |-> IF find(p) = NotFound THEN << >> ELSE <<find(p)>> \o w[find(p) + Len(needle)]]
  BY <1>7
<1> QED BY <1>8 DEF ForwardWalk, D, find

(* iter_find gives the first hit and then those behind its end.            *)
LEMMA IterFindUnfolds ==
  ASSUME NEW h, NEW needle, Searchable(h, needle), NEW to \in 0 .. Len(h), NEW pos \in 0 .. Len(h)
  PROVE  IterFind(h, needle, pos, to)
           = LET hit == Find(h, needle, pos, to) IN
             IF hit = NotFound THEN << >>
             ELSE <<hit>> \o IterFind(h, needle, hit + Len(needle), to)
<1> DEFINE w == CHOOSE v : ForwardWalk(v, h, needle, to)
<1>1. ForwardWalk(w, h, needle, to)
  BY ForwardWalkExists
<1>2. \A p : IterFind(h, needle, p, to) = w[p]
  BY DEF IterFind, ForwardWalk
<1> HIDE DEF w
<1>3. w[pos] = LET hit == Find(h, needle, pos, to) IN
               IF hit = NotFound THEN << >> ELSE <<hit>> \o w[hit + Len(needle)]
  BY <1>1 DEF ForwardWalk
<1> QED BY <1>2, <1>3

(* The backward walk: a hit, and what is found before its end.             *)
BackwardWalk(w, h, needle, from) ==
  w = [stop \in 0 .. Len(h) |->
         LET hit == Rfind(h, needle, from, stop) IN
         CASE hit = NotFound -> << >>
           [] hit # NotFound /\ hit <= from -> <<hit>>
           [] OTHER -> <<hit>> \o w[hit + Len(needle) - 1]]

(* The walk of iter_rfind is defined: every step of it goes back.          *)
LEMMA BackwardWalkExists ==
  ASSUME NEW h, NEW needle, Searchable(h, needle), NEW from \in Nat
  PROVE  \E w : BackwardWalk(w, h, needle, from)
<1> DEFINE D == 0 .. Len(h)
           V == Seq(Int)
           find(p) == Rfind(h, needle, from, p)
           rank == [p \in D |-> p]
           over == {p \in D : find(p) = NotFound \/ find(p) <= from}
           next == [p \in D \ over |-> find(p) + Len(needle) - 1]
           base == [p \in over |-> IF find(p) = NotFound THEN << >> ELSE <<find(p)>>]
           step == [p \in D \ over |-> [v \in V |-> <<find(p)>> \o v]]
<1>1. Len(h) \in Nat /\ Len(needle) \in Nat /\ Len(needle) >= 1
  BY SearchableLengths
<1>2. \A p \in D : find(p) = NotFound \/ find(p) \in from .. p - Len(needle)
  BY <1>1, RfindIsGreatest DEF Occurrences
<1> HIDE DEF find
<1>3. Descends(D, rank, over, next)
  <2>1. \A p \in D \ over : next[p] \in D /\ rank[next[p]] < rank[p]
    BY <1>1, <1>2
  <2>2. rank \in [D -> Nat]
    BY <1>1
  <2> QED BY <2>1, <2>2 DEF Descends
<1>4. base \in [over -> V]
  <2>1. \A p \in over : find(p) # NotFound => find(p) \in Int
    BY <1>1, <1>2
  <2> QED BY <2>1
<1>5. \A p \in D \ over, v \in V : step[p][v] \in V
  BY <1>1, <1>2
<1> HIDE DEF rank, over, next, base, step, V, D
<1>6. PICK w \in [D -> V] : \A p \in D : Continues(w, p, over, base, next, step)
  BY <1>3, <1>4, <1>5, RecursionExists, ZenonT(30)
<1>7. ASSUME NEW p \in D
      PROVE  w[p] = CASE find(p) = NotFound -> << >>
                      [] find(p) # NotFound /\ find(p) <= from -> <<find(p)>>
                      [] OTHER -> <<find(p)>> \o w[find(p) + Len(needle) - 1]
  <2>1. p \in over <=> find(p) = NotFound \/ find(p) <= from
    BY DEF over
  <2>2. ASSUME p \notin over
        PROVE  next[p] = find(p) + Len(needle) - 1 /\ w[next[p]] \in V
    BY <1>3, <2>2 DEF next, Descends
  <2>3. p \notin over => step[p][w[next[p]]] = <<find(p)>> \o w[next[p]]
    BY <2>2 DEF step
  <2>4. p \in over => base[p] = IF find(p) = NotFound THEN << >> ELSE <<find(p)>>
    BY DEF base
  <2> QED BY <1>6, <2>1, <2>2, <2>3, <2>4 DEF Continues
<1>8. w = [p \in D |-> CASE find(p) = NotFound -> << >>
                         [] find(p) # NotFound /\ find(p) <= from -> <<find(p)>>
                         [] OTHER -> <<find(p)>> \o w[find(p) + Len(needle) - 1]]
  BY <1>7
<1> QED BY <1>8 DEF BackwardWalk, D, find

(* iter_rfind gives the last hit and then those that start before it.      *)
LEMMA IterRfindUnfolds ==
  ASSUME NEW h, NEW needle, Searchable(h, needle), NEW from \in Nat, NEW stop \in 0 .. Len(h)
  PROVE  IterRfind(h, needle, from, stop)
           = LET hit == Rfind(h, needle, from, stop) IN
             CASE hit = NotFound -> << >>
               [] hit # NotFound /\ hit <= from -> <<hit>>
               [] OTHER -> <<hit>> \o IterRfind(h, needle, from, hit + Len(needle) - 1)
<1> DEFINE w == CHOOSE v : BackwardWalk(v, h, needle, from)
<1>1. BackwardWalk(w, h, needle, from)
  BY BackwardWalkExists
<1>2. \A p : IterRfind(h, needle, from, p) = w[p]
  BY DEF IterRfind, BackwardWalk
<1> HIDE DEF w
<1>3. w[stop] = LET hit == Rfind(h, needle, from, stop) IN
                CASE hit = NotFound -> << >>
                  [] hit # NotFound /\ hit <= from -> <<hit>>
                  [] OTHER -> <<hit>> \o w[hit + Len(needle) - 1]
  BY <1>1 DEF BackwardWalk
<1> QED BY <1>2, <1>3

-----------------------------------------------------------------------------
(* What a forward walk finds from pos on: matches that do not overlap, and *)
(* of those it leaves out each starts inside one that it has.              *)
Greedy(hits, h, needle, pos, to) ==
  /\ hits \in Seq(Int)
  /\ \A i \in DOMAIN hits : hits[i] \in Occurrences(h, needle, pos, to)
  /\ \A i, j \in DOMAIN hits : i < j => hits[i] + Len(needle) <= hits[j]
  /\ \A o \in Occurrences(h, needle, pos, to) :
       \E i \in DOMAIN hits : hits[i] <= o /\ o < hits[i] + Len(needle)

(* A hit before what is greedy behind it is greedy.                        *)
LEMMA GreedyStep ==
  ASSUME NEW h, NEW needle, Searchable(h, needle), NEW to \in 0 .. Len(h), NEW pos \in Nat,
         NEW hit \in Occurrences(h, needle, pos, to),
         \A o \in Occurrences(h, needle, pos, to) : hit <= o,
         NEW rest, Greedy(rest, h, needle, hit + Len(needle), to)
  PROVE  Greedy(<<hit>> \o rest, h, needle, pos, to)
<1> DEFINE k == Len(needle)
           all == Occurrences(h, needle, pos, to)
           behind == Occurrences(h, needle, hit + k, to)
           hits == <<hit>> \o rest
<1>1. Len(h) \in Nat /\ k \in Nat /\ k >= 1
  BY SearchableLengths
<1>2. /\ all \in SUBSET Int /\ behind \in SUBSET all /\ hit \in Int
      /\ \A o \in behind : hit + k <= o
      /\ \A o \in all : hit + k <= o => o \in behind
  BY <1>1 DEF Occurrences
<1>3. /\ rest \in Seq(Int)
      /\ \A i \in DOMAIN rest : rest[i] \in behind
      /\ \A i, j \in DOMAIN rest : i < j => rest[i] + k <= rest[j]
      /\ \A o \in behind : \E i \in DOMAIN rest : rest[i] <= o /\ o < rest[i] + k
  BY DEF Greedy
<1> HIDE DEF k, all, behind
<1>4. /\ hits \in Seq(Int) /\ Len(rest) \in Nat /\ DOMAIN rest = 1 .. Len(rest)
      /\ DOMAIN hits = 1 .. Len(rest) + 1 /\ hits[1] = hit
      /\ \A i \in DOMAIN rest : i + 1 \in DOMAIN hits /\ hits[i + 1] = rest[i]
      /\ \A i \in DOMAIN hits : i # 1 => i - 1 \in DOMAIN rest /\ hits[i] = rest[i - 1]
  BY <1>2, <1>3
<1> HIDE DEF hits
<1>5. ASSUME NEW i \in DOMAIN hits PROVE hits[i] \in all
  BY <1>2, <1>3, <1>4 DEF all
<1>6. ASSUME NEW i \in DOMAIN hits, NEW j \in DOMAIN hits, i < j
      PROVE  hits[i] + k <= hits[j]
  <2>1. j # 1 /\ j - 1 \in DOMAIN rest /\ hits[j] = rest[j - 1] /\ rest[j - 1] \in behind
    BY <1>3, <1>4, <1>6
  <2>2. CASE i = 1
    BY <1>2, <1>4, <2>1, <2>2
  <2>3. CASE i # 1
    <3>1. i - 1 \in DOMAIN rest /\ hits[i] = rest[i - 1] /\ i - 1 < j - 1
      BY <1>4, <1>6, <2>3
    <3> QED BY <1>3, <2>1, <3>1
  <2> QED BY <2>2, <2>3
<1>7. ASSUME NEW o \in all
      PROVE  \E i \in DOMAIN hits : hits[i] <= o /\ o < hits[i] + k
  <2>1. CASE o < hit + k
    <3>1. 1 \in DOMAIN hits /\ hit <= o
      BY <1>4 DEF all
    <3> QED BY <1>4, <2>1, <3>1
  <2>2. CASE hit + k <= o
    <3>1. PICK i \in DOMAIN rest : rest[i] <= o /\ o < rest[i] + k
      BY <1>2, <1>3, <2>2
    <3> QED BY <1>4, <3>1
  <2> QED BY <1>1, <1>2, <2>1, <2>2
<1> QED BY <1>4, <1>5, <1>6, <1>7 DEF Greedy, hits, k, all

(* iter_find is greedy from wherever it starts.                            *)
LEMMA IterFindIsGreedy ==
  ASSUME NEW h, NEW needle, Searchable(h, needle), NEW to \in 0 .. Len(h)
  PROVE  \A pos \in 0 .. Len(h) : Greedy(IterFind(h, needle, pos, to), h, needle, pos, to)
<1> DEFINE D == 0 .. Len(h)
           rank == [p \in D |-> Len(h) - p]
           good == {p \in D : Greedy(IterFind(h, needle, p, to), h, needle, p, to)}
<1>1. Len(h) \in Nat /\ Len(needle) \in Nat /\ Len(needle) >= 1
  BY SearchableLengths
<1>2. ASSUME NEW p \in D, \A r \in D : rank[r] < rank[p] => r \in good
      PROVE  p \in good
  <2> DEFINE hit == Find(h, needle, p, to)
             all == Occurrences(h, needle, p, to)
  <2>1. /\ hit = NotFound <=> all = {}
        /\ hit # NotFound => hit \in all /\ \A o \in all : hit <= o
    BY <1>1, FindIsLeast
  <2>2. IterFind(h, needle, p, to)
          = IF hit = NotFound THEN << >> ELSE <<hit>> \o IterFind(h, needle, hit + Len(needle), to)
    BY IterFindUnfolds
  <2>3. CASE hit = NotFound
    <3>1. all = {} /\ IterFind(h, needle, p, to) = << >>
      BY <2>1, <2>2, <2>3
    <3> QED BY <3>1 DEF Greedy
  <2>4. CASE hit # NotFound
    <3>1. hit \in all /\ (\A o \in all : hit <= o) /\ p \in Nat
      BY <1>1, <2>1, <2>4
    <3>2. hit + Len(needle) \in D /\ rank[hit + Len(needle)] < rank[p]
      BY <1>1, <3>1 DEF Occurrences
    <3>3. Greedy(IterFind(h, needle, hit + Len(needle), to), h, needle, hit + Len(needle), to)
      BY <1>2, <3>2
    <3> HIDE DEF hit
    <3>4. Greedy(<<hit>> \o IterFind(h, needle, hit + Len(needle), to), h, needle, p, to)
      BY <3>1, <3>3, GreedyStep
    <3> QED BY <2>2, <2>4, <3>4
  <2> QED BY <2>3, <2>4
<1>3. rank \in [D -> Nat]
  BY <1>1
<1> HIDE DEF good, rank, D
<1>4. D \subseteq good
  BY <1>2, <1>3, RankInduction
<1> QED BY <1>4 DEF good, D

-----------------------------------------------------------------------------
(* The text is made of characters, and a quantity that is loaded is one    *)
(* the loader has passed.                                                  *)
THEOREM TextInvariant == Spec => []TextInv
<1>1. Init => TextInv
  BY DEF Init, TextInv, Unread
<1>2. TextInv /\ [Next]_vars => TextInv'
  <2> SUFFICES ASSUME TextInv, [Next]_vars PROVE TextInv'
    OBVIOUS
  <2> USE DEF TextInv
  <2>1. ASSUME NEW body \in Documents, Load(body) PROVE TextInv'
    <3>1. loaded' # << >>
      BY <2>1 DEF Load
    <3> QED BY <2>1, <3>1 DEF Load, Unread, SpecOf, Loads
  <2>2. ASSUME NEW c \in Alphabet, WriteCharacter(c) PROVE TextInv'
    <3>1. text' \in Seq(Alphabet)
      BY <2>2 DEF WriteCharacter
    <3>2. text' \in Seq(Alphabet \union STRING)
      BY <3>1
    <3> QED BY <2>2, <3>1, <3>2 DEF WriteCharacter, Unread
  <2>3. ASSUME NEW w \in Writes, Write(w) PROVE TextInv'
    <3>1. w \in Seq(STRING)
      BY TextAssumption
    <3>2. w \in Seq(Alphabet \union STRING)
      BY <3>1
    <3>3. text' \in Seq(Alphabet \union STRING)
      BY <2>3, <3>2 DEF Write
    <3> QED BY <2>3, <3>3 DEF Write, Unread
  <2>4. CASE UNCHANGED vars
    BY <2>4 DEF vars, Unread
  <2> QED BY <2>1, <2>2, <2>3, <2>4 DEF Next
<1> QED BY <1>1, <1>2, PTL DEF Spec

(* The windows and the anchors of the model satisfy what the lemmas assume *)
(* of them.                                                                *)
LEMMA WindowsAreSearchable ==
  ASSUME TextInv, Unread, NEW n \in Needles, NEW r \in Window
  PROVE  /\ Searchable(text, n)
         /\ r[1] \in 0 .. Len(text) /\ r[2] \in 0 .. Len(text) /\ Len(text) \in Nat
BY TextAssumption DEF TextInv, Searchable, Window

(* So the hits on every text are greedy.                                   *)
LEMMA GreedyHits ==
  ASSUME TextInv
  PROVE  HitsAreGreedy
<1> SUFFICES ASSUME Unread, NEW n \in Needles, NEW r \in Window
             PROVE  LET hits == IterFind(text, n, r[1], r[2])
                        all == Occurrences(text, n, r[1], r[2])
                    IN /\ ToSet(hits) \subseteq all
                       /\ \A i, j \in DOMAIN hits : i < j => hits[i] + Len(n) <= hits[j]
                       /\ \A o \in all : \E i \in DOMAIN hits : hits[i] <= o /\ o < hits[i] + Len(n)
  BY DEF HitsAreGreedy
<1>1. Greedy(IterFind(text, n, r[1], r[2]), text, n, r[1], r[2])
  BY WindowsAreSearchable, IterFindIsGreedy
<1> QED BY <1>1 DEF Greedy, ToSet

(* A forward walk yields matches that do not overlap, and leaves out a     *)
(* match only because one that starts before it overlaps it, in any text.  *)
THEOREM HitsAreAlwaysGreedy == Spec => []HitsAreGreedy
BY TextInvariant, GreedyHits, PTL

-----------------------------------------------------------------------------
(* A backward walk finds every occurrence, in descending order.            *)
Descending(s, S) ==
  /\ s \in Seq(Int)
  /\ \A i, j \in DOMAIN s : i < j => s[j] < s[i]
  /\ \A i \in DOMAIN s : s[i] \in S
  /\ \A n \in S : \E i \in DOMAIN s : s[i] = n

(* The greatest member of a set, followed by a descending enumeration of   *)
(* the others, is one of the set.                                          *)
LEMMA DescendingStep ==
  ASSUME NEW S \in SUBSET Int, NEW hit \in S, \A o \in S : o <= hit,
         NEW rest, Descending(rest, {o \in S : o < hit})
  PROVE  Descending(<<hit>> \o rest, S)
<1> DEFINE s == <<hit>> \o rest
<1>1. /\ rest \in Seq(Int)
      /\ \A i, j \in DOMAIN rest : i < j => rest[j] < rest[i]
      /\ \A i \in DOMAIN rest : rest[i] \in S /\ rest[i] < hit
      /\ \A o \in S : o < hit => \E i \in DOMAIN rest : rest[i] = o
  BY DEF Descending
<1>2. /\ s \in Seq(Int) /\ Len(rest) \in Nat /\ DOMAIN rest = 1 .. Len(rest)
      /\ DOMAIN s = 1 .. Len(rest) + 1 /\ s[1] = hit
      /\ \A i \in DOMAIN rest : i + 1 \in DOMAIN s /\ s[i + 1] = rest[i]
      /\ \A i \in DOMAIN s : i # 1 => i - 1 \in DOMAIN rest /\ s[i] = rest[i - 1]
  BY <1>1
<1> HIDE DEF s
<1>3. \A i \in DOMAIN s : s[i] \in S
  BY <1>1, <1>2
<1>4. ASSUME NEW i \in DOMAIN s, NEW j \in DOMAIN s, i < j PROVE s[j] < s[i]
  <2>1. j # 1 /\ j - 1 \in DOMAIN rest /\ s[j] = rest[j - 1]
    BY <1>2, <1>4
  <2>2. CASE i = 1
    BY <1>1, <1>2, <2>1, <2>2
  <2>3. CASE i # 1
    <3>1. i - 1 \in DOMAIN rest /\ s[i] = rest[i - 1] /\ i - 1 < j - 1
      BY <1>2, <1>4, <2>3
    <3> QED BY <1>1, <2>1, <3>1
  <2> QED BY <2>2, <2>3
<1>5. ASSUME NEW o \in S PROVE \E i \in DOMAIN s : s[i] = o
  <2>1. CASE o = hit
    <3>1. 1 \in DOMAIN s
      BY <1>2
    <3> QED BY <1>2, <2>1, <3>1
  <2>2. CASE o < hit
    <3>1. PICK i \in DOMAIN rest : rest[i] = o
      BY <1>1, <2>2
    <3> QED BY <1>2, <3>1
  <2> QED BY <2>1, <2>2
<1> QED BY <1>2, <1>3, <1>4, <1>5 DEF Descending, s

(* iter_rfind gives every occurrence in the window, from the last to the   *)
(* first.                                                                  *)
LEMMA IterRfindDescends ==
  ASSUME NEW h, NEW needle, Searchable(h, needle), NEW from \in Nat
  PROVE  \A stop \in 0 .. Len(h) :
           Descending(IterRfind(h, needle, from, stop), Occurrences(h, needle, from, stop))
<1> DEFINE D == 0 .. Len(h)
           rank == [p \in D |-> p]
           good == {p \in D : Descending(IterRfind(h, needle, from, p), Occurrences(h, needle, from, p))}
<1>1. Len(h) \in Nat /\ Len(needle) \in Nat /\ Len(needle) >= 1
  BY SearchableLengths
<1>2. ASSUME NEW p \in D, \A r \in D : rank[r] < rank[p] => r \in good
      PROVE  p \in good
  <2> DEFINE hit == Rfind(h, needle, from, p)
             all == Occurrences(h, needle, from, p)
             less == {o \in all : o < hit}
             rest == hit + Len(needle) - 1
  <2>1. /\ hit = NotFound <=> all = {}
        /\ hit # NotFound => hit \in all /\ \A o \in all : o <= hit
    BY <1>1, RfindIsGreatest
  <2>2. IterRfind(h, needle, from, p)
          = CASE hit = NotFound -> << >>
              [] hit # NotFound /\ hit <= from -> <<hit>>
              [] OTHER -> <<hit>> \o IterRfind(h, needle, from, rest)
    BY IterRfindUnfolds
  <2>3. CASE hit = NotFound
    <3>1. all = {} /\ IterRfind(h, needle, from, p) = << >>
      BY <2>1, <2>2, <2>3
    <3> QED BY <3>1 DEF Descending
  <2>4. CASE hit # NotFound /\ hit <= from
    <3>1. hit = from /\ all = {from}
      BY <1>1, <2>1, <2>4 DEF Occurrences
    <3>2. IterRfind(h, needle, from, p) = <<from>>
      BY <2>2, <2>4, <3>1
    <3>3. Descending(<<from>>, {from})
      BY DEF Descending
    <3> QED BY <3>1, <3>2, <3>3
  <2>5. CASE hit # NotFound /\ ~(hit <= from)
    <3>1. hit \in all /\ (\A o \in all : o <= hit) /\ all \in SUBSET Int
      BY <1>1, <2>1, <2>5 DEF Occurrences
    <3>2. rest \in D /\ rank[rest] < rank[p]
      BY <1>1, <3>1 DEF Occurrences
    <3>3. Occurrences(h, needle, from, rest) = less
      BY <1>1, <3>1 DEF Occurrences
    <3>4. Descending(IterRfind(h, needle, from, rest), less)
      BY <1>2, <3>2, <3>3
    <3>5. IterRfind(h, needle, from, p) = <<hit>> \o IterRfind(h, needle, from, rest)
      BY <2>2, <2>5
    <3> HIDE DEF hit, all, rest
    <3>6. Descending(<<hit>> \o IterRfind(h, needle, from, rest), all)
      BY <3>1, <3>4, DescendingStep
    <3> QED BY <3>5, <3>6 DEF all
  <2> QED BY <2>3, <2>4, <2>5
<1>3. rank \in [D -> Nat]
  BY <1>1
<1> HIDE DEF good, rank, D
<1>4. D \subseteq good
  BY <1>2, <1>3, RankInduction
<1> QED BY <1>4 DEF good, D

(* The occurrences of an anchor that does not overlap itself are apart.    *)
LEMMA OccurrencesApart ==
  ASSUME NEW h, NEW needle, Searchable(h, needle), ~SelfOverlapping(needle),
         NEW from \in Nat, NEW to \in 0 .. Len(h),
         NEW o \in Occurrences(h, needle, from, to), NEW p \in Occurrences(h, needle, from, to),
         o < p
  PROVE  o + Len(needle) <= p
<1> DEFINE L == Len(needle)
           k == p - o
<1>1. Len(h) \in Nat /\ L \in Nat /\ L >= 1
  BY SearchableLengths
<1>2. PICK Chars : h \in Seq(Chars) /\ needle \in Seq(Chars)
  BY DEF Searchable
<1>3. o \in Nat /\ p \in Nat /\ o + L <= Len(h) /\ p + L <= Len(h)
  BY <1>1 DEF Occurrences
<1>4. ASSUME NEW i \in {o, p}, NEW j \in 1 .. L PROVE h[i + j] = needle[j]
  <2>1. SubSeq(h, i + 1, i + L) = needle
    BY <1>1, <1>3 DEF Occurrences, IsAt, Bytes
  <2>2. SubSeq(h, i + 1, i + L)[j] = h[i + j]
    BY <1>1, <1>2, <1>3
  <2> QED BY <2>1, <2>2
<1> SUFFICES ASSUME p < o + L PROVE FALSE
  BY <1>1, <1>3
<1>5. k \in 1 .. L - 1
  BY <1>1, <1>3
<1>6. ASSUME NEW j \in 1 .. L - k PROVE needle[k + j] = needle[j]
  <2>1. k + j \in 1 .. L /\ j \in 1 .. L /\ o + (k + j) = p + j
    BY <1>1, <1>3, <1>5
  <2> HIDE DEF k, L
  <2>2. h[o + (k + j)] = needle[k + j] /\ h[p + j] = needle[j]
    BY <1>4, <2>1
  <2> QED BY <2>1, <2>2
<1> HIDE DEF k
<1>7. SubSeq(needle, k + 1, L) \in Seq(Chars) /\ Len(SubSeq(needle, k + 1, L)) = L - k
  BY <1>1, <1>2, <1>5
<1>8. SubSeq(needle, 1, L - k) \in Seq(Chars) /\ Len(SubSeq(needle, 1, L - k)) = L - k
  BY <1>1, <1>2, <1>5
<1>9. ASSUME NEW j \in 1 .. L - k
      PROVE  SubSeq(needle, k + 1, L)[j] = SubSeq(needle, 1, L - k)[j]
  <2>1. SubSeq(needle, k + 1, L)[j] = needle[k + j]
    BY <1>1, <1>2, <1>5
  <2>2. SubSeq(needle, 1, L - k)[j] = needle[j]
    BY <1>1, <1>2, <1>5
  <2> QED BY <1>6, <2>1, <2>2
<1>10. SubSeq(needle, k + 1, L) = SubSeq(needle, 1, L - k)
  BY <1>7, <1>8, <1>9, SeqEqual
<1> QED BY <1>5, <1>10 DEF SelfOverlapping

(* Then the forward walk finds every one of them.                          *)
LEMMA IterFindAscends ==
  ASSUME NEW h, NEW needle, Searchable(h, needle), ~SelfOverlapping(needle),
         NEW from \in 0 .. Len(h), NEW to \in 0 .. Len(h)
  PROVE  Ascending(IterFind(h, needle, from, to), Occurrences(h, needle, from, to))
<1> DEFINE hits == IterFind(h, needle, from, to)
           all == Occurrences(h, needle, from, to)
<1>1. Len(h) \in Nat /\ Len(needle) \in Nat /\ Len(needle) >= 1 /\ from \in Nat
  BY SearchableLengths
<1>2. Greedy(hits, h, needle, from, to)
  BY IterFindIsGreedy
<1>3. all \in SUBSET Int
  BY <1>1 DEF Occurrences
<1> HIDE DEF hits
<1>4. ASSUME NEW o \in all PROVE \E i \in DOMAIN hits : hits[i] = o
  <2>1. PICK i \in DOMAIN hits : hits[i] <= o /\ o < hits[i] + Len(needle)
    BY <1>2 DEF Greedy
  <2>2. hits[i] \in all
    BY <1>2 DEF Greedy
  <2>3. ~(hits[i] < o)
    BY <1>1, <2>1, <2>2, OccurrencesApart, <1>3
  <2> QED BY <1>3, <2>1, <2>2, <2>3
<1>5. \A i, j \in DOMAIN hits : i < j => hits[i] < hits[j]
  BY <1>1, <1>2, <1>3 DEF Greedy
<1> QED BY <1>2, <1>4, <1>5 DEF Ascending, Greedy, hits

(* A descending enumeration read backwards is an ascending one.            *)
LEMMA ReversedAscends ==
  ASSUME NEW S, NEW s, Descending(s, S)
  PROVE  Ascending(Reverse(s), S) /\ Reverse(Reverse(s)) = s
<1> DEFINE r == Reverse(s)
<1>1. s \in Seq(Int) /\ Len(s) \in Nat /\ DOMAIN s = 1 .. Len(s)
  BY DEF Descending
<1>2. /\ r \in Seq(Int) /\ Len(r) = Len(s) /\ DOMAIN r = 1 .. Len(s)
      /\ \A i \in 1 .. Len(s) : r[i] = s[Len(s) - i + 1]
  BY <1>1 DEF Reverse
<1>3. /\ Reverse(r) \in Seq(Int) /\ Len(Reverse(r)) = Len(s)
      /\ \A i \in 1 .. Len(s) : Reverse(r)[i] = r[Len(s) - i + 1]
  <2> HIDE DEF r
  <2> QED BY <1>1, <1>2 DEF Reverse
<1>4. \A i \in 1 .. Len(s) : Len(s) - i + 1 \in 1 .. Len(s) /\ Len(s) - (Len(s) - i + 1) + 1 = i
  BY <1>1
<1> HIDE DEF r
<1>5. Reverse(r) = s
  <2>1. \A i \in 1 .. Len(s) : Reverse(r)[i] = s[i]
    BY <1>2, <1>3, <1>4
  <2> QED BY <1>1, <1>3, <2>1, SeqEqual
<1>6. ASSUME NEW i \in DOMAIN r, NEW j \in DOMAIN r, i < j PROVE r[i] < r[j]
  <2>1. Len(s) \in Nat /\ i \in 1 .. Len(s) /\ j \in 1 .. Len(s)
    BY <1>1, <1>2
  <2>2. Len(s) - j + 1 < Len(s) - i + 1
    BY <1>6, <2>1
  <2>3. s[Len(s) - i + 1] < s[Len(s) - j + 1]
    BY <1>1, <1>4, <2>1, <2>2 DEF Descending
  <2> QED BY <1>1, <1>2, <1>4, <2>1, <2>3
<1>7. ASSUME NEW i \in DOMAIN r PROVE r[i] \in S
  <2>1. Len(s) - i + 1 \in DOMAIN s
    BY <1>1, <1>2
  <2> QED BY <1>2, <2>1 DEF Descending
<1>8. ASSUME NEW n \in S PROVE \E i \in DOMAIN r : r[i] = n
  <2>1. PICK i \in DOMAIN s : s[i] = n
    BY DEF Descending
  <2>2. Len(s) - i + 1 \in DOMAIN r /\ r[Len(s) - i + 1] = s[i]
    BY <1>1, <1>2, <1>4
  <2> QED BY <2>1, <2>2
<1>9. Ascending(r, S)
  BY <1>2, <1>6, <1>7, <1>8 DEF Ascending
<1> QED BY <1>5, <1>9 DEF r

(* So counting from the end finds what counting from the start does, for   *)
(* anchors that do not overlap themselves.                                 *)
LEMMA SameFromEitherEnd ==
  ASSUME TextInv
  PROVE  NthFromEitherEnd
<1> SUFFICES ASSUME Unread, NEW n \in Needles, NEW r \in Window, ~SelfOverlapping(n)
             PROVE  IterRfind(text, n, r[1], r[2]) = Reverse(IterFind(text, n, r[1], r[2]))
  BY DEF NthFromEitherEnd
<1> DEFINE all == Occurrences(text, n, r[1], r[2])
           right == IterRfind(text, n, r[1], r[2])
<1>1. Searchable(text, n) /\ r[1] \in 0 .. Len(text) /\ r[1] \in Nat /\ r[2] \in 0 .. Len(text)
  BY WindowsAreSearchable
<1>2. Ascending(IterFind(text, n, r[1], r[2]), all)
  BY <1>1, IterFindAscends
<1>3. Descending(right, all)
  BY <1>1, IterRfindDescends
<1> HIDE DEF all, right
<1>4. Ascending(Reverse(right), all) /\ Reverse(Reverse(right)) = right
  BY <1>3, ReversedAscends
<1>5. Reverse(right) = IterFind(text, n, r[1], r[2])
  BY <1>2, <1>4, AscendingUnique
<1> QED BY <1>4, <1>5 DEF right

(* An anchor that does not overlap itself has the same occurrences from    *)
(* the right as from the left, so that nth means one thing counted from    *)
(* either end (_engine.py:61-75).                                          *)
THEOREM NthMeansOneThing == Spec => []NthFromEitherEnd
BY TextInvariant, SameFromEitherEnd, PTL

-----------------------------------------------------------------------------
(* A text that has been added to has the occurrences it had, and others    *)
(* only behind them.                                                       *)
LEMMA FindInGrownText ==
  ASSUME NEW h, NEW more, NEW needle, Searchable(h, needle), Searchable(h \o more, needle),
         \E Chars : h \in Seq(Chars) /\ more \in Seq(Chars), NEW pos \in 0 .. Len(h),
         Find(h, needle, pos, Len(h)) # NotFound
  PROVE  Find(h \o more, needle, pos, Len(h \o more)) = Find(h, needle, pos, Len(h))
<1> DEFINE g == h \o more
           L == Len(needle)
           before == Occurrences(h, needle, pos, Len(h))
           after == Occurrences(g, needle, pos, Len(g))
           hit == Find(h, needle, pos, Len(h))
           new == Find(g, needle, pos, Len(g))
<1>1. PICK Chars : h \in Seq(Chars) /\ more \in Seq(Chars)
  OBVIOUS
<1>2. /\ Len(h) \in Nat /\ L \in Nat /\ L >= 1 /\ Len(more) \in Nat
      /\ Len(g) = Len(h) + Len(more) /\ g \in Seq(Chars)
  BY <1>1, SearchableLengths
<1>3. \A i \in 1 .. Len(h) : g[i] = h[i]
  BY <1>1, <1>2
<1>4. ASSUME NEW o \in Nat, o + L <= Len(h)
      PROVE  SubSeq(g, o + 1, o + L) = SubSeq(h, o + 1, o + L)
  <2>1. /\ SubSeq(g, o + 1, o + L) \in Seq(Chars) /\ Len(SubSeq(g, o + 1, o + L)) = L
        /\ SubSeq(h, o + 1, o + L) \in Seq(Chars) /\ Len(SubSeq(h, o + 1, o + L)) = L
    <3> HIDE DEF g
    <3> QED BY <1>1, <1>2, <1>4
  <2>2. ASSUME NEW j \in 1 .. L
        PROVE  SubSeq(g, o + 1, o + L)[j] = SubSeq(h, o + 1, o + L)[j]
    <3> HIDE DEF g
    <3>1. SubSeq(g, o + 1, o + L)[j] = g[o + j] /\ SubSeq(h, o + 1, o + L)[j] = h[o + j]
      BY <1>1, <1>2, <1>4
    <3>2. o + j \in 1 .. Len(h)
      BY <1>2, <1>4
    <3> QED BY <1>3, <3>1, <3>2
  <2> HIDE DEF g
  <2> QED BY <2>1, <2>2, SeqEqual
<1>5. /\ hit \in before /\ \A o \in before : hit <= o
      /\ new = NotFound <=> after = {}
      /\ new # NotFound => new \in after /\ \A o \in after : new <= o
  <2>1. pos \in Nat /\ Len(h) \in 0 .. Len(h) /\ Len(g) \in 0 .. Len(g)
    BY <1>2
  <2> QED BY <2>1, FindIsLeast
<1> HIDE DEF g, hit, new
<1>6. \A o \in Nat : o + L <= Len(h) => (o \in before <=> o \in after)
  BY <1>2, <1>4 DEF Occurrences, IsAt, Bytes
<1>7. /\ hit \in Nat /\ hit + L <= Len(h)
      /\ \A o \in before : o \in Nat /\ o + L <= Len(h)
      /\ \A o \in after : o \in Nat
  BY <1>2, <1>5 DEF Occurrences
<1> HIDE DEF before, after, L
<1>8. hit \in after /\ new \in after /\ new <= hit
  BY <1>5, <1>6, <1>7
<1>9. new \in before
  BY <1>2, <1>6, <1>7, <1>8
<1>10. hit <= new
  BY <1>5, <1>9
<1>11. hit = new
  BY <1>7, <1>8, <1>10
<1> QED BY <1>11 DEF hit, new, g

(* A sequence is a prefix of another when it has the same items as far as  *)
(* it goes.                                                                *)
LEMMA PrefixItems ==
  ASSUME NEW S, NEW s \in Seq(S), NEW t \in Seq(S)
  PROVE  IsPrefix(s, t) <=> Len(s) <= Len(t) /\ \A i \in 1 .. Len(s) : s[i] = t[i]
<1>1. Len(s) \in Nat /\ Len(t) \in Nat
  OBVIOUS
<1> SUFFICES ASSUME Len(s) <= Len(t)
             PROVE  SubSeq(s, 1, Len(s)) = SubSeq(t, 1, Len(s))
                      <=> \A i \in 1 .. Len(s) : s[i] = t[i]
  BY DEF IsPrefix
<1>2. /\ SubSeq(s, 1, Len(s)) \in Seq(S) /\ Len(SubSeq(s, 1, Len(s))) = Len(s)
      /\ SubSeq(t, 1, Len(s)) \in Seq(S) /\ Len(SubSeq(t, 1, Len(s))) = Len(s)
  BY <1>1
<1>3. \A i \in 1 .. Len(s) : SubSeq(s, 1, Len(s))[i] = s[i] /\ SubSeq(t, 1, Len(s))[i] = t[i]
  BY <1>1
<1>4. ASSUME \A i \in 1 .. Len(s) : s[i] = t[i]
      PROVE  SubSeq(s, 1, Len(s)) = SubSeq(t, 1, Len(s))
  BY <1>2, <1>3, <1>4, SeqEqual
<1> QED BY <1>3, <1>4

(* The empty sequence is a prefix of every other.                          *)
LEMMA EmptyPrefix ==
  ASSUME NEW S, NEW t \in Seq(S)
  PROVE  IsPrefix(<< >>, t)
<1>1. Len(<< >>) = 0 /\ Len(t) \in Nat
  OBVIOUS
<1>2. SubSeq(<< >>, 1, 0) = << >> /\ SubSeq(t, 1, 0) = << >>
  BY SubSeqEmpty
<1> QED BY <1>1, <1>2 DEF IsPrefix

(* A prefix stays one behind the same first item.                          *)
LEMMA PrefixBehindHit ==
  ASSUME NEW x \in Int, NEW s \in Seq(Int), NEW t \in Seq(Int), IsPrefix(s, t)
  PROVE  IsPrefix(<<x>> \o s, <<x>> \o t)
<1> DEFINE u == <<x>> \o s
           v == <<x>> \o t
<1>1. Len(s) \in Nat /\ Len(t) \in Nat /\ Len(s) <= Len(t) /\ \A i \in 1 .. Len(s) : s[i] = t[i]
  BY PrefixItems
<1>2. /\ u \in Seq(Int) /\ Len(u) = Len(s) + 1 /\ v \in Seq(Int) /\ Len(v) = Len(t) + 1
      /\ u[1] = x /\ v[1] = x
      /\ \A i \in 2 .. Len(s) + 1 : u[i] = s[i - 1]
      /\ \A i \in 2 .. Len(t) + 1 : v[i] = t[i - 1]
  BY <1>1
<1> HIDE DEF u, v
<1>3. ASSUME NEW i \in 1 .. Len(u) PROVE u[i] = v[i]
  <2>1. CASE i = 1
    BY <1>2, <2>1
  <2>2. CASE i # 1
    <3>1. i - 1 \in 1 .. Len(s) /\ i \in 2 .. Len(s) + 1 /\ i \in 2 .. Len(t) + 1
      BY <1>1, <1>2, <2>2
    <3> QED BY <1>1, <1>2, <3>1
  <2> QED BY <2>1, <2>2
<1>4. Len(u) <= Len(v)
  BY <1>1, <1>2
<1> QED BY <1>2, <1>3, <1>4, PrefixItems DEF u, v

(* What is written to the end of a text adds hits behind the old ones.     *)
LEMMA IterFindGrows ==
  ASSUME NEW h, NEW more, NEW needle, Searchable(h, needle), Searchable(h \o more, needle),
         \E Chars : h \in Seq(Chars) /\ more \in Seq(Chars)
  PROVE  IsPrefix(IterFind(h, needle, 0, Len(h)), IterFind(h \o more, needle, 0, Len(h \o more)))
<1> DEFINE g == h \o more
           D == 0 .. Len(h)
           rank == [p \in D |-> Len(h) - p]
           before(p) == IterFind(h, needle, p, Len(h))
           after(p) == IterFind(g, needle, p, Len(g))
           good == {p \in D : IsPrefix(before(p), after(p))}
<1>1. /\ Len(h) \in Nat /\ Len(needle) \in Nat /\ Len(needle) >= 1
      /\ Len(g) \in Nat /\ Len(h) <= Len(g)
  BY SearchableLengths
<1>2. ASSUME NEW p \in D
      PROVE  before(p) \in Seq(Int) /\ after(p) \in Seq(Int)
  <2>1. Len(h) \in 0 .. Len(h) /\ Len(g) \in 0 .. Len(g) /\ p \in 0 .. Len(g)
    BY <1>1
  <2>2. /\ Greedy(before(p), h, needle, p, Len(h))
        /\ Greedy(after(p), g, needle, p, Len(g))
    BY <2>1, IterFindIsGreedy
  <2> QED BY <2>2 DEF Greedy
<1>3. ASSUME NEW p \in D, \A r \in D : rank[r] < rank[p] => r \in good
      PROVE  p \in good
  <2> DEFINE hit == Find(h, needle, p, Len(h))
             next == hit + Len(needle)
  <2>1. Len(h) \in 0 .. Len(h) /\ Len(g) \in 0 .. Len(g) /\ p \in 0 .. Len(g) /\ p \in Nat
    BY <1>1
  <2>2. CASE hit = NotFound
    <3>1. before(p) = << >>
      BY <2>1, <2>2, IterFindUnfolds
    <3>2. IsPrefix(<< >>, after(p))
      BY <1>2, EmptyPrefix
    <3> QED BY <3>1, <3>2
  <2>3. CASE hit # NotFound
    <3>1. hit \in Occurrences(h, needle, p, Len(h))
      BY <2>1, <2>3, FindIsLeast
    <3>2. next \in D /\ rank[next] < rank[p] /\ hit \in Int
      BY <1>1, <3>1 DEF Occurrences
    <3>3. IsPrefix(before(next), after(next))
      BY <1>3, <3>2
    <3>4. before(p) = <<hit>> \o before(next)
      BY <2>1, <2>3, IterFindUnfolds
    <3>5. Find(g, needle, p, Len(g)) = hit
      BY <2>3, FindInGrownText
    <3>6. after(p) = <<hit>> \o after(next)
      BY <2>1, <2>3, <3>5, IterFindUnfolds
    <3>7. before(next) \in Seq(Int) /\ after(next) \in Seq(Int)
      BY <1>2, <3>2
    <3> HIDE DEF before, after, hit, next
    <3>8. IsPrefix(before(p), after(p))
      BY <3>2, <3>3, <3>4, <3>6, <3>7, PrefixBehindHit
    <3> QED BY <3>8
  <2> QED BY <2>2, <2>3
<1>4. rank \in [D -> Nat] /\ 0 \in D
  BY <1>1
<1> HIDE DEF good, rank, D
<1>5. D \subseteq good
  BY <1>3, <1>4, RankInduction
<1> QED BY <1>4, <1>5 DEF good

(* Every anchor can be looked for in every text.                           *)
LEMMA NeedlesAreSearchable ==
  ASSUME NEW s \in Seq(Alphabet \union STRING), NEW n \in Needles
  PROVE  Searchable(s, n)
<1>1. n \in Seq(Alphabet \union STRING) /\ n # << >>
  BY TextAssumption
<1> QED BY <1>1 DEF Searchable

(* What a reader has found in a file stays found, in the same order, when  *)
(* the file grows (watch.py follows growing files; nth counts on it).      *)
THEOREM HitsStayFound == Spec => GrowthKeepsHits
<1> DEFINE Keeps == \A n \in Needles :
             IsPrefix(IterFind(text, n, 0, Len(text)), IterFind(text', n, 0, Len(text')))
<1>1. ASSUME TextInv, TextInv', [Next]_vars PROVE Keeps
  <2> SUFFICES ASSUME NEW n \in Needles
               PROVE  IsPrefix(IterFind(text, n, 0, Len(text)), IterFind(text', n, 0, Len(text')))
    OBVIOUS
  <2>1. text \in Seq(Alphabet \union STRING) /\ text' \in Seq(Alphabet \union STRING)
    BY <1>1 DEF TextInv
  <2>2. \E more \in Seq(Alphabet \union STRING) : text' = text \o more
    <3>1. CASE UNCHANGED text
      <4>1. text' = text \o << >> /\ << >> \in Seq(Alphabet \union STRING)
        BY <2>1, <3>1
      <4> QED BY <4>1
    <3>2. ASSUME NEW c \in Alphabet, WriteCharacter(c)
          PROVE  \E more \in Seq(Alphabet \union STRING) : text' = text \o more
      <4>1. text' = text \o <<c>> /\ <<c>> \in Seq(Alphabet \union STRING)
        BY <2>1, <3>2 DEF WriteCharacter
      <4> QED BY <4>1
    <3>3. ASSUME NEW w \in Writes, Write(w)
          PROVE  \E more \in Seq(Alphabet \union STRING) : text' = text \o more
      <4>1. w \in Seq(STRING)
        BY TextAssumption
      <4>2. w \in Seq(Alphabet \union STRING)
        BY <4>1
      <4> QED BY <3>3, <4>2 DEF Write
    <3>4. \/ UNCHANGED text
          \/ \E c \in Alphabet : WriteCharacter(c)
          \/ \E w \in Writes : Write(w)
      BY <1>1 DEF Next, Load, vars
    <3> QED BY <3>1, <3>2, <3>3, <3>4
  <2>3. PICK more \in Seq(Alphabet \union STRING) : text' = text \o more
    BY <2>2
  <2>4. Searchable(text, n) /\ Searchable(text \o more, n)
    BY <2>1, <2>3, NeedlesAreSearchable
  <2> QED BY <2>1, <2>3, <2>4, IterFindGrows
<1>2. TextInv /\ TextInv' /\ [Next]_vars => [Keeps]_vars
  BY <1>1
<1> QED BY <1>2, TextInvariant, PTL DEF Spec, GrowthKeepsHits

-----------------------------------------------------------------------------
(* Lines.  What is asked of newlines is asked of single characters.        *)
IsText(h) == \E Chars : h \in Seq(Chars)
Newlines(h, from, to) == {i \in from .. to - 1 : Byte(h, i) = "\n"}

(* A newline occurs where the character is one.                            *)
LEMMA NewlineOccurrences ==
  ASSUME NEW h, IsText(h), NEW from \in Nat, NEW to \in 0 .. Len(h)
  PROVE  Occurrences(h, Newline, from, to) = Newlines(h, from, to)
<1>1. PICK Chars : h \in Seq(Chars)
  BY DEF IsText
<1>2. Len(h) \in Nat /\ Len(Newline) = 1
  BY <1>1 DEF Newline
<1>3. ASSUME NEW i \in from .. to - 1 PROVE IsAt(h, Newline, i) <=> Byte(h, i) = "\n"
  <2>1. i \in Nat /\ i + 1 <= Len(h)
    BY <1>2
  <2> DEFINE s == SubSeq(h, i + 1, i + 1)
  <2>2. s \in Seq(Chars) /\ Len(s) = 1 /\ s[1] = h[i + 1]
    <3>1. s \in Seq(Chars) /\ Len(s) = 1
      BY <1>1, <1>2, <2>1
    <3>2. s[1] = h[i + 1]
      BY <1>1, <1>2, <2>1
    <3> QED BY <3>1, <3>2
  <2> HIDE DEF s
  <2>3. s = <<s[1]>>
    BY <2>2
  <2>4. s = <<"\n">> <=> h[i + 1] = "\n"
    BY <2>2, <2>3
  <2> QED BY <1>2, <2>1, <2>4 DEF IsAt, Bytes, Byte, Newline, s
<1> QED BY <1>2, <1>3 DEF Occurrences, Newlines

(* So newlines can be looked for in every text.                            *)
LEMMA TextsHaveNewlines ==
  ASSUME NEW h, IsText(h)
  PROVE  Searchable(h, Newline) /\ Len(h) \in Nat
<1>1. PICK Chars : h \in Seq(Chars)
  BY DEF IsText
<1>2. h \in Seq(Chars \union {"\n"}) /\ Newline \in Seq(Chars \union {"\n"}) /\ Newline # << >>
  BY <1>1 DEF Newline
<1> QED BY <1>1, <1>2 DEF Searchable

(* find answers with the first newline of the window.                      *)
LEMMA FindNewline ==
  ASSUME NEW h, IsText(h), NEW from \in Nat, NEW to \in 0 .. Len(h)
  PROVE  LET nl == Find(h, Newline, from, to) IN
         /\ nl = NotFound <=> Newlines(h, from, to) = {}
         /\ nl # NotFound => nl \in Newlines(h, from, to) /\ \A i \in Newlines(h, from, to) : nl <= i
BY TextsHaveNewlines, NewlineOccurrences, FindIsLeast

(* rfind answers with the last one.                                        *)
LEMMA RfindNewline ==
  ASSUME NEW h, IsText(h), NEW from \in Nat, NEW to \in 0 .. Len(h)
  PROVE  LET nl == Rfind(h, Newline, from, to) IN
         /\ nl = NotFound <=> Newlines(h, from, to) = {}
         /\ nl # NotFound => nl \in Newlines(h, from, to) /\ \A i \in Newlines(h, from, to) : i <= nl
BY TextsHaveNewlines, NewlineOccurrences, RfindIsGreatest

(* Where a line starts: at 0 or behind a newline, and the same for every   *)
(* offset up to the next newline.                                          *)
StartsLine(h, p) == p = 0 \/ Byte(h, p - 1) = "\n"

(* line_start is such a place, with no newline up to the offset.           *)
LEMMA LineStartOf ==
  ASSUME NEW h, IsText(h), NEW o \in 0 .. Len(h)
  PROVE  /\ LineStart(h, o) \in 0 .. o /\ StartsLine(h, LineStart(h, o))
         /\ Newlines(h, LineStart(h, o), o) = {}
<1> DEFINE nl == Rfind(h, Newline, 0, o)
<1>1. Len(h) \in Nat /\ o \in Nat
  BY TextsHaveNewlines
<1>2. /\ nl = NotFound <=> Newlines(h, 0, o) = {}
      /\ nl # NotFound => nl \in Newlines(h, 0, o) /\ \A i \in Newlines(h, 0, o) : i <= nl
  BY RfindNewline
<1>3. LineStart(h, o) = nl + 1
  BY DEF LineStart
<1> HIDE DEF nl
<1>4. CASE nl = NotFound
  BY <1>1, <1>2, <1>3, <1>4 DEF NotFound, StartsLine
<1>5. CASE nl # NotFound
  <2>1. nl \in 0 .. o - 1 /\ Byte(h, nl) = "\n"
    BY <1>2, <1>5 DEF Newlines
  <2>2. Newlines(h, nl + 1, o) = {}
    <3>1. \A i \in Newlines(h, nl + 1, o) : i \in Newlines(h, 0, o) /\ nl < i /\ i \in Int
      BY <1>1, <2>1 DEF Newlines
    <3> QED BY <1>2, <1>5, <2>1, <3>1
  <2> QED BY <1>1, <1>3, <2>1, <2>2 DEF StartsLine
<1> QED BY <1>4, <1>5

(* It is the only such place.                                              *)
LEMMA LineStartUnique ==
  ASSUME NEW h, IsText(h), NEW o \in 0 .. Len(h), NEW p \in 0 .. o,
         StartsLine(h, p), Newlines(h, p, o) = {}
  PROVE  LineStart(h, o) = p
<1> DEFINE s == LineStart(h, o)
<1>1. Len(h) \in Nat /\ o \in Nat /\ p \in Nat
  BY TextsHaveNewlines
<1>2. s \in 0 .. o /\ StartsLine(h, s) /\ Newlines(h, s, o) = {}
  BY LineStartOf
<1> HIDE DEF s
<1>3. ~(s < p)
  <2>1. s < p => p - 1 \in Newlines(h, s, o)
    BY <1>1, <1>2 DEF StartsLine, Newlines
  <2> QED BY <1>2, <2>1
<1>4. ~(p < s)
  <2>1. p < s => s - 1 \in Newlines(h, p, o)
    BY <1>1, <1>2 DEF StartsLine, Newlines
  <2> QED BY <2>1
<1> QED BY <1>1, <1>2, <1>3, <1>4 DEF s

(* A line ends at its newline or one short of it, and no newline is inside.*)
EndsAt(h, p) == OrEnd(h, Find(h, Newline, p, Len(h)))

(* line_end is at the next newline, at the end of the text, or at a        *)
(* carriage return just before them.                                       *)
LEMMA LineEndOf ==
  ASSUME NEW h, IsText(h), NEW p \in 0 .. Len(h)
  PROVE  LET stop == LineEnd(h, p)
             over == EndsAt(h, p)
         IN  /\ over \in p .. Len(h) /\ over \in Nat /\ Newlines(h, p, over) = {}
             /\ over < Len(h) => Byte(h, over) = "\n"
             /\ over = Len(h) <=> Find(h, Newline, p, Len(h)) = NotFound
             /\ stop = over \/ (stop = over - 1 /\ p <= stop /\ Byte(h, stop) = "\r")
             /\ stop \in p .. Len(h)
<1> DEFINE nl == Find(h, Newline, p, Len(h))
           stop == LineEnd(h, p)
           over == EndsAt(h, p)
<1>1. Len(h) \in Nat /\ p \in Nat /\ Len(h) \in 0 .. Len(h)
  BY TextsHaveNewlines
<1>2. /\ nl = NotFound <=> Newlines(h, p, Len(h)) = {}
      /\ nl # NotFound => nl \in Newlines(h, p, Len(h)) /\ \A i \in Newlines(h, p, Len(h)) : nl <= i
  BY <1>1, FindNewline
<1>3. over = IF nl = NotFound THEN Len(h) ELSE nl
  BY DEF EndsAt, OrEnd
<1>4. stop = IF over > p /\ Byte(h, over - 1) = "\r" THEN over - 1 ELSE over
  BY DEF LineEnd, DropReturn, EndsAt
<1> HIDE DEF nl, over, stop
<1>5. over \in p .. Len(h) /\ (over = Len(h) <=> nl = NotFound)
      /\ (over < Len(h) => Byte(h, over) = "\n")
  BY <1>1, <1>2, <1>3 DEF Newlines
<1>6. Newlines(h, p, over) = {}
  <2> SUFFICES ASSUME NEW i \in Newlines(h, p, over) PROVE FALSE
    OBVIOUS
  <2>1. i \in Newlines(h, p, Len(h)) /\ i < over /\ i \in Int /\ over \in Int
    BY <1>1, <1>5 DEF Newlines
  <2>2. nl # NotFound /\ over = nl /\ nl <= i
    BY <1>2, <1>3, <2>1
  <2> QED BY <2>1, <2>2
<1>7. stop = over \/ (stop = over - 1 /\ p <= stop /\ Byte(h, stop) = "\r")
  BY <1>1, <1>4, <1>5
<1> QED BY <1>1, <1>5, <1>6, <1>7 DEF nl, over, stop

(* Looking for the newline from where the line ends finds the same one.    *)
LEMMA SameNewline ==
  ASSUME NEW h, IsText(h), NEW p \in 0 .. Len(h)
  PROVE  Find(h, Newline, LineEnd(h, p), Len(h)) = Find(h, Newline, p, Len(h))
<1> DEFINE stop == LineEnd(h, p)
           over == EndsAt(h, p)
           here == Newlines(h, p, Len(h))
           there == Newlines(h, stop, Len(h))
<1>1. Len(h) \in Nat /\ p \in Nat /\ Len(h) \in 0 .. Len(h)
  BY TextsHaveNewlines
<1>2. /\ over \in p .. Len(h) /\ Newlines(h, p, over) = {}
      /\ stop \in p .. Len(h) /\ (stop = over \/ stop = over - 1)
  BY LineEndOf
<1> HIDE DEF stop, over
<1>3. stop \in Nat /\ p <= stop /\ stop <= over
  BY <1>1, <1>2
<1>4. here = there
  <2>1. \A i \in here : i \in Int /\ i >= over
    BY <1>1, <1>2 DEF Newlines
  <2>2. \A i \in here : i \in there
    BY <1>1, <1>2, <1>3, <2>1 DEF Newlines
  <2>3. \A i \in there : i \in here
    BY <1>1, <1>3 DEF Newlines
  <2> QED BY <2>2, <2>3
<1>5. Occurrences(h, Newline, p, Len(h)) = Occurrences(h, Newline, stop, Len(h))
  BY <1>1, <1>3, <1>4, NewlineOccurrences
<1> QED BY <1>5 DEF Find, stop

(* The walk over the lines: a line, and the lines behind its newline.      *)
After(h, p) == NextLine(h, Find(h, Newline, LineEnd(h, p), Len(h)))
LineWalk(w, h, to) ==
  w = [pos \in 0 .. Len(h) + 1 |->
         LET stop == LineEnd(h, pos) IN
         IF pos > to THEN << >>
         ELSE <<<<pos, stop>>>> \o w[NextLine(h, Find(h, Newline, stop, Len(h)))]]

(* The walk goes on behind the newline, or stops where no line follows.    *)
LEMMA AfterIsNext ==
  ASSUME NEW h, IsText(h), NEW p \in 0 .. Len(h)
  PROVE  LET over == EndsAt(h, p) IN
         /\ After(h, p) = IF over + 1 >= Len(h) THEN Len(h) + 1 ELSE over + 1
         /\ After(h, p) \in p + 1 .. Len(h) + 1
<1> DEFINE nl == Find(h, Newline, p, Len(h))
           over == EndsAt(h, p)
<1>1. Len(h) \in Nat /\ p \in Nat
  BY TextsHaveNewlines
<1>2. over \in p .. Len(h) /\ (over = Len(h) <=> nl = NotFound)
  BY LineEndOf
<1>3. After(h, p) = IF nl = NotFound \/ nl + 1 >= Len(h) THEN Len(h) + 1 ELSE nl + 1
  BY SameNewline DEF After, NextLine
<1>4. nl # NotFound => over = nl
  BY DEF EndsAt, OrEnd
<1> HIDE DEF nl, over
<1> QED BY <1>1, <1>2, <1>3, <1>4 DEF over

(* The walk is defined: every step of it goes forward.                     *)
LEMMA LineWalkExists ==
  ASSUME NEW h, IsText(h), NEW to \in 0 .. Len(h)
  PROVE  \E w : LineWalk(w, h, to)
<1> DEFINE D == 0 .. Len(h) + 1
           line(p) == <<p, LineEnd(h, p)>>
           V == Seq({line(p) : p \in D})
           rank == [p \in D |-> Len(h) + 1 - p]
           over == {p \in D : p > to}
           next == [p \in D \ over |-> After(h, p)]
           base == [p \in over |-> << >>]
           step == [p \in D \ over |-> [v \in V |-> <<line(p)>> \o v]]
<1>1. Len(h) \in Nat
  BY TextsHaveNewlines
<1>2. \A p \in D \ over : p \in 0 .. Len(h)
  BY <1>1
<1>3. Descends(D, rank, over, next)
  <2>1. ASSUME NEW p \in D \ over PROVE next[p] \in D /\ rank[next[p]] < rank[p]
    <3>1. After(h, p) \in p + 1 .. Len(h) + 1
      BY <1>2, AfterIsNext
    <3> QED BY <1>1, <3>1
  <2>2. rank \in [D -> Nat]
    BY <1>1
  <2> QED BY <2>1, <2>2 DEF Descends
<1>4. base \in [over -> V]
  OBVIOUS
<1>5. \A p \in D \ over, v \in V : step[p][v] \in V
  <2> HIDE DEF line
  <2>1. \A p \in D : <<line(p)>> \in V
    OBVIOUS
  <2> QED BY <2>1
<1> HIDE DEF rank, over, next, base, step, V, D, line
<1>6. PICK w \in [D -> V] : \A p \in D : Continues(w, p, over, base, next, step)
  BY <1>3, <1>4, <1>5, RecursionExists
<1>7. ASSUME NEW p \in D
      PROVE  w[p] = IF p > to THEN << >> ELSE <<line(p)>> \o w[After(h, p)]
  <2>1. p \in over <=> p > to
    BY DEF over
  <2>2. ASSUME p \notin over
        PROVE  next[p] = After(h, p) /\ w[next[p]] \in V
    BY <1>3, <2>2 DEF next, Descends
  <2>3. p \notin over => step[p][w[next[p]]] = <<line(p)>> \o w[next[p]]
    BY <2>2 DEF step
  <2> QED BY <1>6, <2>1, <2>2, <2>3 DEF Continues, base
<1>8. w = [p \in D |-> IF p > to THEN << >> ELSE <<line(p)>> \o w[After(h, p)]]
  BY <1>7
<1> QED BY <1>8 DEF LineWalk, D, After, line

(* The lines from p on, for a place p where a line starts.                 *)
LEMMA LineSpansUnfold ==
  ASSUME NEW h, IsText(h), h # << >>, NEW to \in 0 .. Len(h),
         NEW p \in 0 .. Len(h), StartsLine(h, p)
  PROVE  LineSpans(h, p, to)
           = IF p > to THEN << >>
             ELSE <<<<p, LineEnd(h, p)>>>>
                    \o IF EndsAt(h, p) + 1 >= Len(h) THEN << >>
                       ELSE LineSpans(h, EndsAt(h, p) + 1, to)
<1> DEFINE w == CHOOSE v : LineWalk(v, h, to)
           over == EndsAt(h, p)
<1>1. LineWalk(w, h, to)
  BY LineWalkExists
<1>2. \A o : LineSpans(h, o, to) = w[LineStart(h, o)]
  BY DEF LineSpans, LineWalk
<1> HIDE DEF w
<1>3. Len(h) \in Nat /\ p \in Nat
  BY TextsHaveNewlines
<1>4. LineStart(h, p) = p
  <2>1. Newlines(h, p, p) = {}
    BY <1>3 DEF Newlines
  <2> QED BY <1>3, <2>1, LineStartUnique
<1>5. \A o \in 0 .. Len(h) + 1 :
        w[o] = IF o > to THEN << >> ELSE <<<<o, LineEnd(h, o)>>>> \o w[After(h, o)]
  BY <1>1 DEF LineWalk, After
<1>6. w[p] = IF p > to THEN << >> ELSE <<<<p, LineEnd(h, p)>>>> \o w[After(h, p)]
  BY <1>3, <1>5
<1>7. w[Len(h) + 1] = << >>
  <2>1. Len(h) + 1 \in 0 .. Len(h) + 1 /\ Len(h) + 1 > to
    BY <1>3
  <2> QED BY <1>5, <2>1
<1>8. /\ over \in p .. Len(h) /\ (over < Len(h) => Byte(h, over) = "\n")
      /\ After(h, p) = IF over + 1 >= Len(h) THEN Len(h) + 1 ELSE over + 1
  BY LineEndOf, AfterIsNext
<1> HIDE DEF over
<1>9. over + 1 < Len(h) => LineStart(h, over + 1) = over + 1
  <2> SUFFICES ASSUME over + 1 < Len(h) PROVE LineStart(h, over + 1) = over + 1
    OBVIOUS
  <2>1. over + 1 \in 0 .. Len(h) /\ over + 1 \in 0 .. over + 1 /\ over + 1 - 1 = over
    BY <1>3, <1>8
  <2>2. StartsLine(h, over + 1) /\ Newlines(h, over + 1, over + 1) = {}
    BY <1>3, <1>8, <2>1 DEF StartsLine, Newlines
  <2> QED BY <2>1, <2>2, LineStartUnique
<1>10. over + 1 < Len(h) => LineSpans(h, over + 1, to) = w[over + 1]
  BY <1>2, <1>9
<1>11. LineSpans(h, p, to) = w[p]
  BY <1>2, <1>4
<1>12. w[After(h, p)] = IF over + 1 >= Len(h) THEN << >> ELSE LineSpans(h, over + 1, to)
  BY <1>3, <1>7, <1>8, <1>10
<1> QED BY <1>6, <1>11, <1>12 DEF over

-----------------------------------------------------------------------------
(* An offset is on the line that starts at its LineStart; the number of a  *)
(* line is one more than the newlines before it.                           *)
LEMMA NewlineAlone == ~SelfOverlapping(Newline)
BY DEF SelfOverlapping, Newline

(* Over the end of a line the count of newlines grows by one.              *)
LEMMA OneMoreNewline ==
  ASSUME NEW h, IsText(h), NEW p \in 0 .. Len(h), NEW over \in p .. Len(h) - 1,
         Newlines(h, p, over) = {}, Byte(h, over) = "\n"
  PROVE  Count(h, Newline, 0, over + 1) = Count(h, Newline, 0, p) + 1
<1> DEFINE before == IterFind(h, Newline, 0, p)
           behind == IterFind(h, Newline, 0, over + 1)
           old == Newlines(h, 0, p)
           new == Newlines(h, 0, over + 1)
           more == Append(before, over)
<1>1. Len(h) \in Nat /\ p \in Nat /\ over \in Nat /\ Searchable(h, Newline)
  BY TextsHaveNewlines
<1>2. p \in 0 .. Len(h) /\ over + 1 \in 0 .. Len(h) /\ 0 \in 0 .. Len(h)
  BY <1>1
<1>3. Ascending(before, old) /\ Ascending(behind, new)
  <2>1. /\ Ascending(before, Occurrences(h, Newline, 0, p))
        /\ Ascending(behind, Occurrences(h, Newline, 0, over + 1))
    BY <1>1, <1>2, NewlineAlone, IterFindAscends
  <2> QED BY <1>2, <2>1, NewlineOccurrences
<1>4. new = old \union {over} /\ \A i \in old : i < over
  BY <1>1 DEF Newlines
<1> HIDE DEF before, behind, old, new
<1>5. before \in Seq(Int) /\ Len(before) \in Nat /\ DOMAIN before = 1 .. Len(before)
  BY <1>3 DEF Ascending
<1>6. /\ more \in Seq(Int) /\ Len(more) = Len(before) + 1 /\ DOMAIN more = 1 .. Len(before) + 1
      /\ more[Len(before) + 1] = over
      /\ \A i \in DOMAIN before : i \in DOMAIN more /\ more[i] = before[i]
  BY <1>1, <1>5
<1> HIDE DEF more
<1>7. Ascending(more, new)
  <2>1. ASSUME NEW i \in DOMAIN more
        PROVE  i \in DOMAIN before \/ i = Len(before) + 1
    BY <1>5, <1>6
  <2>2. \A i \in DOMAIN before : before[i] \in old
    BY <1>3 DEF Ascending
  <2>3. \A i \in DOMAIN more : more[i] \in new
    BY <1>4, <1>6, <2>1, <2>2
  <2>4. ASSUME NEW i \in DOMAIN more, NEW j \in DOMAIN more, i < j
        PROVE  more[i] < more[j]
    <3>1. i \in DOMAIN before
      BY <1>5, <1>6, <2>4
    <3>2. CASE j \in DOMAIN before
      BY <1>3, <1>6, <2>4, <3>1, <3>2 DEF Ascending
    <3>3. CASE j = Len(before) + 1
      BY <1>4, <1>6, <2>2, <3>1, <3>3
    <3> QED BY <2>1, <3>2, <3>3
  <2>5. ASSUME NEW n \in new PROVE \E i \in DOMAIN more : more[i] = n
    <3>1. CASE n = over
      <4>1. Len(before) + 1 \in DOMAIN more
        BY <1>5, <1>6
      <4> QED BY <1>6, <3>1, <4>1
    <3>2. CASE n \in old
      <4>1. PICK i \in DOMAIN before : before[i] = n
        BY <1>3, <3>2 DEF Ascending
      <4> QED BY <1>6, <4>1
    <3> QED BY <1>4, <3>1, <3>2
  <2> QED BY <1>6, <2>3, <2>4, <2>5 DEF Ascending
<1>8. behind = more
  BY <1>3, <1>7, AscendingUnique
<1> QED BY <1>6, <1>8 DEF Count, before, behind

(* Up to the end of a line every offset has the same number.               *)
LEMMA SameLineNumber ==
  ASSUME NEW h, IsText(h), NEW p \in 0 .. Len(h), StartsLine(h, p),
         NEW o \in p .. Len(h), Newlines(h, p, o) = {}
  PROVE  LineNumber(h, o) = Count(h, Newline, 0, p) + 1
<1>1. Len(h) \in Nat
  BY TextsHaveNewlines
<1>2. LineStart(h, o) = p
  BY <1>1, LineStartUnique
<1> QED BY <1>2 DEF LineNumber

(* What is claimed of each line, given where the next one starts.          *)
LineIs(h, line, next, isLast, number) ==
  /\ line[1] < Len(h)
  /\ "\n" \notin ToSet(Bytes(h, line))
  /\ Bytes(h, <<line[2], next>>) \in {<<"\n">>, <<"\r", "\n">>}
       \union (IF isLast THEN {<< >>, <<"\r">>} ELSE {})
  /\ \A o \in line[1] .. next - 1 : LineNumber(h, o) = number
NextOf(h, lines, i) == IF i = Len(lines) THEN Len(h) ELSE lines[i + 1][1]
Numbered(h, lines, p, i) ==
  LineIs(h, lines[i], NextOf(h, lines, i), i = Len(lines), Count(h, Newline, 0, p) + i)
LinesCover(h, lines, p) ==
  /\ lines \in Seq(Nat \X Nat) /\ lines # << >> /\ lines[1][1] = p
  /\ \A i \in DOMAIN lines : Numbered(h, lines, p, i)

(* The bytes of a span are its characters, one by one.                     *)
LEMMA BytesOfText ==
  ASSUME NEW Chars, NEW h \in Seq(Chars), NEW from \in Nat, NEW to \in from .. Len(h)
  PROVE  LET s == Bytes(h, <<from, to>>) IN
         /\ s \in Seq(Chars) /\ Len(s) = to - from
         /\ \A i \in 1 .. to - from : s[i] = Byte(h, from + i - 1)
<1> DEFINE s == SubSeq(h, from + 1, to)
<1>1. Len(h) \in Nat /\ to \in Nat
  OBVIOUS
<1>2. s \in Seq(Chars) /\ Len(s) = to - from
  BY <1>1
<1>3. \A i \in 1 .. to - from : s[i] = h[from + i]
  BY <1>1
<1>4. Bytes(h, <<from, to>>) = s
  BY DEF Bytes
<1> HIDE DEF s
<1>5. \A i \in 1 .. to - from : from + i - 1 + 1 = from + i
  BY <1>1
<1> QED BY <1>2, <1>3, <1>4, <1>5 DEF Byte

(* The line that starts at p ends, and is numbered, as it should.          *)
LEMMA FirstLine ==
  ASSUME NEW h, IsText(h), NEW p \in 0 .. Len(h), p < Len(h), StartsLine(h, p)
  PROVE  LET over == EndsAt(h, p)
             isLast == over + 1 >= Len(h)
         IN LineIs(h, <<p, LineEnd(h, p)>>, IF isLast THEN Len(h) ELSE over + 1, isLast,
                   Count(h, Newline, 0, p) + 1)
<1> DEFINE over == EndsAt(h, p)
           stop == LineEnd(h, p)
           isLast == over + 1 >= Len(h)
           next == IF isLast THEN Len(h) ELSE over + 1
<1>1. PICK Chars : h \in Seq(Chars)
  BY DEF IsText
<1>2. Len(h) \in Nat /\ p \in Nat
  BY <1>1
<1>3. /\ over \in p .. Len(h) /\ over \in Nat /\ Newlines(h, p, over) = {}
      /\ over < Len(h) => Byte(h, over) = "\n"
      /\ stop = over \/ (stop = over - 1 /\ p <= stop /\ Byte(h, stop) = "\r")
      /\ stop \in p .. Len(h)
  BY LineEndOf
<1> HIDE DEF over, stop
<1>4. stop \in Nat /\ p <= stop /\ stop <= over /\ next \in over .. Len(h) /\ next <= over + 1
  BY <1>2, <1>3
<1>5. "\n" \notin ToSet(Bytes(h, <<p, stop>>))
  <2> DEFINE s == Bytes(h, <<p, stop>>)
  <2>1. /\ s \in Seq(Chars) /\ Len(s) = stop - p
        /\ \A i \in 1 .. stop - p : s[i] = Byte(h, p + i - 1)
    BY <1>1, <1>2, <1>3, BytesOfText
  <2> HIDE DEF s
  <2>2. ASSUME NEW i \in DOMAIN s PROVE s[i] # "\n"
    <3>1. i \in 1 .. stop - p
      BY <2>1
    <3>2. p + i - 1 \in p .. over - 1
      BY <1>2, <1>3, <1>4, <3>1
    <3>3. Byte(h, p + i - 1) # "\n"
      BY <1>3, <3>2 DEF Newlines
    <3> QED BY <2>1, <3>1, <3>3
  <2> QED BY <2>2 DEF ToSet, s
<1>6. Bytes(h, <<stop, next>>) \in {<<"\n">>, <<"\r", "\n">>}
        \union (IF isLast THEN {<< >>, <<"\r">>} ELSE {})
  <2> DEFINE s == Bytes(h, <<stop, next>>)
  <2>1. /\ s \in Seq(Chars) /\ Len(s) = next - stop
        /\ \A i \in 1 .. next - stop : s[i] = Byte(h, stop + i - 1)
    <3>1. next \in stop .. Len(h)
      BY <1>2, <1>3, <1>4
    <3> HIDE DEF next
    <3> QED BY <1>1, <1>4, <3>1, BytesOfText
  <2> HIDE DEF s
  <2>2. CASE over < Len(h)
    <3>1. next = over + 1 /\ Byte(h, over) = "\n"
      BY <1>2, <1>3, <2>2
    <3>2. CASE stop = over
      <4>1. Len(s) = 1 /\ s[1] = "\n"
        <5>1. next - stop = 1 /\ 1 \in 1 .. next - stop /\ stop + 1 - 1 = over
          BY <1>3, <3>1, <3>2
        <5> QED BY <2>1, <3>1, <5>1
      <4>2. s = <<"\n">>
        BY <2>1, <4>1
      <4> QED BY <4>2 DEF s
    <3>3. CASE stop = over - 1 /\ Byte(h, stop) = "\r"
      <4>1. Len(s) = 2 /\ s[1] = "\r" /\ s[2] = "\n"
        BY <1>3, <1>4, <2>1, <3>1, <3>3
      <4>2. s = <<"\r", "\n">>
        BY <2>1, <4>1
      <4> QED BY <4>2 DEF s
    <3> QED BY <1>3, <3>2, <3>3
  <2>3. CASE over = Len(h)
    <3>1. next = over /\ isLast
      BY <1>2, <2>3
    <3>2. CASE stop = over
      <4>1. Len(s) = 0
        <5>1. next - stop = 0
          BY <1>3, <3>1, <3>2
        <5> QED BY <2>1, <5>1
      <4>2. s = << >>
        BY <2>1, <4>1
      <4> QED BY <3>1, <4>2 DEF s
    <3>3. CASE stop = over - 1 /\ Byte(h, stop) = "\r"
      <4>1. Len(s) = 1 /\ s[1] = "\r"
        BY <1>3, <1>4, <2>1, <3>1, <3>3
      <4>2. s = <<"\r">>
        BY <2>1, <4>1
      <4> QED BY <3>1, <4>2 DEF s
    <3> QED BY <1>3, <3>2, <3>3
  <2> QED BY <1>2, <1>3, <2>2, <2>3
<1>7. ASSUME NEW o \in p .. next - 1 PROVE LineNumber(h, o) = Count(h, Newline, 0, p) + 1
  <2>1. o \in p .. Len(h) /\ o <= over
    BY <1>2, <1>3, <1>4
  <2>2. Newlines(h, p, o) = {}
    <3>1. \A i \in Newlines(h, p, o) : i \in Newlines(h, p, over)
      BY <1>2, <1>3, <2>1 DEF Newlines
    <3> QED BY <1>3, <3>1
  <2> QED BY <2>1, <2>2, SameLineNumber
<1>8. LineIs(h, <<p, stop>>, next, isLast, Count(h, Newline, 0, p) + 1)
  <2> HIDE DEF next, isLast
  <2> QED BY <1>5, <1>6, <1>7 DEF LineIs, next, isLast
<1> QED BY <1>8 DEF over, stop

(* Lines behind one more line.                                             *)
LEMMA BehindAnItem ==
  ASSUME NEW x \in Nat \X Nat, NEW s \in Seq(Nat \X Nat)
  PROVE  LET t == <<x>> \o s IN
         /\ t \in Seq(Nat \X Nat) /\ Len(s) \in Nat /\ DOMAIN s = 1 .. Len(s)
         /\ Len(t) = Len(s) + 1 /\ DOMAIN t = 1 .. Len(s) + 1 /\ t[1] = x
         /\ \A i \in DOMAIN s : i + 1 \in DOMAIN t /\ t[i + 1] = s[i]
         /\ \A i \in DOMAIN t : i # 1 => i - 1 \in DOMAIN s /\ t[i] = s[i - 1]
<1> DEFINE S == Nat \X Nat
           t == <<x>> \o s
<1>0. x \in S /\ s \in Seq(S)
  OBVIOUS
<1> HIDE DEF S
<1>1. Len(s) \in Nat /\ DOMAIN s = 1 .. Len(s)
  BY <1>0
<1>2. t \in Seq(S) /\ Len(t) = Len(s) + 1 /\ t[1] = x
  BY <1>0, <1>1
<1>3. DOMAIN t = 1 .. Len(s) + 1
  BY <1>2
<1>4. \A i \in DOMAIN s : i + 1 \in DOMAIN t /\ t[i + 1] = s[i]
  BY <1>0, <1>1, <1>3
<1>5. ASSUME NEW i \in DOMAIN t, i # 1 PROVE i - 1 \in DOMAIN s /\ t[i] = s[i - 1]
  <2>1. i \in Int /\ i - 1 \in DOMAIN s /\ i - 1 + 1 = i
    BY <1>1, <1>3, <1>5
  <2> QED BY <1>4, <2>1
<1> QED BY <1>1, <1>2, <1>3, <1>4, <1>5 DEF S

(* A line in front of lines that cover the rest covers all.                *)
LEMMA CoverStep ==
  ASSUME NEW h, IsText(h), NEW p \in 0 .. Len(h), p < Len(h), StartsLine(h, p),
         NEW rest, rest \in Seq(Nat \X Nat),
         EndsAt(h, p) + 1 >= Len(h) => rest = << >>,
         EndsAt(h, p) + 1 < Len(h) => LinesCover(h, rest, EndsAt(h, p) + 1)
  PROVE  LinesCover(h, <<<<p, LineEnd(h, p)>>>> \o rest, p)
<1> DEFINE over == EndsAt(h, p)
           isLast == over + 1 >= Len(h)
           line == <<p, LineEnd(h, p)>>
           lines == <<line>> \o rest
           count(o) == Count(h, Newline, 0, o)
<1>1. Len(h) \in Nat /\ p \in Nat
  BY TextsHaveNewlines
<1>2. /\ over \in p .. Len(h) /\ Newlines(h, p, over) = {}
      /\ over < Len(h) => Byte(h, over) = "\n"
      /\ LineEnd(h, p) \in p .. Len(h)
  BY LineEndOf
<1>3. LineIs(h, line, IF isLast THEN Len(h) ELSE over + 1, isLast, count(p) + 1)
  BY FirstLine
<1>4. ~isLast => count(over + 1) = count(p) + 1
  <2> SUFFICES ASSUME ~isLast PROVE count(over + 1) = count(p) + 1
    OBVIOUS
  <2>1. over \in p .. Len(h) - 1 /\ Byte(h, over) = "\n"
    BY <1>1, <1>2
  <2> HIDE DEF over
  <2> QED BY <1>2, <2>1, OneMoreNewline
<1>5. count(p) \in Nat
  <2>1. Greedy(IterFind(h, Newline, 0, p), h, Newline, 0, p)
    BY <1>1, TextsHaveNewlines, IterFindIsGreedy
  <2> QED BY <2>1 DEF Greedy, Count
<1>6. line \in Nat \X Nat /\ line[1] = p
  BY <1>1, <1>2
<1>7. (isLast => rest = << >>) /\ (~isLast => LinesCover(h, rest, over + 1))
  BY <1>1, <1>2
<1>8. over \in Nat
  BY <1>1, <1>2
<1> HIDE DEF line, over, count
<1>9. /\ lines \in Seq(Nat \X Nat) /\ Len(rest) \in Nat /\ DOMAIN rest = 1 .. Len(rest)
      /\ Len(lines) = Len(rest) + 1 /\ DOMAIN lines = 1 .. Len(rest) + 1 /\ lines[1] = line
      /\ \A i \in DOMAIN rest : i + 1 \in DOMAIN lines /\ lines[i + 1] = rest[i]
      /\ \A i \in DOMAIN lines : i # 1 => i - 1 \in DOMAIN rest /\ lines[i] = rest[i - 1]
  BY <1>6, BehindAnItem, SMTT(30)
<1> HIDE DEF lines
<1>10. isLast <=> Len(lines) = 1
  <2>1. ~isLast => Len(rest) # 0
    BY <1>7, <1>9 DEF LinesCover
  <2>2. isLast => Len(rest) = 0
    BY <1>7
  <2> QED BY <1>9, <2>1, <2>2
<1>11. ASSUME NEW i \in DOMAIN lines
       PROVE  LineIs(h, lines[i], NextOf(h, lines, i), i = Len(lines), count(p) + i)
  <2>1. CASE i = 1
    <3>1. NextOf(h, lines, 1) = IF isLast THEN Len(h) ELSE over + 1
      <4>1. CASE isLast
        BY <1>10, <4>1 DEF NextOf
      <4>2. CASE ~isLast
        <5>1. Len(lines) # 1 /\ 1 \in DOMAIN rest
          BY <1>9, <1>10, <4>2
        <5>2. lines[1 + 1] = rest[1] /\ rest[1][1] = over + 1
          BY <1>7, <1>9, <4>2, <5>1 DEF LinesCover
        <5> QED BY <4>2, <5>1, <5>2 DEF NextOf
      <4> QED BY <4>1, <4>2
    <3>2. (1 = Len(lines)) = isLast
      BY <1>10
    <3> QED BY <1>3, <1>9, <2>1, <3>1, <3>2
  <2>2. CASE i # 1
    <3>1. i - 1 \in DOMAIN rest /\ lines[i] = rest[i - 1] /\ i \in Int
      BY <1>9, <2>2
    <3>2. ~isLast /\ LinesCover(h, rest, over + 1)
      BY <1>7, <3>1
    <3>3. LineIs(h, rest[i - 1], NextOf(h, rest, i - 1), i - 1 = Len(rest), count(over + 1) + (i - 1))
      BY <3>1, <3>2 DEF LinesCover, Numbered, count
    <3>4. i \in 1 .. Len(rest) + 1 /\ Len(rest) \in Nat /\ Len(lines) = Len(rest) + 1
      BY <1>9
    <3>5. NextOf(h, lines, i) = NextOf(h, rest, i - 1)
      <4>1. CASE i = Len(lines)
        <5>1. i - 1 = Len(rest)
          BY <3>4, <4>1
        <5> QED BY <4>1, <5>1 DEF NextOf
      <4>2. CASE i # Len(lines)
        <5>1. i \in 1 .. Len(rest) /\ i - 1 # Len(rest) /\ i - 1 + 1 = i
          BY <2>2, <3>4, <4>2
        <5>2. lines[i + 1] = rest[i]
          BY <1>9, <5>1
        <5> QED BY <4>2, <5>1, <5>2 DEF NextOf
      <4> QED BY <4>1, <4>2
    <3>6. (i - 1 = Len(rest)) <=> (i = Len(lines))
      BY <3>4
    <3>7. count(over + 1) + (i - 1) = count(p) + i
      BY <1>4, <1>5, <3>1, <3>2
    <3> QED BY <3>1, <3>3, <3>5, <3>6, <3>7
  <2> QED BY <2>1, <2>2
<1>12. lines # << >> /\ lines[1][1] = p
  BY <1>6, <1>9
<1> QED BY <1>9, <1>11, <1>12 DEF LinesCover, Numbered, lines, line, count

(* So the lines from the start of any line cover the text from there.      *)
LEMMA LinesFromCover ==
  ASSUME NEW h, IsText(h), h # << >>
  PROVE  \A p \in 0 .. Len(h) - 1 : StartsLine(h, p) => LinesCover(h, LineSpans(h, p, Len(h)), p)
<1> DEFINE D == 0 .. Len(h) - 1
           rank == [p \in D |-> Len(h) - p]
           good == {p \in D : StartsLine(h, p) => LinesCover(h, LineSpans(h, p, Len(h)), p)}
<1>1. Len(h) \in Nat /\ Len(h) \in 0 .. Len(h)
  BY TextsHaveNewlines
<1>2. ASSUME NEW p \in D, \A r \in D : rank[r] < rank[p] => r \in good
      PROVE  p \in good
  <2> SUFFICES ASSUME StartsLine(h, p) PROVE LinesCover(h, LineSpans(h, p, Len(h)), p)
    OBVIOUS
  <2> DEFINE over == EndsAt(h, p)
             rest == IF over + 1 >= Len(h) THEN << >> ELSE LineSpans(h, over + 1, Len(h))
  <2>1. p \in 0 .. Len(h) /\ p < Len(h) /\ p \in Nat
    BY <1>1
  <2>2. over \in p .. Len(h) /\ over \in Nat /\ (over < Len(h) => Byte(h, over) = "\n")
    BY <2>1, LineEndOf
  <2>3. LineSpans(h, p, Len(h)) = <<<<p, LineEnd(h, p)>>>> \o rest
    <3>1. ~(p > Len(h))
      BY <1>1, <2>1
    <3> QED BY <1>1, <2>1, <3>1, LineSpansUnfold
  <2>4. over + 1 < Len(h) => LinesCover(h, rest, over + 1)
    <3> SUFFICES ASSUME over + 1 < Len(h) PROVE LinesCover(h, rest, over + 1)
      OBVIOUS
    <3>1. over + 1 \in D /\ rank[over + 1] < rank[p] /\ over + 1 - 1 = over
      BY <1>1, <2>1, <2>2
    <3>2. StartsLine(h, over + 1)
      BY <2>2, <3>1, <1>1 DEF StartsLine
    <3>3. over + 1 \in good
      BY <1>2, <3>1
    <3>4. rest = LineSpans(h, over + 1, Len(h))
      BY <1>1, <2>2
    <3> QED BY <3>2, <3>3, <3>4
  <2>5. over + 1 >= Len(h) => rest = << >>
    OBVIOUS
  <2>6. rest \in Seq(Nat \X Nat)
    <3>1. CASE over + 1 >= Len(h)
      BY <3>1
    <3>2. CASE over + 1 < Len(h)
      BY <2>4, <3>2 DEF LinesCover
    <3> QED BY <1>1, <2>2, <3>1, <3>2
  <2> HIDE DEF rest
  <2> QED BY <2>1, <2>3, <2>4, <2>5, <2>6, CoverStep
<1>3. rank \in [D -> Nat]
  BY <1>1
<1> HIDE DEF good, rank, D
<1>4. D \subseteq good
  BY <1>2, <1>3, RankInduction
<1> QED BY <1>4 DEF good, D

(* An empty text has no lines.                                             *)
LEMMA NoLines == LineSpans(<< >>, 0, Len(<< >>)) = << >>
BY DEF LineSpans

(* The lines of the text are all of it but their terminators, each offset  *)
(* has the number of its line, and a trailing newline opens no line        *)
(* (_engine.py:149-173, 268-274).                                          *)
THEOREM LinesAlwaysCover == Spec => []LinesCoverText
<1>1. ASSUME TextInv PROVE LinesCoverText
  <2> DEFINE lines == LineSpans(text, 0, Len(text))
             next(i) == IF i = Len(lines) THEN Len(text) ELSE lines[i + 1][1]
  <2>1. CASE text = << >>
    <3>1. lines = << >>
      BY <2>1, NoLines
    <3> QED BY <2>1, <3>1 DEF LinesCoverText
  <2>2. CASE text # << >>
    <3>1. IsText(text) /\ Len(text) \in Nat /\ 0 \in 0 .. Len(text) - 1
      BY <1>1, <2>2 DEF TextInv, IsText
    <3>2. LinesCover(text, lines, 0)
      BY <2>2, <3>1, LinesFromCover DEF StartsLine
    <3> HIDE DEF lines
    <3>3. lines # << >> /\ lines[1][1] = 0
      BY <3>2 DEF LinesCover
    <3>4. Count(text, Newline, 0, 0) = 0
      <4>1. Find(text, Newline, 0, 0) = NotFound
        BY <3>1, FindNewline DEF Newlines
      <4>2. IterFind(text, Newline, 0, 0) = << >>
        <5>1. Searchable(text, Newline) /\ 0 \in 0 .. Len(text)
          BY <3>1, TextsHaveNewlines
        <5> QED BY <4>1, <5>1, IterFindUnfolds
      <4> QED BY <4>2 DEF Count
    <3>5. ASSUME NEW i \in DOMAIN lines
          PROVE  /\ lines[i][1] < Len(text)
                 /\ "\n" \notin ToSet(Bytes(text, lines[i]))
                 /\ Bytes(text, <<lines[i][2], next(i)>>) \in {<<"\n">>, <<"\r", "\n">>}
                      \union (IF i = Len(lines) THEN {<< >>, <<"\r">>} ELSE {})
                 /\ \A o \in lines[i][1] .. next(i) - 1 : LineNumber(text, o) = i
      <4>1. LineIs(text, lines[i], NextOf(text, lines, i), i = Len(lines), 0 + i)
        BY <3>2, <3>4 DEF LinesCover, Numbered
      <4>2. NextOf(text, lines, i) = next(i)
        BY DEF NextOf
      <4>3. 0 + i = i
        BY <3>2 DEF LinesCover
      <4> HIDE DEF next
      <4> QED BY <4>1, <4>2, <4>3 DEF LineIs
    <3> QED BY <3>3, <3>5 DEF LinesCoverText, lines
  <2> QED BY <2>1, <2>2
<1> QED BY <1>1, TextInvariant, PTL

-----------------------------------------------------------------------------
(* Going down by lines.                                                    *)
Behind(h, p) ==
  LET nl == Find(h, Newline, p, Len(h)) IN IF nl = NotFound THEN Len(h) ELSE nl + 1
Above(h, p) == IF p = 0 THEN 0 ELSE LineStart(h, p - 1)

ForwardSteps(w, h, o) ==
  w = [k \in Nat |->
         IF k = 0 THEN LineStart(h, o)
         ELSE LET nl == Find(h, Newline, w[k - 1], Len(h)) IN
              IF nl = NotFound THEN Len(h) ELSE nl + 1]
BackSteps(w, h, o) ==
  w = [k \in Nat |->
         IF k = 0 THEN LineStart(h, o)
         ELSE IF w[k - 1] = 0 THEN 0 ELSE LineStart(h, w[k - 1] - 1)]

(* Going a line on or back stays within the text.                          *)
LEMMA BehindAndAbove ==
  ASSUME NEW h, IsText(h), NEW p \in 0 .. Len(h)
  PROVE  Behind(h, p) \in 0 .. Len(h) /\ Above(h, p) \in 0 .. Len(h)
<1>1. Len(h) \in Nat /\ p \in Nat /\ Len(h) \in 0 .. Len(h)
  BY TextsHaveNewlines
<1>2. Behind(h, p) \in 0 .. Len(h)
  BY <1>1, FindNewline DEF Behind, Newlines
<1>3. Above(h, p) \in 0 .. Len(h)
  <2>1. CASE p = 0
    BY <1>1, <2>1 DEF Above
  <2>2. CASE p # 0
    <3>1. p - 1 \in 0 .. Len(h)
      BY <1>1, <2>2
    <3>2. LineStart(h, p - 1) \in 0 .. p - 1
      BY <3>1, LineStartOf
    <3> QED BY <1>1, <2>2, <3>2 DEF Above
  <2> QED BY <2>1, <2>2
<1> QED BY <1>2, <1>3

(* Both walks of advance_lines take one step each time.                    *)
LEMMA StepsExist ==
  ASSUME NEW h, IsText(h), NEW o, LineStart(h, o) \in 0 .. Len(h)
  PROVE  /\ \E w \in [Nat -> 0 .. Len(h)] : ForwardSteps(w, h, o)
         /\ \E w \in [Nat -> 0 .. Len(h)] : BackSteps(w, h, o)
<1> DEFINE V == 0 .. Len(h)
           start == LineStart(h, o)
           down == [v \in V |-> Behind(h, v)]
           up == [v \in V |-> Above(h, v)]
<1>1. /\ start \in V /\ down \in [V -> V] /\ up \in [V -> V]
      /\ \A v \in V : down[v] = Behind(h, v) /\ up[v] = Above(h, v)
  BY BehindAndAbove
<1>2. \A k \in Nat : k # 0 => k - 1 \in Nat /\ (k - 1) + 1 = k
  OBVIOUS
<1> HIDE DEF V, start, down, up
<1>3. \E w \in [Nat -> V] : ForwardSteps(w, h, o)
  <2>1. PICK w \in [Nat -> V] : Stepwise(w, start, down)
    BY <1>1, StepwiseExists
  <2>2. ASSUME NEW k \in Nat PROVE w[k] = IF k = 0 THEN start ELSE Behind(h, w[k - 1])
    BY <1>1, <1>2, <2>1 DEF Stepwise
  <2>3. w = [k \in Nat |-> IF k = 0 THEN start ELSE Behind(h, w[k - 1])]
    BY <2>2
  <2> QED BY <2>3 DEF ForwardSteps, Behind, start
<1>4. \E w \in [Nat -> V] : BackSteps(w, h, o)
  <2>1. PICK w \in [Nat -> V] : Stepwise(w, start, up)
    BY <1>1, StepwiseExists
  <2>2. ASSUME NEW k \in Nat PROVE w[k] = IF k = 0 THEN start ELSE Above(h, w[k - 1])
    BY <1>1, <1>2, <2>1 DEF Stepwise
  <2>3. w = [k \in Nat |-> IF k = 0 THEN start ELSE Above(h, w[k - 1])]
    BY <2>2
  <2> QED BY <2>3 DEF BackSteps, Above, start
<1> QED BY <1>3, <1>4 DEF V

(* advance_lines by none and by one line.                                  *)
LEMMA AdvanceByOneAtMost ==
  ASSUME NEW h, IsText(h), NEW o \in 0 .. Len(h)
  PROVE  /\ AdvanceLines(h, o, 0) = LineStart(h, o)
         /\ AdvanceLines(h, o, 1) = Behind(h, LineStart(h, o))
<1> DEFINE down == CHOOSE w : ForwardSteps(w, h, o)
           up == CHOOSE w : BackSteps(w, h, o)
<1>1. ForwardSteps(down, h, o) /\ BackSteps(up, h, o)
  <2>1. LineStart(h, o) \in 0 .. o /\ Len(h) \in Nat
    BY LineStartOf, TextsHaveNewlines
  <2>2. LineStart(h, o) \in 0 .. Len(h)
    BY <2>1
  <2> QED BY <2>2, StepsExist
<1>2. \A n \in Int : AdvanceLines(h, o, n) = IF n > 0 THEN down[n] ELSE up[-n]
  BY DEF AdvanceLines, ForwardSteps, BackSteps
<1> HIDE DEF down, up
<1>3. up[0] = LineStart(h, o)
  BY <1>1 DEF BackSteps
<1>4. down[0] = LineStart(h, o) /\ down[1] = Behind(h, down[0])
  BY <1>1 DEF ForwardSteps, Behind
<1> QED BY <1>2, <1>3, <1>4

(* The first items of a sequence.                                          *)
LEMMA FirstItems ==
  ASSUME NEW S, NEW s \in Seq(S), NEW m \in 1 .. Len(s)
  PROVE  /\ SubSeq(s, 1, m) \in Seq(S) /\ Len(SubSeq(s, 1, m)) = m
         /\ \A i \in 1 .. m : SubSeq(s, 1, m)[i] = s[i]
<1>1. Len(s) \in Nat /\ m \in Nat /\ m <= Len(s)
  OBVIOUS
<1> QED BY <1>1

(* The lines up to where one of them ends are that one and those above it. *)
CutsAtLines(h, p) ==
  LET lines == LineSpans(h, p, Len(h)) IN
  \A m \in DOMAIN lines :
     /\ lines[m][2] \in p .. Len(h)
     /\ LineSpans(h, p, lines[m][2]) = SubSeq(lines, 1, m)

(* If the lines behind the first are cut where they end, so are all.       *)
LEMMA CutStep ==
  ASSUME NEW h, IsText(h), NEW p \in 0 .. Len(h), p < Len(h), StartsLine(h, p),
         EndsAt(h, p) + 1 < Len(h) => CutsAtLines(h, EndsAt(h, p) + 1)
  PROVE  CutsAtLines(h, p)
<1> DEFINE over == EndsAt(h, p)
           line == <<p, LineEnd(h, p)>>
           rest == IF over + 1 >= Len(h) THEN << >> ELSE LineSpans(h, over + 1, Len(h))
           lines == LineSpans(h, p, Len(h))
           cut(start, to) == LineSpans(h, start, to)
<1>1. Len(h) \in Nat /\ p \in Nat /\ Len(h) \in 0 .. Len(h) /\ h # << >>
  BY TextsHaveNewlines
<1>2. /\ over \in p .. Len(h) /\ over \in Nat
      /\ over < Len(h) => Byte(h, over) = "\n"
      /\ LineEnd(h, p) \in p .. Len(h) /\ LineEnd(h, p) <= over
  <2>1. /\ over \in p .. Len(h) /\ over \in Nat
        /\ over < Len(h) => Byte(h, over) = "\n"
        /\ LineEnd(h, p) \in p .. Len(h)
        /\ LineEnd(h, p) = over \/ LineEnd(h, p) = over - 1
    BY LineEndOf
  <2> HIDE DEF over
  <2> QED BY <1>1, <2>1
<1>3. \A to \in p .. Len(h) :
        cut(p, to) = <<line>> \o IF over + 1 >= Len(h) THEN << >> ELSE cut(over + 1, to)
  <2>1. \A to \in p .. Len(h) : to \in 0 .. Len(h) /\ ~(p > to)
    BY <1>1
  <2> QED BY <1>1, <2>1, LineSpansUnfold
<1>4. lines = <<line>> \o rest
  <2>1. Len(h) \in p .. Len(h)
    BY <1>1
  <2>2. lines = cut(p, Len(h)) /\ rest = IF over + 1 >= Len(h) THEN << >> ELSE cut(over + 1, Len(h))
    OBVIOUS
  <2> HIDE DEF lines, rest, cut, over, line
  <2> QED BY <1>3, <2>1, <2>2
<1>5. over + 1 < Len(h) => over + 1 \in 0 .. Len(h) - 1 /\ StartsLine(h, over + 1)
  <2>1. over + 1 - 1 = over
    BY <1>2
  <2> QED BY <1>1, <1>2, <2>1 DEF StartsLine
<1>6. rest \in Seq(Nat \X Nat)
  <2>1. over + 1 < Len(h) => rest \in Seq(Nat \X Nat)
    BY <1>1, <1>5, LinesFromCover DEF LinesCover
  <2> QED BY <1>1, <1>2, <2>1
<1>7. \A to \in 0 .. Len(h) : over + 1 < Len(h) /\ to < over + 1 => cut(over + 1, to) = << >>
  <2>1. \A to \in 0 .. Len(h) : over + 1 < Len(h) /\ to < over + 1 => over + 1 > to
    BY <1>2
  <2>2. over + 1 < Len(h) => over + 1 \in 0 .. Len(h)
    BY <1>1, <1>5
  <2> QED BY <1>1, <1>5, <2>1, <2>2, LineSpansUnfold
<1>8. over + 1 < Len(h) =>
        \A m \in DOMAIN rest : /\ rest[m][2] \in over + 1 .. Len(h)
                               /\ cut(over + 1, rest[m][2]) = SubSeq(rest, 1, m)
  BY <1>1, <1>2 DEF CutsAtLines
<1>9. line \in Nat \X Nat /\ line[2] = LineEnd(h, p)
  BY <1>1, <1>2
<1>10. over + 1 >= Len(h) => rest = << >>
  OBVIOUS
<1> HIDE DEF line, over, rest, lines, cut
<1>11. /\ lines \in Seq(Nat \X Nat) /\ Len(rest) \in Nat /\ DOMAIN rest = 1 .. Len(rest)
       /\ Len(lines) = Len(rest) + 1 /\ DOMAIN lines = 1 .. Len(rest) + 1 /\ lines[1] = line
       /\ \A i \in DOMAIN lines : i # 1 => i - 1 \in DOMAIN rest /\ lines[i] = rest[i - 1]
  BY <1>4, <1>6, <1>9, BehindAnItem
<1>12. ASSUME NEW m \in DOMAIN lines
       PROVE  lines[m][2] \in p .. Len(h) /\ cut(p, lines[m][2]) = SubSeq(lines, 1, m)
  <2>1. CASE m = 1
    <3>1. lines[m][2] = LineEnd(h, p)
      BY <1>9, <1>11, <2>1
    <3>2. LineEnd(h, p) \in 0 .. Len(h) /\ LineEnd(h, p) < over + 1
      BY <1>1, <1>2
    <3>3. cut(p, LineEnd(h, p)) = <<line>> \o << >>
      BY <1>1, <1>2, <1>3, <1>7, <3>2
    <3>4. SubSeq(lines, 1, 1) = <<line>>
      <4> DEFINE s == SubSeq(lines, 1, 1)
      <4>1. s \in Seq(Nat \X Nat) /\ Len(s) = 1 /\ s[1] = lines[1]
        BY <1>11
      <4> HIDE DEF s
      <4>2. s = <<s[1]>>
        BY <4>1
      <4> QED BY <1>11, <4>1, <4>2 DEF s
    <3>5. <<line>> \o << >> = <<line>>
      OBVIOUS
    <3> QED BY <1>2, <2>1, <3>1, <3>3, <3>4, <3>5
  <2>2. CASE m # 1
    <3>1. /\ m - 1 \in DOMAIN rest /\ lines[m] = rest[m - 1] /\ m \in Int
          /\ m - 1 >= 1 /\ m - 1 <= Len(rest)
      BY <1>11, <2>2
    <3>2. over + 1 < Len(h)
      <4>1. rest # << >>
        BY <3>1
      <4> QED BY <1>1, <1>2, <1>10, <4>1
    <3> DEFINE to == rest[m - 1][2]
    <3>3. to \in over + 1 .. Len(h) /\ cut(over + 1, to) = SubSeq(rest, 1, m - 1)
      BY <1>8, <3>1, <3>2
    <3> HIDE DEF to
    <3>4. to \in p .. Len(h)
      BY <1>1, <1>2, <3>3
    <3>5. cut(p, to) = <<line>> \o SubSeq(rest, 1, m - 1)
      <4>1. ~(over + 1 >= Len(h))
        BY <1>1, <1>2, <3>2
      <4> QED BY <1>3, <3>3, <3>4, <4>1
    <3>6. <<line>> \o SubSeq(rest, 1, m - 1) = SubSeq(lines, 1, m)
      <4> DEFINE s == SubSeq(rest, 1, m - 1)
                 u == SubSeq(lines, 1, m)
      <4>1. /\ s \in Seq(Nat \X Nat) /\ Len(s) = m - 1
            /\ \A i \in 1 .. m - 1 : s[i] = rest[i]
        BY <1>6, <3>1
      <4>2. /\ u \in Seq(Nat \X Nat) /\ Len(u) = m
            /\ \A i \in 1 .. m : u[i] = lines[i]
        <5>1. m \in 1 .. Len(lines) /\ Len(lines) \in Nat
          BY <1>11
        <5> QED BY <1>11, <5>1, FirstItems
      <4> HIDE DEF s, u
      <4>3. /\ <<line>> \o s \in Seq(Nat \X Nat) /\ Len(<<line>> \o s) = m
            /\ (<<line>> \o s)[1] = line
            /\ \A i \in 2 .. m : (<<line>> \o s)[i] = s[i - 1]
        <5> DEFINE t == <<line>> \o s
        <5>1. /\ t \in Seq(Nat \X Nat) /\ Len(t) = m /\ t[1] = line /\ DOMAIN t = 1 .. m
              /\ \A i \in DOMAIN t : i # 1 => t[i] = s[i - 1]
          <6>1. m - 1 + 1 = m
            BY <3>1
          <6> QED BY <1>9, <4>1, <6>1, BehindAnItem
        <5> HIDE DEF t
        <5>2. \A i \in 2 .. m : i \in 1 .. m /\ i # 1
          BY <3>1
        <5> QED BY <5>1, <5>2 DEF t
      <4>4. \A i \in 1 .. m : (<<line>> \o s)[i] = u[i]
        <5> SUFFICES ASSUME NEW i \in 1 .. m PROVE (<<line>> \o s)[i] = u[i]
          OBVIOUS
        <5>1. CASE i = 1
          BY <1>11, <4>2, <4>3, <5>1
        <5>2. CASE i # 1
          <6>1. i \in 2 .. m /\ i - 1 \in 1 .. m - 1 /\ i \in DOMAIN lines
            <7>1. i \in 2 .. m /\ i - 1 \in 1 .. m - 1
              BY <3>1, <5>2
            <7>2. m \in 1 .. Len(rest) + 1 /\ Len(rest) \in Nat
              BY <1>11
            <7>3. i \in 1 .. Len(rest) + 1
              BY <7>1, <7>2
            <7> QED BY <1>11, <7>1, <7>3
          <6>2. lines[i] = rest[i - 1] /\ s[i - 1] = rest[i - 1]
            BY <1>11, <4>1, <5>2, <6>1
          <6> QED BY <4>2, <4>3, <6>1, <6>2
        <5> QED BY <5>1, <5>2
      <4> QED BY <4>2, <4>3, <4>4, SeqEqual DEF s, u
    <3> QED BY <3>1, <3>4, <3>5, <3>6 DEF to
  <2> QED BY <2>1, <2>2
<1> QED BY <1>12 DEF CutsAtLines, lines, cut

(* So the lines from the start of any line are cut where they end.         *)
LEMMA LinesCut ==
  ASSUME NEW h, IsText(h), h # << >>
  PROVE  \A p \in 0 .. Len(h) - 1 : StartsLine(h, p) => CutsAtLines(h, p)
<1> DEFINE D == 0 .. Len(h) - 1
           rank == [p \in D |-> Len(h) - p]
           good == {p \in D : StartsLine(h, p) => CutsAtLines(h, p)}
<1>1. Len(h) \in Nat /\ Len(h) \in 0 .. Len(h)
  BY TextsHaveNewlines
<1>2. ASSUME NEW p \in D, \A r \in D : rank[r] < rank[p] => r \in good
      PROVE  p \in good
  <2> SUFFICES ASSUME StartsLine(h, p) PROVE CutsAtLines(h, p)
    OBVIOUS
  <2> DEFINE over == EndsAt(h, p)
  <2>1. p \in 0 .. Len(h) /\ p < Len(h) /\ p \in Nat
    BY <1>1
  <2>2. over \in p .. Len(h) /\ over \in Nat /\ (over < Len(h) => Byte(h, over) = "\n")
    BY <2>1, LineEndOf
  <2>3. over + 1 < Len(h) => CutsAtLines(h, over + 1)
    <3> SUFFICES ASSUME over + 1 < Len(h) PROVE CutsAtLines(h, over + 1)
      OBVIOUS
    <3>1. over + 1 \in D /\ rank[over + 1] < rank[p] /\ over + 1 - 1 = over
      BY <1>1, <2>1, <2>2
    <3>2. StartsLine(h, over + 1)
      BY <2>2, <3>1, <1>1 DEF StartsLine
    <3> QED BY <1>2, <3>1, <3>2
  <2> QED BY <2>1, <2>3, CutStep
<1>3. rank \in [D -> Nat]
  BY <1>1
<1> HIDE DEF good, rank, D
<1>4. D \subseteq good
  BY <1>2, <1>3, RankInduction
<1> QED BY <1>4 DEF good, D

(* Where advance_lines comes to, short of the end, a line starts.          *)
LEMMA AdvanceStartsLine ==
  ASSUME NEW h, IsText(h), NEW o \in 0 .. Len(h), NEW n \in {0, 1},
         AdvanceLines(h, o, n) < Len(h)
  PROVE  AdvanceLines(h, o, n) \in 0 .. Len(h) - 1 /\ StartsLine(h, AdvanceLines(h, o, n))
<1> DEFINE start == LineStart(h, o)
           nl == Find(h, Newline, start, Len(h))
<1>1. Len(h) \in Nat /\ o \in Nat /\ Len(h) \in 0 .. Len(h)
  BY TextsHaveNewlines
<1>2. start \in 0 .. o /\ StartsLine(h, start)
  BY LineStartOf
<1>3. start \in Nat /\ start \in 0 .. Len(h)
  BY <1>1, <1>2
<1>4. nl # NotFound => nl \in start .. Len(h) - 1 /\ Byte(h, nl) = "\n"
  BY <1>1, <1>3, FindNewline DEF Newlines
<1>5. AdvanceLines(h, o, 0) = start
  BY AdvanceByOneAtMost
<1>6. AdvanceLines(h, o, 1) = IF nl = NotFound THEN Len(h) ELSE nl + 1
  BY AdvanceByOneAtMost DEF Behind
<1> HIDE DEF start, nl
<1>7. CASE n = 0
  BY <1>1, <1>2, <1>3, <1>5, <1>7
<1>8. CASE n = 1
  <2>1. nl # NotFound
    BY <1>1, <1>6, <1>8
  <2>2. AdvanceLines(h, o, 1) = nl + 1 /\ nl \in Nat /\ nl + 1 - 1 = nl
    BY <1>3, <1>4, <1>6, <2>1
  <2>3. StartsLine(h, nl + 1)
    BY <1>4, <2>1, <2>2 DEF StartsLine
  <2> QED BY <1>1, <1>8, <2>2, <2>3
<1> QED BY <1>7, <1>8

(* What block_span takes of the lines from its start on.                   *)
LEMMA TakenLines ==
  ASSUME NEW h, NEW lines \in Seq(Nat \X Nat), lines # << >>, NEW until,
         NEW max \in Nat \ {0}, ~Stops(h, lines[1], until)
  PROVE  \E m \in DOMAIN lines :
           /\ UpTo(h, lines, until, max) = SubSeq(lines, 1, m)
           /\ m <= max
           /\ \A i \in 1 .. m : ~Stops(h, lines[i], until)
           /\ m < Len(lines) => m = max \/ Stops(h, lines[m + 1], until)
<1> DEFINE stops == {i \in DOMAIN lines : i > max \/ Stops(h, lines[i], until)}
<1>1. DOMAIN lines = 1 .. Len(lines) /\ Len(lines) \in Nat /\ Len(lines) \in DOMAIN lines
  OBVIOUS
<1>2. UpTo(h, lines, until, max)
        = IF stops = {} THEN lines ELSE SubSeq(lines, 1, Min(stops) - 1)
  BY DEF UpTo
<1>3. CASE stops = {}
  <2>1. SubSeq(lines, 1, Len(lines)) = lines
    BY SubSeqFull
  <2>2. \A i \in 1 .. Len(lines) : ~(i > max) /\ ~Stops(h, lines[i], until)
    BY <1>1, <1>3
  <2>3. Len(lines) <= max
    BY <1>1, <2>2
  <2>4. UpTo(h, lines, until, max) = SubSeq(lines, 1, Len(lines))
    BY <1>2, <1>3, <2>1
  <2>5. ~(Len(lines) < Len(lines))
    BY <1>1
  <2> HIDE DEF stops
  <2> QED BY <1>1, <2>2, <2>3, <2>4, <2>5
<1>4. CASE stops # {}
  <2>1. PICK least \in stops : \A i \in stops : least <= i
    <3>1. stops \in SUBSET Nat
      BY <1>1
    <3> HIDE DEF stops
    <3> QED BY <1>4, <3>1, LeastNumber
  <2>2. least \in 1 .. Len(lines) /\ stops \subseteq Int
    BY <1>1
  <2>3. Min(stops) = least
    <3> HIDE DEF stops
    <3>1. \A x \in stops : (\A y \in stops : x <= y) => x = least
      BY <2>1, <2>2
    <3> QED BY <2>1, <3>1 DEF Min
  <2>4. 1 \notin stops
    BY <1>1
  <2>5. \A i \in 1 .. least - 1 : i \in DOMAIN lines /\ i \notin stops
    <3> SUFFICES ASSUME NEW i \in 1 .. least - 1
                 PROVE  i \in DOMAIN lines /\ ~(least <= i)
      BY <2>1
    <3> QED BY <1>1, <2>2
  <2>6. least # 1
    BY <2>4
  <2> DEFINE m == least - 1
  <2>7. m \in 1 .. Len(lines) /\ m + 1 = least /\ m \in 1 .. least - 1 /\ m \in Int
    <3>1. least \in Int /\ 1 <= least /\ least <= Len(lines) /\ least # 1 /\ Len(lines) \in Int
      BY <1>1, <2>2, <2>6
    <3> HIDE DEF stops
    <3> QED BY <3>1
  <2>8. m <= max /\ \A i \in 1 .. m : ~Stops(h, lines[i], until)
    BY <1>1, <2>5, <2>7
  <2>9. m = max \/ Stops(h, lines[m + 1], until)
    BY <2>1, <2>7, <2>8
  <2> HIDE DEF stops
  <2>10. UpTo(h, lines, until, max) = SubSeq(lines, 1, m)
    BY <1>2, <1>4, <2>3
  <2> HIDE DEF m
  <2> QED BY <1>1, <2>7, <2>8, <2>9, <2>10
<1> QED BY <1>3, <1>4

(* Read back line by line, the span of a block whose first line does not   *)
(* end it is the lines up to its terminator, and no others (_engine.py     *)
(* block_span, then line_spans).                                           *)
THEOREM BlocksReadTheirLines == Spec => []BlockReadsItsLines
<1>1. ASSUME TextInv PROVE BlockReadsItsLines
  <2> SUFFICES ASSUME NEW a \in Ask, Opened(a)
               PROVE  UpToTerminator(a, LinesIn(Block(a)), Below(a))
    BY DEF BlockReadsItsLines
  <2> DEFINE from == From(a)
             lines == Below(a)
  <2>1. IsText(text) /\ Len(text) \in Nat
    BY <1>1, TextsHaveNewlines DEF TextInv, IsText
  <2>2. a.offset \in 0 .. Len(text) /\ a.skip \in {0, 1} /\ a.maxLines \in Nat \ {0}
    <3>1. a.offset \in 0 .. Len(text) /\ a.skip \in {0, 1} /\ a.maxLines \in Nat
      BY TextAssumption DEF Ask
    <3> QED BY <3>1 DEF Opened, Opens
  <2>3. from < Len(text) /\ ~Stops(text, lines[1], a.until)
    BY DEF Opened, Opens, Below
  <2>4. from \in 0 .. Len(text) - 1 /\ StartsLine(text, from)
    BY <2>1, <2>2, <2>3, AdvanceStartsLine DEF From
  <2>5. text # << >>
    BY <2>3, <2>4
  <2>6. lines = LineSpans(text, from, Len(text))
    BY DEF Below
  <2> HIDE DEF from, lines
  <2>7. lines \in Seq(Nat \X Nat) /\ lines # << >>
    BY <2>1, <2>4, <2>5, <2>6, LinesFromCover DEF LinesCover
  <2>8. \A m \in DOMAIN lines : LineSpans(text, from, lines[m][2]) = SubSeq(lines, 1, m)
    BY <2>1, <2>4, <2>5, <2>6, LinesCut DEF CutsAtLines
  <2>9. PICK m \in DOMAIN lines :
          /\ UpTo(text, lines, a.until, a.maxLines) = SubSeq(lines, 1, m)
          /\ m <= a.maxLines
          /\ \A i \in 1 .. m : ~Stops(text, lines[i], a.until)
          /\ m < Len(lines) => m = a.maxLines \/ Stops(text, lines[m + 1], a.until)
    BY <2>2, <2>3, <2>7, TakenLines
  <2> DEFINE read == SubSeq(lines, 1, m)
  <2>10. /\ m \in 1 .. Len(lines) /\ Len(lines) \in Nat
         /\ read \in Seq(Nat \X Nat) /\ Len(read) = m /\ DOMAIN read = 1 .. m
         /\ \A i \in 1 .. m : read[i] = lines[i]
    BY <2>7
  <2>11. LinesIn(Block(a)) = read
    <3>1. Block(a) = Around(from, read)
      <4>1. Taken(text, from, a.until, a.maxLines) = read
        BY <2>6, <2>9 DEF Taken
      <4>2. ~(from >= Len(text))
        BY <2>1, <2>3, <2>4
      <4> QED BY <4>1, <4>2 DEF Block, BlockSpan, BlockAt, From, from
    <3>2. Around(from, read) = <<from, lines[m][2]>>
      <4>1. read # << >> /\ Last(read) = lines[m]
        BY <2>10 DEF Last
      <4> QED BY <4>1 DEF Around
    <3> QED BY <2>8, <3>1, <3>2 DEF LinesIn
  <2>12. IsPrefix(read, lines)
    <3> HIDE DEF read
    <3>1. Len(read) <= Len(lines) /\ \A i \in 1 .. Len(read) : read[i] = lines[i]
      BY <2>10
    <3> QED BY <2>7, <2>10, <3>1, PrefixItems
  <2> HIDE DEF read
  <2> QED BY <2>9, <2>10, <2>11, <2>12 DEF UpToTerminator, lines
<1> QED BY <1>1, TextInvariant, PTL

-----------------------------------------------------------------------------
(* A window of the text is not clamped.                                    *)
LEMMA WindowsAreKept ==
  ASSUME NEW h, Len(h) \in Nat, NEW to \in 0 .. Len(h), NEW from \in Nat
  PROVE  Clamped(h, from, to) = <<IF from < to THEN from ELSE to, to>>
<1>1. Max({from, 0}) = from
  BY DEF Max
<1>2. to \in Nat /\ ~(to < 0) /\ ~(to > Len(h))
  OBVIOUS
<1>3. Min({from, to}) = IF from < to THEN from ELSE to
  BY <1>2 DEF Min
<1> QED BY <1>1, <1>2, <1>3 DEF Clamped

(* memchr and memcmp find what find does.                                  *)
ScanOn(scan, h, needle, to) ==
  scan = [pos \in Nat |->
            IF pos > to - Len(needle) THEN NotFound
            ELSE IF IsAt(h, needle, pos) THEN pos ELSE scan[pos + 1]]

(* The walk from the left stops where the smallest occurrence starts.      *)
LEMMA FindInIsFind ==
  ASSUME NEW h, NEW needle, Searchable(h, needle), NEW from \in Nat, NEW to \in 0 .. Len(h)
  PROVE  FindIn(h, needle, from, to) = Find(h, needle, from, to)
<1> DEFINE last == to - Len(needle)
           rank == [p \in Nat |-> IF p > last THEN 0 ELSE last - p + 1]
           over == {p \in Nat : p > last \/ IsAt(h, needle, p)}
           next == [p \in Nat \ over |-> p + 1]
           base == [p \in over |-> IF p > last THEN NotFound ELSE p]
           step == [p \in Nat \ over |-> [v \in Int |-> v]]
           scan == CHOOSE w : ScanOn(w, h, needle, to)
<1>1. Len(h) \in Nat /\ Len(needle) \in Nat /\ Len(needle) >= 1 /\ last \in Int /\ to \in Nat
  BY SearchableLengths
<1>2. Descends(Nat, rank, over, next)
  <2>1. rank \in [Nat -> Nat] /\ \A p \in Nat \ over : next[p] \in Nat /\ rank[next[p]] < rank[p]
    BY <1>1
  <2> QED BY <2>1 DEF Descends
<1>3. base \in [over -> Int] /\ \A p \in Nat \ over, v \in Int : step[p][v] \in Int
  BY <1>1 DEF NotFound
<1>4. /\ \A p \in Nat : p \in over <=> p > last \/ IsAt(h, needle, p)
      /\ \A p \in over : base[p] = IF p > last THEN NotFound ELSE p
      /\ \A p \in Nat : p \notin over =>
           next[p] = p + 1 /\ \A v \in Int : step[p][v] = v
  OBVIOUS
<1>5. ScanOn(scan, h, needle, to)
  <2> HIDE DEF rank, over, next, base, step
  <2>1. PICK w \in [Nat -> Int] : \A p \in Nat : Continues(w, p, over, base, next, step)
    BY <1>2, <1>3, RecursionExists
  <2>2. ASSUME NEW p \in Nat
        PROVE  w[p] = IF p > last THEN NotFound ELSE IF IsAt(h, needle, p) THEN p ELSE w[p + 1]
    <3>1. Continues(w, p, over, base, next, step) /\ w[p + 1] \in Int
      BY <2>1
    <3> QED BY <1>4, <3>1 DEF Continues
  <2>3. w = [p \in Nat |-> IF p > last THEN NotFound ELSE IF IsAt(h, needle, p) THEN p ELSE w[p + 1]]
    BY <2>1, <2>2
  <2>4. ScanOn(w, h, needle, to)
    BY <2>3 DEF ScanOn
  <2> QED BY <2>4
<1>6. FindIn(h, needle, from, to) = scan[from]
  BY DEF FindIn, ScanOn
<1> HIDE DEF scan, over, next, base, step
<1> DEFINE good == {p \in Nat : scan[p] = Find(h, needle, p, to)}
<1>7. ASSUME NEW p \in Nat, \A r \in Nat : rank[r] < rank[p] => r \in good
      PROVE  p \in good
  <2> DEFINE all == Occurrences(h, needle, p, to)
             hit == Find(h, needle, p, to)
  <2>1. scan[p] = IF p > last THEN NotFound ELSE IF IsAt(h, needle, p) THEN p ELSE scan[p + 1]
    BY <1>5 DEF ScanOn
  <2>2. /\ hit = NotFound <=> all = {}
        /\ hit # NotFound => hit \in all /\ \A o \in all : hit <= o
    BY FindIsLeast
  <2>3. CASE p > last
    <3>1. all = {}
      BY <1>1, <2>3 DEF Occurrences
    <3> QED BY <2>1, <2>2, <2>3, <3>1
  <2>4. CASE ~(p > last) /\ IsAt(h, needle, p)
    <3>1. p \in all /\ \A o \in all : p <= o /\ o \in Int
      BY <1>1, <2>4 DEF Occurrences
    <3> HIDE DEF all, hit
    <3>2. hit \in all /\ hit <= p /\ p <= hit /\ hit \in Int
      BY <2>2, <3>1
    <3>3. hit = p
      BY <3>2
    <3> QED BY <2>1, <2>4, <3>3 DEF hit
  <2>5. CASE ~(p > last) /\ ~IsAt(h, needle, p)
    <3>1. p + 1 \in Nat /\ rank[p + 1] < rank[p]
      BY <1>1, <2>5
    <3>2. scan[p + 1] = Find(h, needle, p + 1, to)
      BY <1>7, <3>1
    <3>3. Occurrences(h, needle, p, to) = Occurrences(h, needle, p + 1, to)
      BY <1>1, <2>5 DEF Occurrences
    <3> QED BY <2>1, <2>5, <3>2, <3>3 DEF Find
  <2> QED BY <2>3, <2>4, <2>5
<1>8. rank \in [Nat -> Nat]
  BY <1>1
<1> HIDE DEF rank, good
<1>9. Nat \subseteq good
  BY <1>7, <1>8, RankInduction, ZenonT(60)
<1> QED BY <1>6, <1>9 DEF good

(* From the right they find what rfind does, and no more in a window that  *)
(* ends behind the text.                                                   *)
ScanBack(scan, h, needle, from) ==
  scan = [pos \in Int |->
            IF pos < from THEN NotFound
            ELSE IF IsAt(h, needle, pos) THEN pos ELSE scan[pos - 1]]

(* The walk from the right stops where the largest occurrence starts.      *)
LEMMA RfindInIsRfind ==
  ASSUME NEW h, NEW needle, Searchable(h, needle), NEW from \in Nat, NEW to \in Nat
  PROVE  /\ RfindIn(h, needle, from, to) = Rfind(h, needle, from, to)
         /\ RfindIn(h, needle, from, to) = NotFound \/ RfindIn(h, needle, from, to) \in from .. to
<1> DEFINE all(p) == {i \in from .. p : IsAt(h, needle, i)}
           hit(p) == IF all(p) = {} THEN NotFound ELSE Max(all(p))
           rank == [p \in Int |-> IF p < from THEN 0 ELSE p - from + 1]
           over == {p \in Int : p < from \/ IsAt(h, needle, p)}
           next == [p \in Int \ over |-> p - 1]
           base == [p \in over |-> IF p < from THEN NotFound ELSE p]
           step == [p \in Int \ over |-> [v \in Int |-> v]]
           scan == CHOOSE w : ScanBack(w, h, needle, from)
           last == to - Len(needle)
<1>1. Len(h) \in Nat /\ Len(needle) \in Nat /\ Len(needle) >= 1 /\ last \in Int /\ last < to
  BY SearchableLengths
<1>2. Descends(Int, rank, over, next)
  <2>1. rank \in [Int -> Nat] /\ \A p \in Int \ over : next[p] \in Int /\ rank[next[p]] < rank[p]
    OBVIOUS
  <2> QED BY <2>1 DEF Descends
<1>3. base \in [over -> Int] /\ \A p \in Int \ over, v \in Int : step[p][v] \in Int
  BY DEF NotFound
<1>4. /\ \A p \in Int : p \in over <=> p < from \/ IsAt(h, needle, p)
      /\ \A p \in over : base[p] = IF p < from THEN NotFound ELSE p
      /\ \A p \in Int : p \notin over =>
           next[p] = p - 1 /\ \A v \in Int : step[p][v] = v
  OBVIOUS
<1>5. ScanBack(scan, h, needle, from)
  <2> HIDE DEF rank, over, next, base, step
  <2>1. PICK w \in [Int -> Int] : \A p \in Int : Continues(w, p, over, base, next, step)
    BY <1>2, <1>3, RecursionExists
  <2>2. ASSUME NEW p \in Int
        PROVE  w[p] = IF p < from THEN NotFound ELSE IF IsAt(h, needle, p) THEN p ELSE w[p - 1]
    <3>1. Continues(w, p, over, base, next, step) /\ w[p - 1] \in Int
      BY <2>1
    <3> QED BY <1>4, <3>1 DEF Continues
  <2>3. w = [p \in Int |-> IF p < from THEN NotFound ELSE IF IsAt(h, needle, p) THEN p ELSE w[p - 1]]
    BY <2>1, <2>2
  <2>4. ScanBack(w, h, needle, from)
    BY <2>3 DEF ScanBack
  <2> QED BY <2>4
<1>6. RfindIn(h, needle, from, to) = scan[last]
  BY DEF RfindIn, ScanBack
<1> HIDE DEF scan, over, next, base, step
<1> DEFINE good == {p \in Int : scan[p] = hit(p) /\ (scan[p] = NotFound \/ scan[p] \in from .. p)}
<1>7. ASSUME NEW p \in Int, \A r \in Int : rank[r] < rank[p] => r \in good
      PROVE  p \in good
  <2>1. scan[p] = IF p < from THEN NotFound ELSE IF IsAt(h, needle, p) THEN p ELSE scan[p - 1]
    BY <1>5 DEF ScanBack
  <2>2. CASE p < from
    <3>1. all(p) = {}
      BY <2>2
    <3> QED BY <2>1, <2>2, <3>1
  <2>3. CASE ~(p < from) /\ IsAt(h, needle, p)
    <3>1. p \in all(p) /\ \A o \in all(p) : o <= p /\ o \in Int
      BY <2>3
    <3> HIDE DEF all
    <3>2. /\ Max(all(p)) \in all(p) /\ \A o \in all(p) : Max(all(p)) >= o
      BY <3>1 DEF Max
    <3>3. Max(all(p)) >= p /\ Max(all(p)) <= p /\ Max(all(p)) \in Int
      BY <3>1, <3>2
    <3>4. Max(all(p)) = p /\ all(p) # {}
      BY <3>1, <3>3
    <3> QED BY <2>1, <2>3, <3>4
  <2>4. CASE ~(p < from) /\ ~IsAt(h, needle, p)
    <3>1. p - 1 \in Int /\ rank[p - 1] < rank[p]
      BY <2>4
    <3>2. p - 1 \in good
      BY <1>7, <3>1
    <3>3. all(p) = all(p - 1)
      BY <2>4
    <3>4. scan[p - 1] \in from .. p - 1 => scan[p - 1] \in from .. p
      OBVIOUS
    <3> HIDE DEF all
    <3> QED BY <2>1, <2>4, <3>2, <3>3, <3>4
  <2> QED BY <2>2, <2>3, <2>4
<1>8. rank \in [Int -> Nat]
  OBVIOUS
<1> HIDE DEF rank, good
<1>9. Int \subseteq good
  BY <1>7, <1>8, RankInduction
<1>10. last \in good
  BY <1>1, <1>9
<1>11. Rfind(h, needle, from, to) = hit(last)
  BY DEF Rfind, Occurrences
<1>12. scan[last] = NotFound \/ scan[last] \in from .. to
  <2>1. scan[last] = NotFound \/ scan[last] \in from .. last
    BY <1>10 DEF good
  <2> QED BY <1>1, <2>1
<1> QED BY <1>6, <1>10, <1>11, <1>12 DEF good

(* Behind the end of the text there is nothing to be found.                *)
LEMMA RfindUpToTheEnd ==
  ASSUME NEW h, NEW needle, Searchable(h, needle), NEW from \in Nat, NEW to \in Nat, to > Len(h)
  PROVE  Rfind(h, needle, from, to) = Rfind(h, needle, from, Len(h))
<1>1. Len(h) \in Nat /\ Len(needle) \in Nat
  BY SearchableLengths
<1>2. Occurrences(h, needle, from, to) = Occurrences(h, needle, from, Len(h))
  BY <1>1 DEF Occurrences, IsAt
<1> QED BY <1>2 DEF Rfind

(* tolk_find and tolk_rfind answer like find and rfind.                    *)
LEMMA OneHitAgrees ==
  ASSUME NEW h, NEW needle, Searchable(h, needle), NEW to \in 0 .. Len(h), NEW from \in 0 .. to
  PROVE  /\ TolkFind(h, needle, from, to) = Find(h, needle, from, to)
         /\ TolkRfind(h, needle, from, to) = Rfind(h, needle, from, to)
<1>1. Len(h) \in Nat /\ from \in Nat /\ to \in Nat
  BY SearchableLengths
<1>2. Clamped(h, from, to) = <<from, to>>
  BY <1>1, WindowsAreKept
<1> QED BY <1>1, <1>2, FindInIsFind, RfindInIsRfind DEF TolkFind, TolkRfind

-----------------------------------------------------------------------------
(* The first items of a sequence, all of them when it has no more.         *)
FirstOf(n, s) == IF n >= Len(s) THEN s ELSE SubSeq(s, 1, n)

(* They are the same items, and none of them is there.                     *)
LEMMA FirstOfIs ==
  ASSUME NEW S, NEW s \in Seq(S), NEW n \in Nat
  PROVE  /\ FirstOf(0, s) = << >> /\ FirstOf(n, s) \in Seq(S)
         /\ Len(FirstOf(n, s)) = IF n >= Len(s) THEN Len(s) ELSE n
         /\ \A i \in 1 .. Len(FirstOf(n, s)) : FirstOf(n, s)[i] = s[i]
<1>1. FirstOf(0, s) = << >>
  <2>1. Len(s) = 0 => s = << >>
    OBVIOUS
  <2>2. SubSeq(s, 1, 0) = << >> /\ Len(s) \in Nat
    OBVIOUS
  <2> QED BY <2>1, <2>2 DEF FirstOf
<1> QED BY <1>1 DEF FirstOf

(* Those of an item and a rest.                                            *)
LEMMA FirstOfJoined ==
  ASSUME NEW S, NEW x \in S, NEW s \in Seq(S), NEW n \in Nat
  PROVE  FirstOf(n + 1, <<x>> \o s) = <<x>> \o FirstOf(n, s)
<1> DEFINE t == <<x>> \o s
           f == FirstOf(n, s)
           g == FirstOf(n + 1, t)
<1>1. t \in Seq(S) /\ Len(t) = Len(s) + 1 /\ Len(s) \in Nat
      /\ t[1] = x /\ \A i \in 1 .. Len(s) : t[i + 1] = s[i]
  OBVIOUS
<1>2. f \in Seq(S) /\ Len(f) = (IF n >= Len(s) THEN Len(s) ELSE n)
      /\ \A i \in 1 .. Len(f) : f[i] = s[i]
  BY FirstOfIs
<1> HIDE DEF t
<1>4. g \in Seq(S) /\ Len(g) = (IF n + 1 >= Len(t) THEN Len(t) ELSE n + 1)
      /\ \A i \in 1 .. Len(g) : g[i] = t[i]
  BY <1>1, FirstOfIs
<1> HIDE DEF f, g
<1>5. Len(<<x>> \o f) = Len(f) + 1 /\ <<x>> \o f \in Seq(S) /\ (<<x>> \o f)[1] = x
      /\ \A i \in 1 .. Len(f) : (<<x>> \o f)[i + 1] = f[i]
  BY <1>2
<1>6. Len(g) = Len(f) + 1
  BY <1>1, <1>2, <1>4
<1>7. ASSUME NEW i \in 1 .. Len(g) PROVE g[i] = (<<x>> \o f)[i]
  <2>1. CASE i = 1
    BY <1>1, <1>4, <1>5, <2>1
  <2>2. CASE i # 1
    <3>1. i - 1 \in 1 .. Len(f) /\ i - 1 \in 1 .. Len(s) /\ (i - 1) + 1 = i
      BY <1>1, <1>2, <1>6, <2>2
    <3>2. g[i] = t[i] /\ t[i] = s[i - 1]
      BY <1>1, <1>4, <3>1
    <3>3. (<<x>> \o f)[i] = f[i - 1] /\ f[i - 1] = s[i - 1]
      BY <1>2, <1>5, <3>1
    <3> QED BY <3>2, <3>3
  <2> QED BY <2>1, <2>2
<1>8. g = <<x>> \o f
  BY <1>4, <1>5, <1>6, <1>7, SeqEqual
<1> QED BY <1>8 DEF f, g, t

(* tolk_find_all gives the first hits of iter_find, up to its limit.       *)
HitWalk(w, h, needle, to) ==
  w = [left \in Nat |-> [pos \in Nat |->
         LET hit == FindIn(h, needle, pos, to) IN
         IF left = 0 \/ hit = NotFound THEN << >>
         ELSE <<hit>> \o w[left - 1][hit + Len(needle)]]]

(* With a limit on the hits, the walk stops where iter_find would go on.   *)
LEMMA FindAllIsFirstHits ==
  ASSUME NEW h, NEW needle, Searchable(h, needle), NEW to \in 0 .. Len(h),
         NEW limit \in Nat, NEW from \in 0 .. to
  PROVE  TolkFindAll(h, needle, from, to, limit) = FirstOf(limit, IterFind(h, needle, from, to))
<1> DEFINE V == [Nat -> Seq(Int)]
           find(p) == FindIn(h, needle, p, to)
           zero == [p \in Nat |-> << >>]
           further(v) == [p \in Nat |-> IF find(p) = NotFound THEN << >>
                                        ELSE <<find(p)>> \o v[find(p) + Len(needle)]]
           step == [v \in V |-> further(v)]
           walk == CHOOSE w : HitWalk(w, h, needle, to)
<1>1. Len(h) \in Nat /\ Len(needle) \in Nat /\ Len(needle) >= 1 /\ to \in Nat /\ from \in Nat
  BY SearchableLengths
<1>2. ASSUME NEW p \in Nat
      PROVE  /\ find(p) = Find(h, needle, p, to)
             /\ find(p) = NotFound \/ find(p) \in p .. Len(h) - Len(needle)
  <2>1. find(p) = Find(h, needle, p, to)
    BY FindInIsFind
  <2>2. find(p) = NotFound \/ find(p) \in Occurrences(h, needle, p, to)
    BY <2>1, FindIsLeast
  <2> HIDE DEF find
  <2>3. find(p) = NotFound \/ find(p) \in p .. Len(h) - Len(needle)
    BY <1>1, <2>2 DEF Occurrences
  <2> QED BY <2>1, <2>3
<1> HIDE DEF find
<1>3. HitWalk(walk, h, needle, to)
  <2>0. ASSUME NEW v \in V PROVE further(v) \in V
    <3>1. ASSUME NEW p \in Nat, find(p) # NotFound
          PROVE  <<find(p)>> \o v[find(p) + Len(needle)] \in Seq(Int)
      <4> HIDE DEF V, step, further, zero
      <4>1. find(p) \in p .. Len(h) - Len(needle)
        BY <1>2, <3>1
      <4>2. find(p) \in Int /\ find(p) + Len(needle) \in Nat
        BY <1>1, <4>1
      <4>3. v[find(p) + Len(needle)] \in Seq(Int) /\ <<find(p)>> \in Seq(Int)
        BY <4>2 DEF V
      <4> QED BY <4>3
    <3> QED BY <3>1
  <2>1. zero \in V
    OBVIOUS
  <2>2. step \in [V -> V] /\ \A v \in V : step[v] = further(v)
    <3> HIDE DEF further, V
    <3> QED BY <2>0
  <2> HIDE DEF step, further, V, zero
  <2>3. PICK w \in [Nat -> V] : Stepwise(w, zero, step)
    BY <2>1, <2>2, StepwiseExists
  <2>4. ASSUME NEW k \in Nat
        PROVE  w[k] = [p \in Nat |-> IF k = 0 \/ find(p) = NotFound THEN << >>
                                     ELSE <<find(p)>> \o w[k - 1][find(p) + Len(needle)]]
    <3>1. CASE k = 0
      BY <2>3, <3>1 DEF zero, Stepwise
    <3>2. CASE k # 0
      <4>1. k - 1 \in Nat /\ (k - 1) + 1 = k
        BY <3>2
      <4>2. w[k] = further(w[k - 1])
        BY <2>2, <2>3, <4>1 DEF Stepwise
      <4> QED BY <3>2, <4>2 DEF further
    <3> QED BY <3>1, <3>2
  <2>5. w = [k \in Nat |-> [p \in Nat |-> IF k = 0 \/ find(p) = NotFound THEN << >>
                                          ELSE <<find(p)>> \o w[k - 1][find(p) + Len(needle)]]]
    BY <2>3, <2>4
  <2>6. HitWalk(w, h, needle, to)
    BY <2>5 DEF HitWalk, find
  <2> QED BY <2>6
<1>4. TolkFindAll(h, needle, from, to, limit) = walk[limit][from]
  <2>1. Clamped(h, from, to) = <<from, to>>
    BY <1>1, WindowsAreKept
  <2> QED BY <2>1 DEF TolkFindAll, HitWalk
<1> HIDE DEF walk, V, zero, further, step
<1>5. \A k, p \in Nat : walk[k][p] = IF k = 0 \/ find(p) = NotFound THEN << >>
                                     ELSE <<find(p)>> \o walk[k - 1][find(p) + Len(needle)]
  <2>1. ASSUME NEW k \in Nat PROVE walk[k] = [p \in Nat |-> LET hit == FindIn(h, needle, p, to) IN
         IF k = 0 \/ hit = NotFound THEN << >> ELSE <<hit>> \o walk[k - 1][hit + Len(needle)]]
    BY <1>3, Zenon DEF HitWalk
  <2> QED BY <2>1 DEF find
<1> DEFINE hits(p) == IterFind(h, needle, p, to)
           good == {k \in Nat : \A p \in 0 .. Len(h) : walk[k][p] = FirstOf(k, hits(p))}
<1>6. ASSUME NEW p \in 0 .. Len(h)
      PROVE  /\ hits(p) = IF find(p) = NotFound THEN << >>
                          ELSE <<find(p)>> \o hits(find(p) + Len(needle))
             /\ hits(p) \in Seq(Int) /\ p \in Nat
             /\ find(p) # NotFound => find(p) \in Int /\ find(p) + Len(needle) \in 0 .. Len(h)
  <2>1. p \in Nat
    BY <1>1
  <2>2. find(p) = Find(h, needle, p, to)
    BY <1>2, <2>1
  <2>3. hits(p) = IF find(p) = NotFound THEN << >> ELSE <<find(p)>> \o hits(find(p) + Len(needle))
    BY <2>2, IterFindUnfolds
  <2>4. hits(p) \in Seq(Int)
    BY IterFindIsGreedy DEF Greedy
  <2>5. find(p) # NotFound => find(p) \in Int /\ find(p) + Len(needle) \in 0 .. Len(h)
    BY <1>1, <1>2, <2>1
  <2> QED BY <2>1, <2>3, <2>4, <2>5
<1> HIDE DEF hits
<1>7. 0 \in good
  <2>1. ASSUME NEW p \in 0 .. Len(h) PROVE walk[0][p] = FirstOf(0, hits(p))
    <3>1. FirstOf(0, hits(p)) = << >>
      <4>1. hits(p) \in Seq(Int)
        BY <1>6, Zenon
      <4> QED BY <4>1, FirstOfIs
    <3> QED BY <1>5, <1>6, <3>1
  <2> QED BY <2>1
<1>8. ASSUME NEW k \in Nat, k \in good PROVE k + 1 \in good
  <2>1. ASSUME NEW p \in 0 .. Len(h) PROVE walk[k + 1][p] = FirstOf(k + 1, hits(p))
    <3>1. k + 1 \in Nat /\ k + 1 # 0 /\ (k + 1) - 1 = k /\ p \in Nat
      BY <1>6
    <3>2. CASE find(p) = NotFound
      <4>1. walk[k + 1][p] = << >> /\ hits(p) = << >>
        BY <1>5, <1>6, <3>1, <3>2
      <4> QED BY <3>1, <4>1 DEF FirstOf
    <3>3. CASE find(p) # NotFound
      <4> DEFINE q == find(p) + Len(needle)
      <4>1. q \in 0 .. Len(h) /\ find(p) \in Int /\ hits(q) \in Seq(Int)
        BY <1>6, <3>3
      <4>2. walk[k + 1][p] = <<find(p)>> \o walk[k][q]
        BY <1>5, <3>1, <3>3
      <4>3. walk[k][q] = FirstOf(k, hits(q))
        BY <1>8, <4>1
      <4>4. hits(p) = <<find(p)>> \o hits(q)
        BY <1>6, <3>3
      <4> HIDE DEF q
      <4>5. FirstOf(k + 1, <<find(p)>> \o hits(q)) = <<find(p)>> \o FirstOf(k, hits(q))
        BY <4>1, FirstOfJoined
      <4> QED BY <4>2, <4>3, <4>4, <4>5
    <3> QED BY <3>2, <3>3
  <2> QED BY <2>1, <1>8
<1> HIDE DEF good
<1>9. Nat \subseteq good
  BY <1>7, <1>8, NumberInduction
<1>10. from \in 0 .. Len(h) /\ limit \in good
  BY <1>1, <1>9
<1> QED BY <1>4, <1>10 DEF good, hits

(* A text has no more hits than characters.                                *)
LEMMA HitsAreFew ==
  ASSUME NEW h, NEW needle, Searchable(h, needle), NEW to \in 0 .. Len(h), NEW from \in 0 .. to
  PROVE  Len(IterFind(h, needle, from, to)) <= Len(h)
<1> DEFINE hits == IterFind(h, needle, from, to)
           good == {k \in Nat : k + 1 \in DOMAIN hits => k <= hits[k + 1]}
<1>1. /\ Len(h) \in Nat /\ Len(needle) \in Nat /\ Len(needle) >= 1
      /\ to \in Nat /\ from \in Nat /\ from \in 0 .. Len(h)
  BY SearchableLengths
<1>2. Greedy(hits, h, needle, from, to)
  BY <1>1, IterFindIsGreedy
<1>3. /\ hits \in Seq(Int) /\ Len(hits) \in Nat /\ DOMAIN hits = 1 .. Len(hits)
      /\ \A i \in DOMAIN hits : hits[i] \in 0 .. Len(h) - 1
      /\ \A i, j \in DOMAIN hits : i < j => hits[i] + Len(needle) <= hits[j]
  BY <1>1, <1>2 DEF Greedy, Occurrences
<1> HIDE DEF hits
<1>4. 0 \in good
  BY <1>1, <1>3
<1>5. ASSUME NEW k \in Nat, k \in good PROVE k + 1 \in good
  <2> SUFFICES ASSUME (k + 1) + 1 \in DOMAIN hits PROVE k + 1 <= hits[(k + 1) + 1]
    OBVIOUS
  <2>1. k + 1 \in DOMAIN hits /\ k + 1 < (k + 1) + 1
    BY <1>3
  <2>2. k <= hits[k + 1] /\ hits[k + 1] + Len(needle) <= hits[(k + 1) + 1]
    BY <1>3, <1>5, <2>1
  <2>3. hits[k + 1] \in Int /\ hits[(k + 1) + 1] \in Int
    BY <1>3, <2>1
  <2> QED BY <1>1, <2>2, <2>3
<1> HIDE DEF good
<1>6. Nat \subseteq good
  BY <1>4, <1>5, NumberInduction
<1>7. CASE Len(hits) # 0
  <2>1. Len(hits) - 1 \in Nat /\ (Len(hits) - 1) + 1 = Len(hits) /\ Len(hits) \in DOMAIN hits
    BY <1>3, <1>7
  <2>2. Len(hits) - 1 <= hits[Len(hits)]
    BY <1>6, <2>1 DEF good
  <2>3. hits[Len(hits)] \in 0 .. Len(h) - 1
    BY <1>3, <2>1
  <2> QED BY <1>1, <1>3, <2>2, <2>3 DEF hits
<1> QED BY <1>1, <1>7 DEF hits

(* So tolk_count counts what count does.                                   *)
LEMMA CountAgrees ==
  ASSUME NEW h, NEW needle, Searchable(h, needle), NEW to \in 0 .. Len(h), NEW from \in 0 .. to
  PROVE  TolkCount(h, needle, from, to) = Count(h, needle, from, to)
<1>1. Len(h) \in Nat /\ Len(h) + 1 \in Nat
  BY SearchableLengths
<1>2. TolkFindAll(h, needle, from, to, Len(h) + 1)
        = FirstOf(Len(h) + 1, IterFind(h, needle, from, to))
  BY <1>1, FindAllIsFirstHits
<1>3. Len(IterFind(h, needle, from, to)) <= Len(h) /\ Len(IterFind(h, needle, from, to)) \in Nat
  <2>1. from \in 0 .. Len(h)
    BY <1>1
  <2>2. IterFind(h, needle, from, to) \in Seq(Int)
    BY <2>1, IterFindIsGreedy DEF Greedy
  <2> QED BY <2>2, HitsAreFew
<1> QED BY <1>1, <1>2, <1>3 DEF TolkCount, Count, FirstOf

-----------------------------------------------------------------------------
(* What comes behind the first hits of iter_find is what it finds behind   *)
(* the last of them.                                                       *)
SplitsAt(h, needle, to, p) ==
  \A n \in 1 .. Len(IterFind(h, needle, p, to)) :
    LET hits == IterFind(h, needle, p, to) IN
    hits = FirstOf(n, hits) \o IterFind(h, needle, hits[n] + Len(needle), to)

(* That is so at each of its hits, from wherever it starts.                *)
LEMMA IterFindSplits ==
  ASSUME NEW h, NEW needle, Searchable(h, needle), NEW to \in 0 .. Len(h)
  PROVE  \A p \in 0 .. Len(h) : SplitsAt(h, needle, to, p)
<1> DEFINE D == 0 .. Len(h)
           rank == [p \in D |-> Len(h) - p]
           good == {p \in D : SplitsAt(h, needle, to, p)}
           hits(p) == IterFind(h, needle, p, to)
<1>1. Len(h) \in Nat /\ Len(needle) \in Nat /\ Len(needle) >= 1
  BY SearchableLengths
<1>2. \A p \in D : hits(p) \in Seq(Int)
  BY IterFindIsGreedy DEF Greedy
<1>3. ASSUME NEW p \in D, \A r \in D : rank[r] < rank[p] => r \in good
      PROVE  p \in good
  <2> DEFINE hit == Find(h, needle, p, to)
             q == hit + Len(needle)
             rest == hits(q)
  <2>1. hits(p) = IF hit = NotFound THEN << >> ELSE <<hit>> \o rest
    BY IterFindUnfolds
  <2>2. hit # NotFound => hit \in Occurrences(h, needle, p, to)
    BY <1>1, FindIsLeast
  <2> SUFFICES ASSUME NEW n \in 1 .. Len(hits(p))
               PROVE  hits(p) = FirstOf(n, hits(p)) \o hits(hits(p)[n] + Len(needle))
    BY DEF SplitsAt
  <2>3. hit # NotFound
    <3>1. hit = NotFound => Len(hits(p)) = 0
      BY <2>1
    <3> QED BY <3>1
  <2>4. q \in D /\ rank[q] < rank[p] /\ hit \in Int
    BY <1>1, <2>2, <2>3 DEF Occurrences
  <2>5. rest \in Seq(Int) /\ hits(p) = <<hit>> \o rest /\ SplitsAt(h, needle, to, q)
    BY <1>2, <1>3, <2>1, <2>3, <2>4
  <2> HIDE DEF hit, rank, good
  <2>6. CASE n = 1
    <3>1. FirstOf(0 + 1, <<hit>> \o rest) = <<hit>> \o FirstOf(0, rest) /\ FirstOf(0, rest) = << >>
      <4> HIDE DEF rest
      <4>1. FirstOf(0, rest) = << >>
        BY <2>5, FirstOfIs
      <4> QED BY <2>4, <2>5, <4>1, FirstOfJoined
    <3>2. FirstOf(1, hits(p)) = <<hit>> /\ hits(p)[1] = hit
      <4> HIDE DEF rest, hits
      <4>1. FirstOf(1, hits(p)) = <<hit>>
        <5>1. 0 + 1 = 1 /\ <<hit>> \o << >> = <<hit>>
          BY <2>4
        <5> QED BY <2>5, <3>1, <5>1
      <4>2. (<<hit>> \o rest)[1] = hit
        BY <2>4, <2>5
      <4> QED BY <2>5, <4>1, <4>2
    <3> QED BY <2>5, <2>6, <3>2
  <2>7. CASE n # 1
    <3> DEFINE m == n - 1
               behind == hits(rest[m] + Len(needle))
    <3>1. /\ m \in Nat /\ m >= 1 /\ m + 1 = n /\ m \in 1 .. Len(rest)
          /\ hits(p)[n] = rest[m]
      <4> HIDE DEF rest, hits
      <4>1. Len(<<hit>> \o rest) = Len(rest) + 1 /\ Len(rest) \in Nat
        BY <2>4, <2>5
      <4>2. n \in 1 .. Len(rest) + 1
        BY <2>5, <4>1
      <4>3. m \in Nat /\ m >= 1 /\ m + 1 = n /\ m \in 1 .. Len(rest)
        BY <2>7, <4>1, <4>2
      <4>4. (<<hit>> \o rest)[m + 1] = rest[m]
        BY <2>4, <2>5, <4>1, <4>3
      <4> QED BY <2>5, <4>3, <4>4
    <3>2. rest = FirstOf(m, rest) \o behind
      BY <2>5, <3>1 DEF SplitsAt
    <3>3. rest[m] \in Int /\ rest[m] + Len(needle) \in D
      <4>1. Greedy(rest, h, needle, q, to)
        BY <2>4, IterFindIsGreedy
      <4>2. m \in DOMAIN rest
        BY <2>5, <3>1
      <4>3. rest[m] \in Occurrences(h, needle, q, to)
        BY <4>1, <4>2 DEF Greedy
      <4> HIDE DEF rest
      <4> QED BY <1>1, <2>4, <4>3 DEF Occurrences
    <3>4. behind \in Seq(Int)
      BY <1>2, <3>3
    <3> HIDE DEF behind, m, rest, hits
    <3>5. FirstOf(m + 1, <<hit>> \o rest) = <<hit>> \o FirstOf(m, rest) /\ FirstOf(m, rest) \in Seq(Int)
      <4>1. FirstOf(m, rest) \in Seq(Int)
        BY <2>5, <3>1, FirstOfIs
      <4> QED BY <2>4, <2>5, <3>1, <4>1, FirstOfJoined
    <3>6. (<<hit>> \o FirstOf(m, rest)) \o behind = <<hit>> \o (FirstOf(m, rest) \o behind)
      BY <2>4, <3>4, <3>5
    <3>7. hits(p) = FirstOf(n, hits(p)) \o behind
      BY <2>5, <3>1, <3>2, <3>5, <3>6
    <3> QED BY <3>1, <3>7 DEF behind
  <2> QED BY <2>6, <2>7
<1>4. rank \in [D -> Nat]
  BY <1>1
<1> HIDE DEF good, rank, D
<1>5. D \subseteq good
  BY <1>3, <1>4, RankInduction
<1> QED BY <1>5 DEF good, D

(* Full batches are resumed where nothing is lost and nothing found twice. *)
BatchWalk(w, h, needle, to) ==
  w = [pos \in Nat |->
         LET out == TolkFindAll(h, needle, pos, to, Batch) IN
         IF Len(out) < Batch THEN out ELSE out \o w[Last(out) + Len(needle)]]

(* _cengine.find_all gives all that iter_find gives, for any size of a     *)
(* batch.                                                                  *)
LEMMA FindAllAgrees ==
  ASSUME NEW h, NEW needle, Searchable(h, needle), NEW to \in 0 .. Len(h), NEW from \in 0 .. to
  PROVE  FindAll(h, needle, from, to) = IterFind(h, needle, from, to)
<1> DEFINE V == Seq(Int)
           hits(p) == IterFind(h, needle, p, to)
           out(p) == TolkFindAll(h, needle, p, to, Batch)
           rank == [p \in Nat |-> IF p < to THEN to - p ELSE 0]
           over == {p \in Nat : Len(out(p)) < Batch}
           next == [p \in Nat \ over |-> Last(out(p)) + Len(needle)]
           base == [p \in over |-> out(p)]
           step == [p \in Nat \ over |-> [v \in V |-> out(p) \o v]]
           walk == CHOOSE w : BatchWalk(w, h, needle, to)
<1>1. /\ Len(h) \in Nat /\ Len(needle) \in Nat /\ Len(needle) >= 1
      /\ to \in Nat /\ from \in Nat /\ Batch \in Nat /\ Batch >= 1
  BY SearchableLengths, CEngineAssumption
<1>2. ASSUME NEW p \in Nat
      PROVE  out(p) = FirstOf(Batch, hits(IF p < to THEN p ELSE to))
  <2> DEFINE c == IF p < to THEN p ELSE to
  <2>1. Clamped(h, p, to) = <<c, to>> /\ Clamped(h, c, to) = <<c, to>>
    BY <1>1, WindowsAreKept
  <2>3. c \in 0 .. to
    BY <1>1
  <2> HIDE DEF c
  <2>2. TolkFindAll(h, needle, p, to, Batch) = TolkFindAll(h, needle, c, to, Batch)
    <3> DEFINE w == CHOOSE v : HitWalk(v, h, needle, to)
    <3>1. TolkFindAll(h, needle, p, to, Batch) = w[Batch][c]
      BY <2>1 DEF TolkFindAll, HitWalk
    <3>2. TolkFindAll(h, needle, c, to, Batch) = w[Batch][c]
      BY <2>1 DEF TolkFindAll, HitWalk
    <3> HIDE DEF w
    <3> QED BY <3>1, <3>2
  <2> QED BY <1>1, <2>2, <2>3, FindAllIsFirstHits DEF c
<1>3. ASSUME NEW p \in 0 .. to
      PROVE  /\ hits(p) \in Seq(Int) /\ out(p) = FirstOf(Batch, hits(p)) /\ out(p) \in Seq(Int)
             /\ Len(out(p)) = IF Batch >= Len(hits(p)) THEN Len(hits(p)) ELSE Batch
             /\ \A i \in 1 .. Len(out(p)) :
                  /\ out(p)[i] = hits(p)[i] /\ out(p)[i] \in Int
                  /\ out(p)[i] >= p /\ out(p)[i] + Len(needle) <= to
  <2>1. p \in 0 .. Len(h) /\ p \in Nat
    BY <1>1
  <2>2. Greedy(hits(p), h, needle, p, to)
    BY <2>1, IterFindIsGreedy
  <2>3. hits(p) \in Seq(Int) /\ \A i \in DOMAIN hits(p) : hits(p)[i] \in Occurrences(h, needle, p, to)
    BY <2>2 DEF Greedy
  <2>4. (IF p < to THEN p ELSE to) = p
    BY <1>1
  <2>5. out(p) = FirstOf(Batch, hits(p))
    BY <1>2, <2>1, <2>4
  <2> HIDE DEF hits, out
  <2>6. /\ out(p) \in Seq(Int) /\ Len(out(p)) = IF Batch >= Len(hits(p)) THEN Len(hits(p)) ELSE Batch
        /\ \A i \in 1 .. Len(out(p)) : out(p)[i] = hits(p)[i]
    <3>1. ASSUME NEW s \in Seq(Int), NEW n \in Nat
          PROVE  /\ FirstOf(n, s) \in Seq(Int) /\ Len(FirstOf(n, s)) = IF n >= Len(s) THEN Len(s) ELSE n
                 /\ \A i \in 1 .. Len(FirstOf(n, s)) : FirstOf(n, s)[i] = s[i]
      BY <3>1, FirstOfIs
    <3>2. Batch \in Nat /\ hits(p) \in Seq(Int)
      BY <1>1, <2>3
    <3> QED BY <2>5, <3>1, <3>2, SMTT(30)
  <2>7. ASSUME NEW i \in 1 .. Len(out(p))
        PROVE  out(p)[i] \in Int /\ out(p)[i] >= p /\ out(p)[i] + Len(needle) <= to
    <3>1. i \in DOMAIN hits(p)
      BY <1>1, <2>3, <2>6
    <3>2. out(p)[i] \in Occurrences(h, needle, p, to)
      BY <2>3, <2>6, <3>1
    <3> QED BY <1>1, <2>1, <3>2 DEF Occurrences
  <2> QED BY <2>3, <2>5, <2>6, <2>7
<1>4. \A p \in Nat : p >= to => out(p) = << >>
  <2>1. hits(to) = << >>
    <3>1. Occurrences(h, needle, to, to) = {}
      BY <1>1 DEF Occurrences
    <3>2. Find(h, needle, to, to) = NotFound
      BY <3>1 DEF Find
    <3> QED BY <1>1, <3>2, IterFindUnfolds
  <2>2. ASSUME NEW p \in Nat, p >= to PROVE out(p) = FirstOf(Batch, << >>)
    <3>1. ~(p < to)
      BY <1>1, <2>2
    <3> QED BY <1>2, <2>1, <3>1
  <2>3. FirstOf(Batch, << >>) = << >>
    BY <1>1 DEF FirstOf
  <2> QED BY <2>2, <2>3
<1> HIDE DEF hits, out
<1>5. ASSUME NEW p \in Nat, ~(Len(out(p)) < Batch)
      PROVE  /\ p \in 0 .. to /\ Len(out(p)) = Batch /\ Batch \in 1 .. Len(hits(p))
             /\ Last(out(p)) = hits(p)[Batch]
             /\ Last(out(p)) \in p .. to /\ Last(out(p)) + Len(needle) \in p + 1 .. to
  <2>1. p < to
    <3>1. p >= to => Len(out(p)) = 0
      BY <1>4
    <3> QED BY <1>1, <1>5, <3>1
  <2>2. p \in 0 .. to
    BY <1>1, <2>1
  <2>3. Len(out(p)) = Batch /\ Len(hits(p)) >= Batch
    BY <1>1, <1>3, <1>5, <2>2
  <2>4. Batch \in 1 .. Len(out(p)) /\ Batch \in 1 .. Len(hits(p))
    BY <1>1, <1>3, <2>2, <2>3
  <2>5. Last(out(p)) = out(p)[Batch]
    BY <2>3 DEF Last
  <2>6. /\ out(p)[Batch] = hits(p)[Batch] /\ out(p)[Batch] \in Int
        /\ out(p)[Batch] >= p /\ out(p)[Batch] + Len(needle) <= to
    BY <1>3, <2>2, <2>4
  <2> QED BY <1>1, <2>2, <2>3, <2>4, <2>5, <2>6
<1>6. \A p \in Nat : out(p) \in Seq(Int)
  <2>1. ASSUME NEW p \in Nat PROVE out(p) \in Seq(Int)
    <3>1. CASE p >= to
      <4>1. out(p) = << >>
        BY <1>4, <3>1
      <4> QED BY <4>1
    <3>2. CASE ~(p >= to)
      <4>1. p \in 0 .. to
        BY <1>1, <3>2
      <4> QED BY <1>3, <4>1
    <3> QED BY <3>1, <3>2
  <2> QED BY <2>1
<1>7. \A p \in Nat : p \in over <=> Len(out(p)) < Batch
  OBVIOUS
<1>8. Descends(Nat, rank, over, next)
  <2>1. ASSUME NEW p \in Nat \ over PROVE next[p] \in Nat /\ rank[next[p]] < rank[p]
    <3>1. p \in 0 .. to /\ Last(out(p)) + Len(needle) \in p + 1 .. to
      BY <1>5, <1>7
    <3> QED BY <1>1, <3>1
  <2>2. rank \in [Nat -> Nat]
    BY <1>1
  <2> QED BY <2>1, <2>2 DEF Descends
<1>9. /\ base \in [over -> V] /\ \A p \in over : base[p] = out(p)
      /\ \A p \in Nat \ over, v \in V : step[p][v] = out(p) \o v
      /\ \A p \in Nat \ over : next[p] = Last(out(p)) + Len(needle)
  BY <1>6
<1>10. \A p \in Nat \ over, v \in V : step[p][v] \in V
  BY <1>6, <1>9
<1> HIDE DEF rank, over, next, base, step, V
<1>11. BatchWalk(walk, h, needle, to)
  <2>1. PICK w \in [Nat -> V] : \A p \in Nat : Continues(w, p, over, base, next, step)
    BY <1>8, <1>9, <1>10, RecursionExists
  <2>2. ASSUME NEW p \in Nat
        PROVE  w[p] = IF Len(out(p)) < Batch THEN out(p) ELSE out(p) \o w[Last(out(p)) + Len(needle)]
    <3>1. Continues(w, p, over, base, next, step)
      BY <2>1
    <3>2. CASE p \in over
      BY <1>7, <1>9, <3>1, <3>2 DEF Continues
    <3>3. CASE p \notin over
      <4>1. next[p] \in Nat
        BY <1>8, <3>3 DEF Descends
      <4>2. w[next[p]] \in V /\ next[p] = Last(out(p)) + Len(needle)
        BY <1>9, <2>1, <3>3, <4>1
      <4>3. w[p] = step[p][w[next[p]]]
        BY <3>1, <3>3 DEF Continues
      <4>4. step[p][w[next[p]]] = out(p) \o w[next[p]]
        BY <1>9, <3>3, <4>2
      <4> QED BY <1>7, <3>3, <4>2, <4>3, <4>4
    <3> QED BY <3>2, <3>3
  <2>3. w = [p \in Nat |-> IF Len(out(p)) < Batch THEN out(p) ELSE out(p) \o w[Last(out(p)) + Len(needle)]]
    BY <2>1, <2>2
  <2>4. BatchWalk(w, h, needle, to)
    BY <2>3 DEF BatchWalk, out
  <2> QED BY <2>4
<1>12. FindAll(h, needle, from, to) = walk[from]
  BY DEF FindAll, BatchWalk
<1> HIDE DEF walk
<1> DEFINE good == {p \in Nat : p <= to => walk[p] = hits(p)}
<1>13. ASSUME NEW p \in Nat, \A r \in Nat : rank[r] < rank[p] => r \in good
       PROVE  p \in good
  <2> SUFFICES ASSUME p <= to PROVE walk[p] = hits(p)
    OBVIOUS
  <2>1. walk[p] = IF Len(out(p)) < Batch THEN out(p) ELSE out(p) \o walk[Last(out(p)) + Len(needle)]
    BY <1>11 DEF BatchWalk, out
  <2>2. p \in 0 .. to
    BY <1>1
  <2>3. CASE Len(out(p)) < Batch
    <3>1. Batch >= Len(hits(p))
      BY <1>1, <1>3, <2>2, <2>3
    <3> QED BY <1>3, <2>1, <2>2, <2>3, <3>1 DEF FirstOf
  <2>4. CASE ~(Len(out(p)) < Batch)
    <3> DEFINE q == Last(out(p)) + Len(needle)
    <3>1. q \in p + 1 .. to /\ Last(out(p)) = hits(p)[Batch] /\ Batch \in 1 .. Len(hits(p))
      BY <1>5, <2>4
    <3>2. q \in Nat /\ q <= to /\ rank[q] < rank[p]
      BY <1>1, <2>2, <3>1 DEF rank
    <3>3. walk[q] = hits(q)
      BY <1>13, <3>2
    <3>4. SplitsAt(h, needle, to, p)
      BY <1>1, <2>2, IterFindSplits
    <3>5. hits(p) = FirstOf(Batch, hits(p)) \o hits(hits(p)[Batch] + Len(needle))
      BY <3>1, <3>4 DEF SplitsAt, hits
    <3> QED BY <1>3, <2>1, <2>2, <2>4, <3>1, <3>3, <3>5
  <2> QED BY <2>3, <2>4
<1>14. rank \in [Nat -> Nat]
  BY <1>8 DEF Descends
<1> HIDE DEF good
<1>15. Nat \subseteq good
  BY <1>13, <1>14, RankInduction
<1>16. from \in good /\ from <= to
  BY <1>1, <1>15
<1> QED BY <1>12, <1>16 DEF good, hits

-----------------------------------------------------------------------------
(* The item that has so many others before it, if there is one.            *)
Behindmost(k, s) == IF k + 1 \in DOMAIN s THEN s[k + 1] ELSE NotFound

(* Behind the first item the others come one later.                        *)
LEMMA FrontmostOfJoined ==
  ASSUME NEW x \in Int, NEW s \in Seq(Int)
  PROVE  Behindmost(0, <<x>> \o s) = x
<1> DEFINE t == <<x>> \o s
<1>1. /\ t[1] = x /\ Len(s) \in Nat /\ DOMAIN t = 1 .. Len(s) + 1
  OBVIOUS
<1> HIDE DEF t
<1>2. Behindmost(0, t) = x
  BY <1>1 DEF Behindmost
<1> QED BY <1>2 DEF t

(* How the last but k of a list changes when an item is put before it.     *)
LEMMA BehindmostOfJoined ==
  ASSUME NEW x \in Int, NEW s \in Seq(Int), NEW k \in Nat
  PROVE  /\ Behindmost(k, << >>) = NotFound
         /\ Behindmost(0, <<x>> \o s) = x
         /\ Behindmost(k + 1, <<x>> \o s) = Behindmost(k, s)
         /\ Behindmost(0, <<x>>) = x /\ Behindmost(k + 1, <<x>>) = NotFound
<1> DEFINE t == <<x>> \o s
<1>1. /\ t \in Seq(Int) /\ Len(t) = Len(s) + 1 /\ t[1] = x /\ Len(s) \in Nat
      /\ DOMAIN t = 1 .. Len(s) + 1 /\ DOMAIN s = 1 .. Len(s)
      /\ \A i \in 1 .. Len(s) : t[i + 1] = s[i]
  OBVIOUS
<1> HIDE DEF t
<1>2. Behindmost(0, t) = x
  BY <1>1 DEF Behindmost
<1>3. Behindmost(k + 1, t) = Behindmost(k, s)
  <2>1. (k + 1) + 1 \in DOMAIN t <=> k + 1 \in DOMAIN s
    BY <1>1
  <2>2. k + 1 \in DOMAIN s => t[(k + 1) + 1] = s[k + 1]
    BY <1>1
  <2> QED BY <2>1, <2>2 DEF Behindmost
<1>4. Behindmost(0, <<x>>) = x /\ Behindmost(k + 1, <<x>>) = NotFound /\ Behindmost(k, << >>) = NotFound
  BY DEF Behindmost
<1> QED BY <1>2, <1>3, <1>4 DEF t

(* Counted from the left, tolk_find_nth picks from the hits of iter_find.  *)
NthWalk(w, h, needle, to) ==
  w = [left \in Nat |-> [pos \in Nat |->
         LET hit == FindIn(h, needle, pos, to) IN
         IF hit = NotFound \/ left = 0 THEN hit ELSE w[left - 1][hit + Len(needle)]]]

(* For n from 0 on, both find_nth give the same.                           *)
LEMMA NthFromTheLeft ==
  ASSUME NEW h, NEW needle, Searchable(h, needle), NEW to \in 0 .. Len(h), NEW from \in 0 .. to,
         NEW n \in Nat
  PROVE  TolkFindNth(h, needle, n, from, to) = FindNth(h, needle, n, from, to)
<1> DEFINE V == [Nat -> Int]
           find(p) == FindIn(h, needle, p, to)
           hits(p) == IterFind(h, needle, p, to)
           zero == [p \in Nat |-> find(p)]
           further(v) == [p \in Nat |-> IF find(p) = NotFound THEN NotFound
                                        ELSE v[find(p) + Len(needle)]]
           step == [v \in V |-> further(v)]
           walk == CHOOSE w : NthWalk(w, h, needle, to)
           good == {k \in Nat : \A p \in 0 .. Len(h) : walk[k][p] = Behindmost(k, hits(p))}
<1>1. Len(h) \in Nat /\ Len(needle) \in Nat /\ Len(needle) >= 1 /\ to \in Nat /\ from \in Nat
  BY SearchableLengths
<1>2. ASSUME NEW p \in Nat
      PROVE  /\ find(p) = Find(h, needle, p, to) /\ find(p) \in Int
             /\ find(p) # NotFound => find(p) + Len(needle) \in 0 .. Len(h)
  <2>1. find(p) = Find(h, needle, p, to)
    BY FindInIsFind
  <2>2. find(p) = NotFound \/ find(p) \in Occurrences(h, needle, p, to)
    BY <2>1, FindIsLeast
  <2> HIDE DEF find
  <2> QED BY <1>1, <2>1, <2>2 DEF Occurrences, NotFound
<1>3. ASSUME NEW p \in 0 .. Len(h)
      PROVE  /\ hits(p) = IF find(p) = NotFound THEN << >>
                          ELSE <<find(p)>> \o hits(find(p) + Len(needle))
             /\ hits(p) \in Seq(Int) /\ p \in Nat
  <2>1. p \in Nat
    BY <1>1
  <2>2. find(p) = Find(h, needle, p, to)
    BY <1>2, <2>1
  <2>3. hits(p) \in Seq(Int)
    BY IterFindIsGreedy DEF Greedy
  <2> QED BY <2>1, <2>2, <2>3, IterFindUnfolds
<1> HIDE DEF find, hits
<1>4. NthWalk(walk, h, needle, to)
  <2>0. ASSUME NEW v \in V PROVE further(v) \in V
    <3>1. \A p \in Nat : find(p) # NotFound => find(p) + Len(needle) \in Nat
      BY <1>1, <1>2
    <3> QED BY <3>1 DEF NotFound
  <2>1. zero \in V
    BY <1>2
  <2>2. step \in [V -> V] /\ \A v \in V : step[v] = further(v)
    <3> HIDE DEF further, V
    <3> QED BY <2>0
  <2> HIDE DEF step, further, V, zero
  <2>3. PICK w \in [Nat -> V] : Stepwise(w, zero, step)
    BY <2>1, <2>2, StepwiseExists
  <2>4. ASSUME NEW k \in Nat
        PROVE  w[k] = [p \in Nat |-> IF find(p) = NotFound \/ k = 0 THEN find(p)
                                     ELSE w[k - 1][find(p) + Len(needle)]]
    <3>1. CASE k = 0
      BY <2>3, <3>1 DEF zero, Stepwise
    <3>2. CASE k # 0
      <4>1. k - 1 \in Nat /\ (k - 1) + 1 = k
        BY <3>2
      <4>2. w[k] = further(w[k - 1])
        BY <2>2, <2>3, <4>1 DEF Stepwise
      <4> QED BY <3>2, <4>2 DEF further
    <3> QED BY <3>1, <3>2
  <2>5. w = [k \in Nat |-> [p \in Nat |-> IF find(p) = NotFound \/ k = 0 THEN find(p)
                                          ELSE w[k - 1][find(p) + Len(needle)]]]
    BY <2>3, <2>4
  <2>6. NthWalk(w, h, needle, to)
    BY <2>5 DEF NthWalk, find
  <2> QED BY <2>6
<1>5. TolkFindNth(h, needle, n, from, to) = walk[n][from]
  <2>1. Clamped(h, from, to) = <<from, to>>
    BY <1>1, WindowsAreKept
  <2> QED BY <2>1 DEF TolkFindNth, NthWalk
<1> HIDE DEF walk, V, zero, further, step
<1>6. \A k, p \in Nat : walk[k][p] = IF find(p) = NotFound \/ k = 0 THEN find(p)
                                     ELSE walk[k - 1][find(p) + Len(needle)]
  <2>1. ASSUME NEW k \in Nat PROVE walk[k] = [p \in Nat |-> LET hit == FindIn(h, needle, p, to) IN
         IF hit = NotFound \/ k = 0 THEN hit ELSE walk[k - 1][hit + Len(needle)]]
    BY <1>4, Zenon DEF NthWalk
  <2> QED BY <2>1, ZenonT(60) DEF find
<1>7. ASSUME NEW p \in 0 .. Len(h), find(p) = NotFound, NEW k \in Nat
      PROVE  walk[k][p] = Behindmost(k, hits(p))
  <2>1. hits(p) = << >> /\ walk[k][p] = NotFound
    BY <1>3, <1>6, <1>7
  <2> QED BY <2>1 DEF Behindmost
<1>8. ASSUME NEW p \in 0 .. Len(h), find(p) # NotFound
      PROVE  /\ find(p) \in Int /\ find(p) + Len(needle) \in 0 .. Len(h)
             /\ hits(find(p) + Len(needle)) \in Seq(Int)
             /\ hits(p) = <<find(p)>> \o hits(find(p) + Len(needle))
  BY <1>2, <1>3, <1>8
<1>9. 0 \in good
  <2>1. ASSUME NEW p \in 0 .. Len(h), find(p) # NotFound PROVE walk[0][p] = Behindmost(0, hits(p))
    <3>1. walk[0][p] = find(p)
      BY <1>3, <1>6
    <3> DEFINE q == find(p) + Len(needle)
    <3>2. find(p) \in Int /\ hits(q) \in Seq(Int) /\ hits(p) = <<find(p)>> \o hits(q)
      BY <1>8, <2>1
    <3> HIDE DEF q
    <3>3. Behindmost(0, hits(p)) = find(p)
      BY <3>2, FrontmostOfJoined
    <3> QED BY <3>1, <3>3
  <2> QED BY <1>7, <2>1
<1>10. ASSUME NEW k \in Nat, k \in good PROVE k + 1 \in good
  <2>1. ASSUME NEW p \in 0 .. Len(h), find(p) # NotFound
        PROVE  walk[k + 1][p] = Behindmost(k + 1, hits(p))
    <3> DEFINE q == find(p) + Len(needle)
    <3>1. k + 1 \in Nat /\ k + 1 # 0 /\ (k + 1) - 1 = k /\ p \in Nat
      BY <1>3
    <3>2. walk[k + 1][p] = walk[k][q]
      BY <1>6, <2>1, <3>1
    <3>3. q \in 0 .. Len(h) /\ find(p) \in Int /\ hits(q) \in Seq(Int) /\ hits(p) = <<find(p)>> \o hits(q)
      BY <1>8, <2>1
    <3> HIDE DEF q
    <3>4. Behindmost(k + 1, hits(p)) = Behindmost(k, hits(q))
      BY <3>3, BehindmostOfJoined
    <3> QED BY <1>10, <3>2, <3>3, <3>4
  <2>2. \A p \in 0 .. Len(h) : walk[k + 1][p] = Behindmost(k + 1, hits(p))
    BY <1>7, <2>1
  <2> QED BY <2>2
<1> HIDE DEF good
<1>11. Nat \subseteq good
  BY <1>9, <1>10, NumberInduction
<1>12. walk[n][from] = Behindmost(n, hits(from))
  <2>1. from \in 0 .. Len(h) /\ n \in good
    BY <1>1, <1>11
  <2> QED BY <2>1 DEF good
<1> QED BY <1>5, <1>12 DEF FindNth, Behindmost, hits

(* Counted from the right, it picks from those of iter_rfind.              *)
NthBack(w, h, needle, from) ==
  w = [left \in Nat |-> [pos \in Nat |->
         LET hit == RfindIn(h, needle, from, pos) IN
         IF hit = NotFound \/ left = 0 THEN hit
         ELSE IF hit <= from THEN NotFound ELSE w[left - 1][hit + Len(needle) - 1]]]

(* For n below 0 too.                                                      *)
LEMMA NthFromTheRight ==
  ASSUME NEW h, NEW needle, Searchable(h, needle), NEW to \in 0 .. Len(h), NEW from \in 0 .. to,
         NEW n \in Int, n < 0
  PROVE  TolkFindNth(h, needle, n, from, to) = FindNth(h, needle, n, from, to)
<1> DEFINE V == [Nat -> Int]
           find(p) == RfindIn(h, needle, from, p)
           over(p) == find(p) = NotFound \/ find(p) <= from
           hits(p) == IterRfind(h, needle, from, p)
           zero == [p \in Nat |-> find(p)]
           further(v) == [p \in Nat |-> IF over(p) THEN NotFound
                                        ELSE v[find(p) + Len(needle) - 1]]
           step == [v \in V |-> further(v)]
           walk == CHOOSE w : NthBack(w, h, needle, from)
           good == {k \in Nat : \A p \in 0 .. Len(h) : walk[k][p] = Behindmost(k, hits(p))}
<1>1. Len(h) \in Nat /\ Len(needle) \in Nat /\ Len(needle) >= 1 /\ to \in Nat /\ from \in Nat
  BY SearchableLengths
<1>2. ASSUME NEW p \in Nat
      PROVE  /\ find(p) = Rfind(h, needle, from, p) /\ find(p) \in Int
             /\ find(p) # NotFound => find(p) + Len(needle) - 1 \in Nat
  BY <1>1, RfindInIsRfind DEF NotFound
<1>3. ASSUME NEW p \in 0 .. Len(h)
      PROVE  /\ hits(p) = CASE find(p) = NotFound -> << >>
                            [] find(p) # NotFound /\ find(p) <= from -> <<find(p)>>
                            [] OTHER -> <<find(p)>> \o hits(find(p) + Len(needle) - 1)
             /\ hits(p) \in Seq(Int) /\ p \in Nat
             /\ ~over(p) => find(p) + Len(needle) - 1 \in 0 .. Len(h)
  <2>1. p \in Nat
    BY <1>1
  <2>2. find(p) = Rfind(h, needle, from, p)
    BY <1>2, <2>1
  <2>3. hits(p) \in Seq(Int)
    BY <1>1, IterRfindDescends DEF Descending
  <2>4. find(p) = NotFound \/ find(p) \in Occurrences(h, needle, from, p)
    BY <1>1, <2>2, RfindIsGreatest
  <2>5. ~over(p) => find(p) + Len(needle) - 1 \in 0 .. Len(h)
    <3> HIDE DEF find
    <3> QED BY <1>1, <2>4 DEF Occurrences
  <2> QED BY <1>1, <2>1, <2>2, <2>3, <2>5, IterRfindUnfolds, SMTT(30)
<1> HIDE DEF find, hits
<1>4. NthBack(walk, h, needle, from)
  <2>0. ASSUME NEW v \in V PROVE further(v) \in V
    <3>1. \A p \in Nat : ~over(p) => find(p) + Len(needle) - 1 \in Nat
      BY <1>2
    <3> HIDE DEF over
    <3> QED BY <3>1 DEF NotFound
  <2>1. zero \in V
    BY <1>2
  <2>2. step \in [V -> V] /\ \A v \in V : step[v] = further(v)
    <3> HIDE DEF further, V
    <3> QED BY <2>0
  <2> HIDE DEF step, further, V, zero
  <2>3. PICK w \in [Nat -> V] : Stepwise(w, zero, step)
    BY <2>1, <2>2, StepwiseExists
  <2>4. ASSUME NEW k \in Nat
        PROVE  w[k] = [p \in Nat |-> IF find(p) = NotFound \/ k = 0 THEN find(p)
                                     ELSE IF find(p) <= from THEN NotFound
                                     ELSE w[k - 1][find(p) + Len(needle) - 1]]
    <3>1. CASE k = 0
      BY <2>3, <3>1 DEF zero, Stepwise
    <3>2. CASE k # 0
      <4>1. k - 1 \in Nat /\ (k - 1) + 1 = k
        BY <3>2
      <4>2. w[k] = further(w[k - 1])
        BY <2>2, <2>3, <4>1 DEF Stepwise
      <4> QED BY <3>2, <4>2 DEF further
    <3> QED BY <3>1, <3>2
  <2>5. w = [k \in Nat |-> [p \in Nat |-> IF find(p) = NotFound \/ k = 0 THEN find(p)
                                          ELSE IF find(p) <= from THEN NotFound
                                          ELSE w[k - 1][find(p) + Len(needle) - 1]]]
    BY <2>3, <2>4
  <2>6. NthBack(w, h, needle, from)
    BY <2>5 DEF NthBack, find
  <2> QED BY <2>6
<1>5. TolkFindNth(h, needle, n, from, to) = walk[-n - 1][to]
  <2>1. Clamped(h, from, to) = <<from, to>> /\ ~(n >= 0)
    BY <1>1, WindowsAreKept
  <2> QED BY <2>1 DEF TolkFindNth, NthBack
<1> HIDE DEF walk, V, zero, further, step
<1>6. \A k, p \in Nat : walk[k][p] = IF find(p) = NotFound \/ k = 0 THEN find(p)
                                     ELSE IF find(p) <= from THEN NotFound
                                     ELSE walk[k - 1][find(p) + Len(needle) - 1]
  <2>1. ASSUME NEW k \in Nat PROVE walk[k] = [p \in Nat |-> LET hit == RfindIn(h, needle, from, p) IN
         IF hit = NotFound \/ k = 0 THEN hit
         ELSE IF hit <= from THEN NotFound ELSE walk[k - 1][hit + Len(needle) - 1]]
    BY <1>4, Zenon DEF NthBack
  <2> QED BY <2>1 DEF find
<1>7. ASSUME NEW p \in 0 .. Len(h), over(p), NEW k \in Nat
      PROVE  walk[k][p] = Behindmost(k, hits(p))
  <2>1. CASE find(p) = NotFound
    <3>1. hits(p) = << >> /\ walk[k][p] = NotFound
      BY <1>3, <1>6, <2>1
    <3> QED BY <3>1 DEF Behindmost
  <2>2. CASE find(p) # NotFound
    <3>1. hits(p) = <<find(p)>> /\ walk[k][p] = (IF k = 0 THEN find(p) ELSE NotFound)
      BY <1>3, <1>6, <1>7, <2>2
    <3> QED BY <3>1 DEF Behindmost
  <2> QED BY <2>1, <2>2
<1>8. ASSUME NEW p \in 0 .. Len(h), ~over(p)
      PROVE  /\ find(p) \in Int /\ find(p) + Len(needle) - 1 \in 0 .. Len(h)
             /\ hits(find(p) + Len(needle) - 1) \in Seq(Int)
             /\ hits(p) = <<find(p)>> \o hits(find(p) + Len(needle) - 1)
  BY <1>2, <1>3, <1>8
<1>9. 0 \in good
  <2>1. ASSUME NEW p \in 0 .. Len(h), ~over(p) PROVE walk[0][p] = Behindmost(0, hits(p))
    <3>1. walk[0][p] = find(p)
      BY <1>3, <1>6
    <3> DEFINE q == find(p) + Len(needle) - 1
    <3>2. find(p) \in Int /\ hits(q) \in Seq(Int) /\ hits(p) = <<find(p)>> \o hits(q)
      BY <1>8, <2>1
    <3> HIDE DEF q
    <3>3. Behindmost(0, hits(p)) = find(p)
      BY <3>2, FrontmostOfJoined
    <3> QED BY <3>1, <3>3
  <2> QED BY <1>7, <2>1
<1>10. ASSUME NEW k \in Nat, k \in good PROVE k + 1 \in good
  <2>1. ASSUME NEW p \in 0 .. Len(h), ~over(p)
        PROVE  walk[k + 1][p] = Behindmost(k + 1, hits(p))
    <3> DEFINE q == find(p) + Len(needle) - 1
    <3>1. k + 1 \in Nat /\ k + 1 # 0 /\ (k + 1) - 1 = k /\ p \in Nat
      BY <1>3
    <3>2. walk[k + 1][p] = walk[k][q]
      BY <1>6, <2>1, <3>1
    <3>3. q \in 0 .. Len(h) /\ find(p) \in Int /\ hits(q) \in Seq(Int) /\ hits(p) = <<find(p)>> \o hits(q)
      BY <1>8, <2>1
    <3> HIDE DEF q
    <3>4. Behindmost(k + 1, hits(p)) = Behindmost(k, hits(q))
      BY <3>3, BehindmostOfJoined
    <3> QED BY <1>10, <3>2, <3>3, <3>4
  <2>2. \A p \in 0 .. Len(h) : walk[k + 1][p] = Behindmost(k + 1, hits(p))
    BY <1>7, <2>1
  <2> QED BY <2>2
<1> HIDE DEF good
<1>11. Nat \subseteq good
  BY <1>9, <1>10, NumberInduction
<1>12. walk[-n - 1][to] = Behindmost(-n - 1, hits(to))
  <2>1. to \in 0 .. Len(h) /\ -n - 1 \in good
    BY <1>1, <1>11
  <2> QED BY <2>1 DEF good
<1>13. (-n - 1) + 1 = -n /\ ~(n >= 0)
  OBVIOUS
<1> QED BY <1>5, <1>12, <1>13 DEF FindNth, Behindmost, hits
-----------------------------------------------------------------------------
(* tolk_line_start, tolk_line_end and tolk_line_number answer what the     *)
(* Python functions do, one past the end of the text as well.              *)
LEMMA LineStartAgrees ==
  ASSUME NEW h, IsText(h), NEW o \in 0 .. Len(h) + 1
  PROVE  TolkLineStart(h, o) = LineStart(h, o) /\ LineStart(h, o) \in 0 .. Len(h)
<1>1. Len(h) \in Nat /\ o \in Nat /\ Searchable(h, Newline) /\ 0 \in Nat
  BY TextsHaveNewlines
<1>2. CASE o = 0
  <2>1. LineStart(h, 0) \in 0 .. 0
    BY <1>1, LineStartOf
  <2> QED BY <1>1, <1>2, <2>1 DEF TolkLineStart
<1>3. CASE o > 0 /\ o <= Len(h)
  <2>1. Min({o, Len(h)}) = o
    BY <1>1, <1>3 DEF Min
  <2>2. RfindIn(h, Newline, 0, o) = Rfind(h, Newline, 0, o)
    BY <1>1, RfindInIsRfind
  <2>3. LineStart(h, o) \in 0 .. o
    BY <1>1, <1>3, LineStartOf
  <2> QED BY <1>1, <1>3, <2>1, <2>2, <2>3 DEF TolkLineStart, LineStart
<1>4. CASE o = Len(h) + 1
  <2>1. Min({o, Len(h)}) = Len(h) /\ ~(o <= 0)
    BY <1>1, <1>4 DEF Min
  <2>2. RfindIn(h, Newline, 0, Len(h)) = Rfind(h, Newline, 0, Len(h))
    BY <1>1, RfindInIsRfind
  <2>3. Rfind(h, Newline, 0, o) = Rfind(h, Newline, 0, Len(h))
    BY <1>1, <1>4, RfindUpToTheEnd
  <2>4. LineStart(h, Len(h)) \in 0 .. Len(h)
    BY <1>1, LineStartOf
  <2> QED BY <2>1, <2>2, <2>3, <2>4 DEF TolkLineStart, LineStart
<1> QED BY <1>1, <1>2, <1>3, <1>4

(* The C line_end is that of the byte primitives.                          *)
LEMMA LineEndAgrees ==
  ASSUME NEW h, IsText(h), NEW o \in 0 .. Len(h) + 1
  PROVE  TolkLineEnd(h, o) = LineEnd(h, o)
<1>1. Len(h) \in Nat /\ o \in Nat /\ Searchable(h, Newline) /\ Len(h) \in 0 .. Len(h)
  BY TextsHaveNewlines
<1>2. Max({o, 0}) = o
  BY <1>1 DEF Max
<1>3. FindIn(h, Newline, o, Len(h)) = Find(h, Newline, o, Len(h))
  BY <1>1, FindInIsFind
<1> QED BY <1>2, <1>3 DEF TolkLineEnd, LineEnd

(* The C line_number is that of the byte primitives.                       *)
LEMMA LineNumberAgrees ==
  ASSUME NEW h, IsText(h), NEW o \in 0 .. Len(h) + 1
  PROVE  TolkLineNumber(h, o) = LineNumber(h, o)
<1>1. Searchable(h, Newline) /\ LineStart(h, o) \in 0 .. Len(h) /\ 0 \in 0 .. LineStart(h, o)
  BY TextsHaveNewlines, LineStartAgrees
<1>2. TolkCount(h, Newline, 0, LineStart(h, o)) = Count(h, Newline, 0, LineStart(h, o))
  BY <1>1, CountAgrees
<1> QED BY <1>2, LineStartAgrees DEF TolkLineNumber, LineNumber

-----------------------------------------------------------------------------
(* tolk_advance_lines takes the lines from the last to the first, and      *)
(* comes to where advance_lines does.                                      *)
ForwardLines(w, h) ==
  w = [left \in Nat |-> [pos \in Nat |->
         LET nl == FindIn(h, Newline, pos, Len(h)) IN
         IF left = 0 THEN pos ELSE IF nl = NotFound THEN Len(h) ELSE w[left - 1][nl + 1]]]
BackLines(w, h) ==
  w = [left \in Nat |-> [pos \in Nat |->
         IF left = 0 \/ pos = 0 THEN pos ELSE w[left - 1][TolkLineStart(h, pos - 1)]]]

(* The walk of tolk_advance_lines towards the end is defined.              *)
LEMMA ForwardLinesExist ==
  ASSUME NEW h, IsText(h)
  PROVE  \E w : ForwardLines(w, h)
<1> DEFINE V == [Nat -> Nat]
           find(p) == FindIn(h, Newline, p, Len(h))
           further(v) == [p \in Nat |-> IF find(p) = NotFound THEN Len(h) ELSE v[find(p) + 1]]
           zero == [p \in Nat |-> p]
           step == [v \in V |-> further(v)]
<1>1. Len(h) \in Nat /\ Len(h) \in 0 .. Len(h) /\ Searchable(h, Newline)
  BY TextsHaveNewlines
<1>2. ASSUME NEW p \in Nat PROVE find(p) # NotFound => find(p) + 1 \in Nat
  <2>1. find(p) = Find(h, Newline, p, Len(h))
    BY <1>1, FindInIsFind
  <2>2. find(p) = NotFound \/ find(p) \in Newlines(h, p, Len(h))
    BY <1>1, <2>1, FindNewline
  <2> HIDE DEF find
  <2> QED BY <1>1, <2>2 DEF Newlines
<1> HIDE DEF find
<1>3. ASSUME NEW v \in V PROVE further(v) \in V
  BY <1>1, <1>2
<1>4. zero \in V
  OBVIOUS
<1>5. step \in [V -> V] /\ \A v \in V : step[v] = further(v)
  <2> HIDE DEF further, V
  <2> QED BY <1>3
<1> HIDE DEF step, further, V, zero
<1>6. PICK w \in [Nat -> V] : Stepwise(w, zero, step)
  BY <1>4, <1>5, StepwiseExists
<1>7. ASSUME NEW k \in Nat
      PROVE  w[k] = [p \in Nat |-> IF k = 0 THEN p ELSE IF find(p) = NotFound THEN Len(h)
                                   ELSE w[k - 1][find(p) + 1]]
  <2>1. CASE k = 0
    BY <1>6, <2>1 DEF zero, Stepwise
  <2>2. CASE k # 0
    <3>1. k - 1 \in Nat /\ (k - 1) + 1 = k
      BY <2>2
    <3>2. w[k] = further(w[k - 1])
      BY <1>5, <1>6, <3>1 DEF Stepwise
    <3> QED BY <2>2, <3>2 DEF further
  <2> QED BY <2>1, <2>2
<1>8. w = [k \in Nat |-> [p \in Nat |-> IF k = 0 THEN p ELSE IF find(p) = NotFound THEN Len(h)
                                         ELSE w[k - 1][find(p) + 1]]]
  BY <1>6, <1>7
<1>9. ForwardLines(w, h)
  BY <1>8 DEF ForwardLines, find
<1> QED BY <1>9

(* The walk of tolk_advance_lines towards the start is defined.            *)
LEMMA BackLinesExist ==
  ASSUME NEW h, IsText(h)
  PROVE  \E w : BackLines(w, h)
<1> DEFINE V == [Nat -> Nat]
           line(p) == TolkLineStart(h, p - 1)
           further(v) == [p \in Nat |-> IF p = 0 THEN p ELSE v[line(p)]]
           zero == [p \in Nat |-> p]
           step == [v \in V |-> further(v)]
<1>1. Len(h) \in Nat /\ Searchable(h, Newline) /\ 0 \in Nat
  BY TextsHaveNewlines
<1>2. ASSUME NEW p \in Nat PROVE line(p) \in Nat
  <2> DEFINE to == Min({p - 1, Len(h)})
             hit == RfindIn(h, Newline, 0, to)
  <2>1. p - 1 > 0 => to \in Nat
    BY <1>1 DEF Min
  <2>2. p - 1 > 0 => hit = NotFound \/ hit \in 0 .. to
    BY <1>1, <2>1, RfindInIsRfind
  <2>3. line(p) = IF p - 1 <= 0 THEN 0 ELSE hit + 1
    BY DEF TolkLineStart
  <2> HIDE DEF line, hit, to
  <2>4. p - 1 > 0 => hit + 1 \in Nat
    BY <2>1, <2>2 DEF NotFound
  <2> QED BY <2>3, <2>4
<1> HIDE DEF line
<1>3. ASSUME NEW v \in V PROVE further(v) \in V
  BY <1>2
<1>4. zero \in V
  OBVIOUS
<1>5. step \in [V -> V] /\ \A v \in V : step[v] = further(v)
  <2> HIDE DEF further, V
  <2> QED BY <1>3
<1> HIDE DEF step, further, V, zero
<1>6. PICK w \in [Nat -> V] : Stepwise(w, zero, step)
  BY <1>4, <1>5, StepwiseExists
<1>7. ASSUME NEW k \in Nat
      PROVE  w[k] = [p \in Nat |-> IF k = 0 \/ p = 0 THEN p ELSE w[k - 1][line(p)]]
  <2>1. CASE k = 0
    BY <1>6, <2>1 DEF zero, Stepwise
  <2>2. CASE k # 0
    <3>1. k - 1 \in Nat /\ (k - 1) + 1 = k
      BY <2>2
    <3>2. w[k] = further(w[k - 1])
      BY <1>5, <1>6, <3>1 DEF Stepwise
    <3> QED BY <2>2, <3>2 DEF further
  <2> QED BY <2>1, <2>2
<1>8. w = [k \in Nat |-> [p \in Nat |-> IF k = 0 \/ p = 0 THEN p ELSE w[k - 1][line(p)]]]
  BY <1>6, <1>7
<1>9. BackLines(w, h)
  BY <1>8 DEF BackLines, line
<1> QED BY <1>9

(* Both advance_lines lead to the same line, whichever way they count.     *)
LEMMA AdvanceAgrees ==
  ASSUME NEW h, IsText(h), NEW o \in 0 .. Len(h) + 1, NEW n \in Int
  PROVE  TolkAdvanceLines(h, o, n) = AdvanceLines(h, o, n)
<1> DEFINE D == 0 .. Len(h)
           start == LineStart(h, o)
           down == CHOOSE w : ForwardSteps(w, h, o)
           up == CHOOSE w : BackSteps(w, h, o)
           forward == CHOOSE w : ForwardLines(w, h)
           back == CHOOSE w : BackLines(w, h)
           behind == [p \in D |-> Behind(h, p)]
           above == [p \in D |-> Above(h, p)]
<1>1. Len(h) \in Nat /\ Len(h) \in D /\ 0 \in D /\ Searchable(h, Newline) /\ \A p \in D : p \in Nat
  BY TextsHaveNewlines
<1>2. TolkLineStart(h, o) = start /\ start \in D
  BY LineStartAgrees
<1>3. ForwardSteps(down, h, o) /\ BackSteps(up, h, o)
  BY <1>2, StepsExist
<1>4. ForwardLines(forward, h) /\ BackLines(back, h)
  BY ForwardLinesExist, BackLinesExist
<1>5. AdvanceLines(h, o, n) = IF n > 0 THEN down[n] ELSE up[-n]
  BY DEF AdvanceLines, ForwardSteps, BackSteps
<1>6. TolkAdvanceLines(h, o, n) = (IF n > 0 THEN forward[n] ELSE back[-n])[start]
  BY <1>2 DEF TolkAdvanceLines, ForwardLines, BackLines
<1>7. behind \in [D -> D] /\ above \in [D -> D]
  BY BehindAndAbove
<1>8. \A p \in D : behind[p] = Behind(h, p) /\ above[p] = Above(h, p)
  OBVIOUS
<1> HIDE DEF D, start, down, up, forward, back, behind, above
<1>9. /\ down[0] = start /\ \A k \in Nat : down[k + 1] = Behind(h, down[k])
      /\ up[0] = start /\ \A k \in Nat : up[k + 1] = Above(h, up[k])
  <2>1. \A k \in Nat : k + 1 \in Nat /\ k + 1 # 0 /\ (k + 1) - 1 = k
    OBVIOUS
  <2> QED BY <1>3, <2>1 DEF ForwardSteps, BackSteps, Behind, Above, start
<1>10. \A k \in Nat : down[k] \in D /\ up[k] \in D
  <2> DEFINE good == {k \in Nat : down[k] \in D /\ up[k] \in D}
  <2>1. 0 \in good
    BY <1>2, <1>9
  <2>2. ASSUME NEW k \in Nat, k \in good PROVE k + 1 \in good
    <3>1. \A p \in D : Behind(h, p) \in D /\ Above(h, p) \in D
      BY BehindAndAbove DEF D
    <3>2. k + 1 \in Nat /\ down[k] \in D /\ up[k] \in D
      BY <2>2
    <3> QED BY <1>9, <3>1, <3>2
  <2> HIDE DEF good
  <2>3. Nat \subseteq good
    BY <2>1, <2>2, NumberInduction
  <2> QED BY <2>3 DEF good
<1>11. \A k, p \in Nat :
         /\ forward[k][p] = LET nl == FindIn(h, Newline, p, Len(h)) IN
              IF k = 0 THEN p ELSE IF nl = NotFound THEN Len(h) ELSE forward[k - 1][nl + 1]
         /\ back[k][p] = IF k = 0 \/ p = 0 THEN p ELSE back[k - 1][TolkLineStart(h, p - 1)]
  <2>1. ASSUME NEW k \in Nat
        PROVE  forward[k] = [p \in Nat |-> LET nl == FindIn(h, Newline, p, Len(h)) IN
                 IF k = 0 THEN p ELSE IF nl = NotFound THEN Len(h) ELSE forward[k - 1][nl + 1]]
    BY <1>4, Zenon DEF ForwardLines
  <2>2. ASSUME NEW k \in Nat
        PROVE  back[k] = [p \in Nat |->
                 IF k = 0 \/ p = 0 THEN p ELSE back[k - 1][TolkLineStart(h, p - 1)]]
    BY <1>4, Zenon DEF BackLines
  <2>3. ASSUME NEW k \in Nat, NEW p \in Nat
        PROVE  forward[k][p] = LET nl == FindIn(h, Newline, p, Len(h)) IN
                 IF k = 0 THEN p ELSE IF nl = NotFound THEN Len(h) ELSE forward[k - 1][nl + 1]
    BY <2>1, ZenonT(60)
  <2>4. ASSUME NEW k \in Nat, NEW p \in Nat
        PROVE  back[k][p] = IF k = 0 \/ p = 0 THEN p ELSE back[k - 1][TolkLineStart(h, p - 1)]
    BY <2>2, ZenonT(60)
  <2> QED BY <2>3, <2>4
<1>12. (\A p \in D : forward[0][p] = p) /\ (\A p \in D : back[0][p] = p)
  BY <1>1, <1>11
<1>13. ASSUME NEW k \in Nat, NEW p \in D
       PROVE  forward[k + 1][p] = forward[k][behind[p]]
  <2>1. k + 1 \in Nat /\ k + 1 # 0 /\ (k + 1) - 1 = k
    OBVIOUS
  <2> DEFINE nl == Find(h, Newline, p, Len(h))
  <2>2. FindIn(h, Newline, p, Len(h)) = nl
    BY <1>1, FindInIsFind DEF D
  <2>3. forward[k + 1][p] = IF nl = NotFound THEN Len(h) ELSE forward[k][nl + 1]
    <3>1. k + 1 \in Nat /\ p \in Nat
      BY <1>1
    <3>2. forward[k + 1][p] = LET hit == FindIn(h, Newline, p, Len(h)) IN
            IF k + 1 = 0 THEN p ELSE IF hit = NotFound THEN Len(h) ELSE forward[(k + 1) - 1][hit + 1]
      BY <1>11, <3>1, Zenon
    <3> HIDE DEF nl
    <3> QED BY <2>1, <2>2, <3>2
  <2>4. behind[p] = IF nl = NotFound THEN Len(h) ELSE nl + 1
    BY <1>8 DEF Behind
  <2>5. forward[k][Len(h)] = Len(h)
    <3>1. FindIn(h, Newline, Len(h), Len(h)) = Find(h, Newline, Len(h), Len(h))
      BY <1>1, FindInIsFind DEF D
    <3>2. Newlines(h, Len(h), Len(h)) = {}
      BY <1>1 DEF Newlines
    <3>3. Find(h, Newline, Len(h), Len(h)) = NotFound
      BY <1>1, <3>2, FindNewline DEF D
    <3> QED BY <1>1, <1>11, <3>1, <3>3
  <2> HIDE DEF nl
  <2> QED BY <2>3, <2>4, <2>5
<1>14. ASSUME NEW k \in Nat, NEW p \in D
       PROVE  back[k + 1][p] = back[k][above[p]]
  <2>1. k + 1 \in Nat /\ k + 1 # 0 /\ (k + 1) - 1 = k
    OBVIOUS
  <2>2. CASE p = 0
    BY <1>1, <1>8, <1>11, <2>1, <2>2 DEF Above
  <2>3. CASE p # 0
    <3>1. p - 1 \in 0 .. Len(h) + 1
      BY <1>1, <2>3 DEF D
    <3>2. TolkLineStart(h, p - 1) = LineStart(h, p - 1)
      BY <3>1, LineStartAgrees
    <3> QED BY <1>1, <1>8, <1>11, <2>1, <2>3, <3>2 DEF Above
  <2> QED BY <2>2, <2>3
<1>15. /\ down[0] \in D /\ \A k \in Nat : down[k + 1] = behind[down[k]]
       /\ up[0] \in D /\ \A k \in Nat : up[k + 1] = above[up[k]]
  BY <1>2, <1>8, <1>9, <1>10
<1>16. \A k \in Nat : forward[k][start] = down[k]
  <2>1. FromTheEnd(forward, D, behind)
    BY <1>12, <1>13 DEF FromTheEnd
  <2>2. Stepwise(down, start, behind)
    BY <1>9, <1>15 DEF Stepwise
  <2> QED BY <1>2, <1>7, <2>1, <2>2, FrontIsBack
<1>17. \A k \in Nat : back[k][start] = up[k]
  <2>1. FromTheEnd(back, D, above)
    BY <1>12, <1>14 DEF FromTheEnd
  <2>2. Stepwise(up, start, above)
    BY <1>9, <1>15 DEF Stepwise
  <2> QED BY <1>2, <1>7, <2>1, <2>2, FrontIsBack
<1>18. CASE n > 0
  <2>1. n \in Nat
    BY <1>18
  <2> QED BY <1>5, <1>6, <1>16, <1>18, <2>1
<1>19. CASE ~(n > 0)
  <2>1. -n \in Nat
    BY <1>19
  <2> QED BY <1>5, <1>6, <1>17, <1>19, <2>1
<1> QED BY <1>18, <1>19

-----------------------------------------------------------------------------
(* Every primitive of the C engine answers as the Python one does, for all *)
(* needles, windows and counts of the model.                               *)
LEMMA CompiledAnswers ==
  ASSUME TextInv
  PROVE  BackendsAgree
<1> SUFFICES ASSUME Unread PROVE BackendsAgree
  BY DEF BackendsAgree
<1>1. ASSUME NEW n \in Needles, NEW r \in Window
      PROVE  /\ TolkFind(text, n, r[1], r[2]) = Find(text, n, r[1], r[2])
             /\ TolkRfind(text, n, r[1], r[2]) = Rfind(text, n, r[1], r[2])
             /\ TolkCount(text, n, r[1], r[2]) = Count(text, n, r[1], r[2])
             /\ FindAll(text, n, r[1], r[2]) = IterFind(text, n, r[1], r[2])
             /\ \A k \in -3 .. 2 :
                  TolkFindNth(text, n, k, r[1], r[2]) = FindNth(text, n, k, r[1], r[2])
  <2>1. Searchable(text, n) /\ r[2] \in 0 .. Len(text) /\ r[1] \in 0 .. r[2]
    <3>1. r[1] \in 0 .. Len(text) /\ r[2] \in 0 .. Len(text) /\ Len(text) \in Nat /\ Searchable(text, n)
      BY WindowsAreSearchable
    <3>2. r[1] <= r[2]
      BY DEF Window
    <3> QED BY <3>1, <3>2
  <2>2. ASSUME NEW k \in -3 .. 2
        PROVE  TolkFindNth(text, n, k, r[1], r[2]) = FindNth(text, n, k, r[1], r[2])
    <3>1. k \in Int /\ (k \in Nat \/ k < 0)
      OBVIOUS
    <3> QED BY <2>1, <3>1, NthFromTheLeft, NthFromTheRight
  <2> QED BY <2>1, <2>2, OneHitAgrees, CountAgrees, FindAllAgrees
<1>2. ASSUME NEW o \in 0 .. Len(text) + 1
      PROVE  /\ TolkLineStart(text, o) = LineStart(text, o)
             /\ TolkLineEnd(text, o) = LineEnd(text, o)
             /\ TolkLineNumber(text, o) = LineNumber(text, o)
             /\ \A k \in -2 .. 2 : TolkAdvanceLines(text, o, k) = AdvanceLines(text, o, k)
  <2>1. IsText(text)
    BY DEF TextInv, IsText
  <2>2. \A k \in -2 .. 2 : k \in Int
    OBVIOUS
  <2> QED BY <2>1, <2>2, LineStartAgrees, LineEndAgrees, LineNumberAgrees, AdvanceAgrees
<1> QED BY <1>1, <1>2 DEF BackendsAgree

(* Whatever was written, with whatever batch: the compiled functions       *)
(* answer what the Python ones do, for every window and offset.            *)
THEOREM BackendsAlwaysAgree == Spec => []BackendsAgree
<1>1. TextInv => BackendsAgree
  BY CompiledAnswers
<1> QED BY <1>1, TextInvariant, PTL
=============================================================================
