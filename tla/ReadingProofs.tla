--------------------------- MODULE ReadingProofs ---------------------------
(***************************************************************************)
(* Proofs about what a spec reads out of a text, and about what cat, scan, *)
(* head and tail print of it.                                              *)
(***************************************************************************)
EXTENDS Reading, TextProofs

(* A quantity that is loaded is one of a body that the loader found valid. *)
LEMMA LoadedIsValid ==
  ASSUME TextInv, ~Unread
  PROVE  \E body \in Documents : ValidQuantity(Toml("table", body)) /\ q = QuantityOf(body)
<1>1. PICK body \in Documents :
        SpecOf(body).error = "none" /\ loaded = <<SpecOf(body).quantities.q>>
  BY DEF TextInv
<1> DEFINE quantity == [q |-> Toml("table", body)]
           doc == [format |-> Toml("string", <<"f">>), quantity |-> Toml("table", quantity)]
<1>2. SpecOf(body) = Loads(doc)
  BY DEF SpecOf
<1>3. Valid(doc)
  BY <1>1, <1>2 DEF Loads, SpecError
<1>4. DOMAIN doc = {"format", "quantity"} /\ doc["quantity"] = Toml("table", quantity)
  OBVIOUS
<1>5. ValidQuantity(Toml("table", body))
  <2>1. IsTableOf(doc["quantity"], ValidQuantity)
    BY <1>3, <1>4 DEF Valid, Has
  <2>2. "q" \in DOMAIN doc["quantity"].v /\ doc["quantity"].v["q"] = Toml("table", body)
    BY <1>4 DEF Toml
  <2> QED BY <2>1, <2>2 DEF IsTableOf
<1>6. Sub(doc, "quantity") = quantity
  BY <1>4 DEF Sub, Value, Toml
<1>7. SpecOf(body).quantities = [n \in DOMAIN quantity |-> QuantityOf(quantity[n].v)]
  BY <1>2, <1>3, <1>6 DEF Loads
<1>8. SpecOf(body).quantities.q = QuantityOf(body)
  BY <1>7 DEF Toml
<1> QED BY <1>1, <1>5, <1>8 DEF q

-----------------------------------------------------------------------------
(* Where the lines start.                                                  *)
LEMMA RestOfLines ==
  ASSUME NEW h, IsText(h), NEW p \in 0 .. Len(h) - 1, StartsLine(h, p)
  PROVE  \E rest \in Seq(Nat \X Nat) :
           /\ LineSpans(h, p, Len(h)) = <<<<p, LineEnd(h, p)>>>> \o rest
           /\ EndsAt(h, p) + 1 >= Len(h) => rest = << >>
           /\ EndsAt(h, p) + 1 < Len(h) =>
                /\ EndsAt(h, p) + 1 \in p + 1 .. Len(h) - 1
                /\ StartsLine(h, EndsAt(h, p) + 1)
                /\ rest = LineSpans(h, EndsAt(h, p) + 1, Len(h))
<1> DEFINE over == EndsAt(h, p)
           rest == IF over + 1 >= Len(h) THEN << >> ELSE LineSpans(h, over + 1, Len(h))
<1>1. /\ Len(h) \in Nat /\ p \in Nat /\ Len(h) \in 0 .. Len(h) /\ h # << >>
      /\ p \in 0 .. Len(h) /\ ~(p > Len(h))
  BY TextsHaveNewlines
<1>2. over \in p .. Len(h) /\ over \in Nat /\ (over < Len(h) => Byte(h, over) = "\n")
  BY <1>1, LineEndOf
<1>3. LineSpans(h, p, Len(h)) = <<<<p, LineEnd(h, p)>>>> \o rest
  BY <1>1, LineSpansUnfold
<1>4. over + 1 < Len(h) =>
        /\ over + 1 \in p + 1 .. Len(h) - 1 /\ over + 1 \in 0 .. Len(h) - 1
        /\ StartsLine(h, over + 1)
  <2> HIDE DEF over
  <2>1. over + 1 - 1 = over
    BY <1>2
  <2> QED BY <1>1, <1>2, <2>1 DEF StartsLine
<1>5. over + 1 < Len(h) => ~(over + 1 >= Len(h))
  BY <1>1, <1>2
<1> HIDE DEF over
<1>6. rest \in Seq(Nat \X Nat)
  <2>1. CASE over + 1 >= Len(h)
    BY <2>1
  <2>2. CASE over + 1 < Len(h)
    BY <1>1, <1>4, <1>5, <2>2, LinesFromCover DEF LinesCover
  <2> QED BY <1>1, <1>2, <2>1, <2>2
<1> QED BY <1>3, <1>4, <1>5, <1>6 DEF over

(* The lines from p on are those of the places where a line starts, each   *)
(* up to its end.                                                          *)
StartsAre(h, p) ==
  LET lines == LineSpans(h, p, Len(h)) IN
  /\ \A i \in DOMAIN lines : \E s \in p .. Len(h) - 1 :
        StartsLine(h, s) /\ lines[i] = <<s, LineEnd(h, s)>>
  /\ \A s \in p .. Len(h) - 1 : StartsLine(h, s) => \E i \in DOMAIN lines : lines[i][1] = s

(* The first line, and what is so of the others, is so of all.             *)
LEMMA StartsStep ==
  ASSUME NEW h, IsText(h), NEW p \in 0 .. Len(h) - 1, StartsLine(h, p),
         EndsAt(h, p) + 1 < Len(h) => StartsAre(h, EndsAt(h, p) + 1)
  PROVE  StartsAre(h, p)
<1> DEFINE over == EndsAt(h, p)
           line == <<p, LineEnd(h, p)>>
           lines == LineSpans(h, p, Len(h))
<1>1. Len(h) \in Nat /\ p \in Nat /\ p \in p .. Len(h) - 1 /\ p \in 0 .. Len(h)
  BY TextsHaveNewlines
<1>2. over \in p .. Len(h) /\ over \in Nat /\ Newlines(h, p, over) = {} /\ LineEnd(h, p) \in Nat
  <2>1. over \in p .. Len(h) /\ Newlines(h, p, over) = {} /\ LineEnd(h, p) \in p .. Len(h)
    BY <1>1, LineEndOf
  <2> HIDE DEF over
  <2> QED BY <1>1, <2>1
<1>3. PICK rest \in Seq(Nat \X Nat) :
        /\ lines = <<line>> \o rest
        /\ over + 1 >= Len(h) => rest = << >>
        /\ over + 1 < Len(h) =>
             /\ over + 1 \in p + 1 .. Len(h) - 1
             /\ rest = LineSpans(h, over + 1, Len(h))
  BY RestOfLines
<1>4. over + 1 < Len(h) =>
        /\ \A i \in DOMAIN rest : \E s \in over + 1 .. Len(h) - 1 :
              StartsLine(h, s) /\ rest[i] = <<s, LineEnd(h, s)>>
        /\ \A s \in over + 1 .. Len(h) - 1 : StartsLine(h, s) => \E i \in DOMAIN rest : rest[i][1] = s
  BY <1>3 DEF StartsAre
<1>5. line \in Nat \X Nat /\ line[1] = p
  BY <1>1, <1>2
<1> HIDE DEF over, line, lines
<1>6. /\ DOMAIN lines = 1 .. Len(rest) + 1 /\ Len(rest) \in Nat /\ lines[1] = line
      /\ \A i \in DOMAIN rest : i + 1 \in DOMAIN lines /\ lines[i + 1] = rest[i]
      /\ \A i \in DOMAIN lines : i # 1 => i - 1 \in DOMAIN rest /\ lines[i] = rest[i - 1]
  BY <1>3, <1>5, BehindAnItem, SMTT(30)
<1>7. ASSUME NEW i \in DOMAIN lines
      PROVE  \E s \in p .. Len(h) - 1 : StartsLine(h, s) /\ lines[i] = <<s, LineEnd(h, s)>>
  <2>1. CASE i = 1
    BY <1>1, <1>6, <2>1 DEF line
  <2>2. CASE i # 1
    <3>1. i - 1 \in DOMAIN rest /\ lines[i] = rest[i - 1]
      BY <1>6, <2>2
    <3>2. over + 1 < Len(h)
      <4>1. rest # << >>
        BY <3>1
      <4> QED BY <1>1, <1>2, <1>3, <4>1
    <3>3. \A s \in over + 1 .. Len(h) - 1 : s \in p .. Len(h) - 1
      BY <1>1, <1>2
    <3> QED BY <1>4, <3>1, <3>2, <3>3
  <2> QED BY <2>1, <2>2
<1>8. ASSUME NEW s \in p .. Len(h) - 1, StartsLine(h, s)
      PROVE  \E i \in DOMAIN lines : lines[i][1] = s
  <2>1. CASE s = p
    <3>1. 1 \in DOMAIN lines
      BY <1>6
    <3> QED BY <1>5, <1>6, <2>1, <3>1
  <2>2. CASE s # p
    <3>1. s - 1 \in p .. Len(h) - 1 /\ Byte(h, s - 1) = "\n"
      BY <1>1, <1>8, <2>2 DEF StartsLine
    <3>2. ~(s - 1 < over)
      <4>1. s - 1 < over => s - 1 \in p .. over - 1
        BY <1>1, <1>2, <3>1
      <4> QED BY <1>2, <3>1, <4>1 DEF Newlines
    <3>3. s \in over + 1 .. Len(h) - 1 /\ over + 1 < Len(h)
      <4>1. over <= s - 1 /\ s \in Int
        BY <1>1, <1>2, <3>1, <3>2
      <4>2. over + 1 <= s /\ s <= Len(h) - 1
        BY <1>1, <1>2, <4>1
      <4> QED BY <1>1, <1>2, <4>1, <4>2
    <3> QED BY <1>4, <1>6, <1>8, <3>3
  <2> QED BY <2>1, <2>2
<1> QED BY <1>7, <1>8 DEF StartsAre, lines

(* The lines from every start of a line on start where StartsAre says.     *)
LEMMA LinesStart ==
  ASSUME NEW h, IsText(h)
  PROVE  \A p \in 0 .. Len(h) - 1 : StartsLine(h, p) => StartsAre(h, p)
<1> DEFINE D == 0 .. Len(h) - 1
           rank == [p \in D |-> Len(h) - p]
           good == {p \in D : StartsLine(h, p) => StartsAre(h, p)}
<1>1. Len(h) \in Nat
  BY TextsHaveNewlines
<1>2. ASSUME NEW p \in D, \A r \in D : rank[r] < rank[p] => r \in good
      PROVE  p \in good
  <2> SUFFICES ASSUME StartsLine(h, p) PROVE StartsAre(h, p)
    OBVIOUS
  <2> DEFINE over == EndsAt(h, p)
  <2>1. over + 1 < Len(h) => over + 1 \in p + 1 .. Len(h) - 1 /\ StartsLine(h, over + 1)
    BY RestOfLines
  <2> HIDE DEF over
  <2>2. ASSUME over + 1 < Len(h) PROVE StartsAre(h, over + 1)
    <3>1. over + 1 \in D /\ rank[over + 1] < rank[p]
      BY <1>1, <2>1, <2>2
    <3> QED BY <1>2, <2>1, <2>2, <3>1
  <2> QED BY <2>2, StartsStep DEF over
<1>3. rank \in [D -> Nat]
  BY <1>1
<1> HIDE DEF good, rank, D
<1>4. D \subseteq good
  BY <1>2, <1>3, RankInduction
<1> QED BY <1>4 DEF good, D

(* What numbers the model takes the lesser or the greater of.              *)
LEMMA OfTwo ==
  ASSUME NEW a \in Int, NEW b \in Int
  PROVE  /\ Min({a, b}) = IF a <= b THEN a ELSE b
         /\ Max({a, b}) = IF a >= b THEN a ELSE b
<1>1. Min({a, b}) = IF a <= b THEN a ELSE b
  <2> DEFINE least == IF a <= b THEN a ELSE b
  <2>1. least \in {a, b} /\ \A y \in {a, b} : least <= y
    OBVIOUS
  <2>2. \A x \in {a, b} : (\A y \in {a, b} : x <= y) => x = least
    OBVIOUS
  <2> HIDE DEF least
  <2> QED BY <2>1, <2>2 DEF Min, least
<1>2. Max({a, b}) = IF a >= b THEN a ELSE b
  <2> DEFINE most == IF a >= b THEN a ELSE b
  <2>1. most \in {a, b} /\ \A y \in {a, b} : most >= y
    OBVIOUS
  <2>2. \A x \in {a, b} : (\A y \in {a, b} : x >= y) => x = most
    OBVIOUS
  <2> HIDE DEF most
  <2> QED BY <2>1, <2>2 DEF Max, most
<1> QED BY <1>1, <1>2

(* Head and tail at one cut: the line the cut is in starts at the one, and *)
(* ends at the other.                                                      *)
LEMMA AroundCut ==
  ASSUME NEW h, IsText(h), NEW cut \in 1 .. Len(h) - 1
  PROVE  LET head == LineStart(h, cut)
             tail == Behind(h, head)
         IN  /\ HeadSpan(h, cut) = <<0, head>>
             /\ TailSpan(h, Len(h) - cut) = <<tail, Len(h)>>
             /\ head \in 0 .. cut /\ tail \in cut .. Len(h)
             /\ head < Len(h) /\ StartsLine(h, head)
             /\ tail # Len(h) => StartsLine(h, tail)
             /\ \A s \in head + 1 .. tail - 1 : ~StartsLine(h, s)
<1> DEFINE head == LineStart(h, cut)
           nl == Find(h, Newline, head, Len(h))
           tail == Behind(h, head)
<1>1. Len(h) \in Nat /\ cut \in Nat /\ cut \in 0 .. Len(h) /\ Len(h) \in 0 .. Len(h)
  BY TextsHaveNewlines
<1>2. head \in 0 .. cut /\ StartsLine(h, head) /\ Newlines(h, head, cut) = {}
  BY <1>1, LineStartOf
<1>3. HeadSpan(h, cut) = <<0, head>>
  <2>1. Min({cut, Len(h)}) = cut /\ cut < Len(h)
    BY <1>1, OfTwo
  <2> QED BY <2>1 DEF HeadSpan
<1>4. TailSpan(h, Len(h) - cut) = <<tail, Len(h)>>
  <2>1. Len(h) - (Len(h) - cut) = cut /\ cut > 0 /\ 0 \in Int
    BY <1>1
  <2>2. Max({0, cut}) = cut
    BY <1>1, <2>1, OfTwo
  <2>3. AdvanceLines(h, cut, 1) = tail
    BY <1>1, AdvanceByOneAtMost
  <2> QED BY <2>1, <2>2, <2>3 DEF TailSpan
<1>5. tail = IF nl = NotFound THEN Len(h) ELSE nl + 1
  BY DEF Behind
<1>6. head \in Nat /\ head < Len(h)
  BY <1>1, <1>2
<1>7. /\ nl = NotFound <=> Newlines(h, head, Len(h)) = {}
      /\ nl # NotFound => /\ nl \in Newlines(h, head, Len(h))
                          /\ \A i \in Newlines(h, head, Len(h)) : nl <= i
  BY <1>1, <1>6, FindNewline
<1> HIDE DEF head, nl, tail
<1>8. nl # NotFound => nl \in cut .. Len(h) - 1 /\ Byte(h, nl) = "\n" /\ nl + 1 - 1 = nl
  <2>1. nl # NotFound => nl \in head .. Len(h) - 1 /\ Byte(h, nl) = "\n"
    BY <1>7 DEF Newlines
  <2>2. nl # NotFound => ~(nl < cut)
    BY <1>1, <1>2, <1>6, <2>1 DEF Newlines
  <2> QED BY <1>1, <1>6, <2>1, <2>2
<1>9. tail \in cut .. Len(h) /\ (tail # Len(h) => StartsLine(h, tail))
  BY <1>1, <1>5, <1>8 DEF StartsLine
<1>10. ASSUME NEW s \in head + 1 .. tail - 1, StartsLine(h, s) PROVE FALSE
  <2>1. s \in Int /\ s - 1 \in head .. Len(h) - 1 /\ s # 0
    BY <1>1, <1>6, <1>9
  <2>2. s - 1 \in Newlines(h, head, Len(h))
    BY <1>10, <2>1 DEF StartsLine, Newlines
  <2>3. nl # NotFound /\ nl <= s - 1
    BY <1>7, <2>2
  <2> QED BY <1>1, <1>5, <1>8, <2>1, <2>3
<1> QED BY <1>2, <1>3, <1>4, <1>6, <1>9, <1>10 DEF head, tail

(* Spans that follow each other.                                           *)
LEMMA SpansJoin ==
  ASSUME NEW h, IsText(h), NEW a \in 0 .. Len(h), NEW b \in a .. Len(h)
  PROVE  /\ Bytes(h, <<0, a>>) \o Bytes(h, <<a, b>>) = Bytes(h, <<0, b>>)
         /\ Bytes(h, <<0, Len(h)>>) = h
<1>1. PICK Chars : h \in Seq(Chars)
  BY DEF IsText
<1>2. Len(h) \in Nat
  BY <1>1
<1>3. SubSeq(h, 1, a) \o SubSeq(h, a + 1, b) = SubSeq(h, 1, b)
  <2>1. 1 \in 1 .. Len(h) + 1 /\ a \in 1 - 1 .. Len(h) /\ b \in a .. Len(h)
    BY <1>2
  <2> QED BY <1>1, <2>1, ConcatAdjacentSubSeq
<1>4. SubSeq(h, 1, Len(h)) = h
  BY <1>1, SubSeqFull
<1> QED BY <1>3, <1>4 DEF Bytes

(* head and tail at one cut print whole lines, and all of the file between *)
(* them but the line that the cut is in (source.py:144-172, cli.py:238-245)*)
THEOREM CutsLeaveOneLineOut == Spec => []CutLeavesOneLineOut
<1>1. ASSUME TextInv PROVE CutLeavesOneLineOut
  <2> SUFFICES ASSUME NEW cut \in 1 .. Len(text) - 1
               PROVE  LET head == HeadSpan(text, cut)[2]
                          tail == TailSpan(text, Len(text) - cut)[1]
                      IN /\ {head, tail} \subseteq LineStarts
                         /\ head <= cut /\ cut <= tail
                         /\ ~\E start \in LineStarts : head < start /\ start < tail
                         /\ CatBytes(text, 0, cut).out[1] \o Bytes(text, <<head, tail>>)
                              \o CatBytes(text, Len(text) - cut, 0).out[1] = text
    BY DEF CutLeavesOneLineOut
  <2> DEFINE head == LineStart(text, cut)
             tail == Behind(text, head)
  <2>1. IsText(text) /\ Len(text) \in Nat /\ cut \in Nat /\ 0 \in 0 .. Len(text) - 1
    BY <1>1, TextsHaveNewlines DEF TextInv, IsText
  <2>2. /\ HeadSpan(text, cut) = <<0, head>> /\ TailSpan(text, Len(text) - cut) = <<tail, Len(text)>>
        /\ head \in 0 .. cut /\ tail \in cut .. Len(text) /\ head < Len(text)
        /\ StartsLine(text, head) /\ (tail # Len(text) => StartsLine(text, tail))
        /\ \A s \in head + 1 .. tail - 1 : ~StartsLine(text, s)
    BY <2>1, AroundCut
  <2> HIDE DEF head, tail
  <2>3. LineStarts = {s \in 0 .. Len(text) - 1 : StartsLine(text, s)} \union {0, Len(text)}
    <3> DEFINE lines == LineSpans(text, 0, Len(text))
    <3>1. StartsAre(text, 0)
      BY <2>1, LinesStart DEF StartsLine
    <3>2. /\ \A i \in DOMAIN lines : \E s \in 0 .. Len(text) - 1 :
               StartsLine(text, s) /\ lines[i] = <<s, LineEnd(text, s)>>
          /\ \A s \in 0 .. Len(text) - 1 : StartsLine(text, s) => \E i \in DOMAIN lines : lines[i][1] = s
      BY <3>1 DEF StartsAre
    <3> HIDE DEF lines
    <3>3. {lines[i][1] : i \in DOMAIN lines} = {s \in 0 .. Len(text) - 1 : StartsLine(text, s)}
      BY <3>2
    <3> QED BY <3>3 DEF LineStarts, lines
  <2>4. {head, tail} \subseteq LineStarts
    <3>1. head \in 0 .. Len(text) - 1 /\ (tail # Len(text) => tail \in 0 .. Len(text) - 1)
      BY <2>1, <2>2
    <3> QED BY <2>2, <2>3, <3>1
  <2>5. ~\E start \in LineStarts : head < start /\ start < tail
    <3> SUFFICES ASSUME NEW start \in LineStarts, head < start, start < tail PROVE FALSE
      OBVIOUS
    <3>1. start \in 0 .. Len(text)
      BY <2>1, <2>3
    <3>2. start \in head + 1 .. tail - 1 /\ start # 0 /\ start # Len(text)
      BY <2>1, <2>2, <3>1
    <3> QED BY <2>2, <2>3, <3>2
  <2>6. CatBytes(text, 0, cut).out[1] = Bytes(text, <<0, head>>)
    BY <2>1, <2>2 DEF CatBytes, Printed
  <2>7. CatBytes(text, Len(text) - cut, 0).out[1] = Bytes(text, <<tail, Len(text)>>)
    <3>1. Len(text) - cut # 0
      BY <2>1
    <3> QED BY <2>2, <3>1 DEF CatBytes, Printed
  <2>8. Bytes(text, <<0, head>>) \o Bytes(text, <<head, tail>>) \o Bytes(text, <<tail, Len(text)>>) = text
    <3>1. /\ head \in 0 .. Len(text) /\ tail \in head .. Len(text) /\ tail \in 0 .. Len(text)
          /\ Len(text) \in tail .. Len(text)
      BY <2>1, <2>2
    <3> QED BY <2>1, <3>1, SpansJoin
  <2>9. head <= cut /\ cut <= tail
    BY <2>1, <2>2
  <2>10. HeadSpan(text, cut)[2] = head /\ TailSpan(text, Len(text) - cut)[1] = tail
    BY <2>2
  <2> QED BY <2>4, <2>5, <2>6, <2>7, <2>8, <2>9, <2>10
<1> QED BY <1>1, TextInvariant, PTL

(* The line of an offset is, with its number, one of the lines of the text.*)
LEMMA LineOfOffset ==
  ASSUME NEW h, IsText(h), NEW o \in 0 .. Len(h) - 1
  PROVE  LET lines == LineSpans(h, 0, Len(h)) IN
         /\ LineNumber(h, o) \in DOMAIN lines
         /\ lines[LineNumber(h, o)] = <<LineStart(h, o), LineEnd(h, LineStart(h, o))>>
<1> DEFINE lines == LineSpans(h, 0, Len(h))
           start == LineStart(h, o)
<1>1. /\ Len(h) \in Nat /\ o \in Nat /\ 0 \in 0 .. Len(h) - 1 /\ h # << >> /\ o \in 0 .. Len(h)
      /\ Len(h) \in 0 .. Len(h)
  BY TextsHaveNewlines
<1>2. start \in 0 .. o /\ StartsLine(h, start) /\ Newlines(h, start, o) = {}
  BY <1>1, LineStartOf
<1>3. start \in Nat /\ start \in 0 .. Len(h) - 1 /\ start \in 0 .. Len(h)
  BY <1>1, <1>2
<1>4. LineStart(h, start) = start
  <2> HIDE DEF start
  <2>1. Newlines(h, start, start) = {} /\ start \in 0 .. start
    BY <1>3 DEF Newlines
  <2> QED BY <1>2, <1>3, <2>1, LineStartUnique
<1>5. PICK i \in DOMAIN lines : \E s \in 0 .. Len(h) - 1 :
        s = start /\ lines[i] = <<s, LineEnd(h, s)>>
  <2> HIDE DEF start
  <2>1. StartsAre(h, 0)
    BY <1>1, LinesStart DEF StartsLine
  <2>2. PICK i \in DOMAIN lines : lines[i][1] = start
    BY <1>2, <1>3, <2>1 DEF StartsAre
  <2>3. PICK s \in 0 .. Len(h) - 1 : lines[i] = <<s, LineEnd(h, s)>>
    BY <2>1 DEF StartsAre
  <2> QED BY <2>2, <2>3
<1>6. lines[i] = <<start, LineEnd(h, start)>>
  BY <1>5
<1>7. LineNumber(h, o) = i
  <2>1. LinesCover(h, lines, 0)
    BY <1>1, LinesFromCover DEF StartsLine
  <2>2. Count(h, Newline, 0, 0) = 0
    <3>1. Find(h, Newline, 0, 0) = NotFound
      BY <1>1, FindNewline DEF Newlines
    <3>2. IterFind(h, Newline, 0, 0) = << >>
      <4>1. Searchable(h, Newline) /\ 0 \in 0 .. Len(h)
        BY <1>1, TextsHaveNewlines
      <4> QED BY <3>1, <4>1, IterFindUnfolds
    <3> QED BY <3>2 DEF Count
  <2> HIDE DEF lines, start
  <2>3. i \in Nat /\ lines \in Seq(Nat \X Nat)
    BY <2>1 DEF LinesCover
  <2>4. LineIs(h, lines[i], NextOf(h, lines, i), i = Len(lines), i)
    BY <2>1, <2>2, <2>3 DEF LinesCover, Numbered
  <2>5. start < NextOf(h, lines, i) /\ NextOf(h, lines, i) \in Int
    <3>1. CASE i = Len(lines)
      BY <1>1, <1>3, <3>1 DEF NextOf
    <3>2. CASE i # Len(lines)
      <4> DEFINE next == lines[i + 1][1]
                 stop == LineEnd(h, start)
      <4>1. next \in Nat
        <5>1. i + 1 \in DOMAIN lines
          BY <2>3, <3>2
        <5> QED BY <2>3, <5>1
      <4>2. stop \in Nat /\ start <= stop
        <5>1. stop \in start .. Len(h)
          BY <1>3, LineEndOf
        <5> QED BY <1>1, <1>3, <5>1
      <4>3. Bytes(h, <<stop, next>>) # << >>
        <5>1. lines[i][2] = stop /\ NextOf(h, lines, i) = next
          BY <1>6, <3>2 DEF NextOf
        <5>2. Bytes(h, <<stop, next>>) \in {<<"\n">>, <<"\r", "\n">>}
          <6> HIDE DEF next, stop
          <6> QED BY <2>4, <3>2, <5>1 DEF LineIs
        <5>3. <<"\n">> # << >> /\ <<"\r", "\n">> # << >>
          OBVIOUS
        <5> HIDE DEF next, stop
        <5> QED BY <5>2, <5>3
      <4> HIDE DEF next, stop
      <4>4. ~(next < stop + 1)
        BY <4>1, <4>2, <4>3, SubSeqEmpty DEF Bytes
      <4>5. start < next
        BY <1>3, <4>1, <4>2, <4>4
      <4> QED BY <3>2, <4>1, <4>5 DEF NextOf, next
    <3> QED BY <3>1, <3>2
  <2>6. LineNumber(h, start) = i
    <3>1. start \in start .. NextOf(h, lines, i) - 1
      BY <1>3, <2>5
    <3> QED BY <1>6, <2>4, <3>1 DEF LineIs
  <2> QED BY <1>4, <2>6 DEF LineNumber, start
<1> QED BY <1>5, <1>6, <1>7

(* It ends where it ends, seen from any offset in it but its newline.      *)
LEMMA LineEndInside ==
  ASSUME NEW h, IsText(h), NEW o \in 0 .. Len(h) - 1, Byte(h, o) # "\n"
  PROVE  LineEnd(h, o) = LineEnd(h, LineStart(h, o))
<1> DEFINE start == LineStart(h, o)
           over == EndsAt(h, start)
           here == EndsAt(h, o)
<1>1. Len(h) \in Nat /\ o \in Nat /\ o \in 0 .. Len(h) /\ Len(h) \in 0 .. Len(h)
  BY TextsHaveNewlines
<1>2. start \in 0 .. o /\ StartsLine(h, start) /\ Newlines(h, start, o) = {}
  BY <1>1, LineStartOf
<1>3. start \in Nat /\ start \in 0 .. Len(h) - 1 /\ start \in 0 .. Len(h)
  BY <1>1, <1>2
<1>4. /\ over \in start .. Len(h) /\ Newlines(h, start, over) = {}
      /\ over = Len(h) <=> Find(h, Newline, start, Len(h)) = NotFound
  BY <1>3, LineEndOf
<1>5. Newlines(h, start, Len(h)) = Newlines(h, o, Len(h))
  <2> HIDE DEF start
  <2>1. \A n \in Newlines(h, start, Len(h)) : n \in Int /\ ~(n < o)
    BY <1>1, <1>2, <1>3 DEF Newlines
  <2>2. \A n \in Newlines(h, start, Len(h)) : n \in Newlines(h, o, Len(h))
    BY <1>1, <2>1 DEF Newlines
  <2>3. \A n \in Newlines(h, o, Len(h)) : n \in Newlines(h, start, Len(h))
    BY <1>1, <1>2, <1>3 DEF Newlines
  <2> QED BY <2>2, <2>3
<1>6. here = over
  <2>1. Occurrences(h, Newline, start, Len(h)) = Occurrences(h, Newline, o, Len(h))
    BY <1>1, <1>3, <1>5, NewlineOccurrences
  <2> QED BY <2>1 DEF EndsAt, Find
<1>7. over > o
  <2>1. over \in Nat /\ (over < Len(h) => Byte(h, over) = "\n")
    BY <1>3, LineEndOf
  <2>2. over \in o .. Len(h)
    BY <1>1, <1>6, LineEndOf
  <2>3. over # o
    BY <1>1, <2>1
  <2> HIDE DEF over
  <2> QED BY <1>1, <2>1, <2>2, <2>3
<1>8. over > start
  <2> HIDE DEF over, start
  <2> QED BY <1>1, <1>2, <1>3, <1>4, <1>7
<1>9. LineEnd(h, o) = DropReturn(h, o, over) /\ LineEnd(h, start) = DropReturn(h, start, over)
  BY <1>6 DEF LineEnd, EndsAt
<1> QED BY <1>7, <1>8, <1>9 DEF DropReturn

(* A hit is an offset where the text has the first character of the anchor.*)
LEMMA HitsAreThere ==
  ASSUME NEW h, NEW needle, Searchable(h, needle), NEW o \in Occurrences(h, needle, 0, Len(h))
  PROVE  o \in 0 .. Len(h) - 1 /\ Byte(h, o) = needle[1]
<1>1. Len(h) \in Nat /\ Len(needle) \in Nat /\ Len(needle) >= 1
  BY SearchableLengths
<1>2. PICK Chars : h \in Seq(Chars) /\ needle \in Seq(Chars)
  BY DEF Searchable
<1>3. /\ o \in Nat /\ o + Len(needle) <= Len(h)
      /\ SubSeq(h, o + 1, o + Len(needle)) = needle
  BY <1>1 DEF Occurrences, IsAt, Bytes
<1>4. SubSeq(h, o + 1, o + Len(needle))[1] = h[o + 1]
  BY <1>1, <1>2, <1>3
<1> QED BY <1>1, <1>3, <1>4 DEF Byte

(* What cat prints: each of the lines asked for, once.                     *)
LEMMA CatPrints ==
  ASSUME NEW h, NEW first \in Nat \ {0}, NEW last \in Nat,
         NEW lines \in Seq(Nat \X Nat), lines = LineSpans(h, 0, Len(h))
  PROVE  LET m == IF last <= Len(lines) THEN last ELSE Len(lines) IN
         CatLines(h, first, last) = PrintLines(h, SubSeq(lines, first, m))
<1>1. Len(lines) \in Nat
  OBVIOUS
<1>2. Max({first, 1}) = first /\ Min({last, Len(lines)}) = IF last <= Len(lines) THEN last ELSE Len(lines)
  <2>1. first \in Int /\ 1 \in Int /\ first >= 1 /\ last \in Int /\ Len(lines) \in Int
    BY <1>1
  <2>2. Max({first, 1}) = first
    BY <2>1, OfTwo
  <2> QED BY <2>1, <2>2, OfTwo
<1> QED BY <1>2 DEF CatLines, Within

(* What is printed of two lists of lines is printed of both together.      *)
LEMMA PrintsJoin ==
  ASSUME NEW h, NEW s \in Seq(Nat \X Nat), NEW t \in Seq(Nat \X Nat)
  PROVE  PrintLines(h, s).out \o PrintLines(h, t).out = PrintLines(h, s \o t).out
<1> DEFINE S == Nat \X Nat
           shown == {Bytes(h, l) : l \in S}
           a == [i \in DOMAIN s |-> Bytes(h, s[i])]
           b == [i \in DOMAIN t |-> Bytes(h, t[i])]
           c == [i \in DOMAIN (s \o t) |-> Bytes(h, (s \o t)[i])]
<1>1. /\ Len(s) \in Nat /\ Len(t) \in Nat /\ DOMAIN s = 1 .. Len(s) /\ DOMAIN t = 1 .. Len(t)
      /\ s \in Seq(S) /\ t \in Seq(S) /\ s \o t \in Seq(S) /\ Len(s \o t) = Len(s) + Len(t)
  <2>1. s \in Seq(S) /\ t \in Seq(S)
    OBVIOUS
  <2> HIDE DEF S
  <2> QED BY <2>1
<1> HIDE DEF S
<1>2. DOMAIN (s \o t) = 1 .. Len(s) + Len(t)
  BY <1>1
<1>3. /\ a \in Seq(shown) /\ Len(a) = Len(s)
      /\ b \in Seq(shown) /\ Len(b) = Len(t)
      /\ c \in Seq(shown) /\ Len(c) = Len(s) + Len(t)
  <2>1. a \in Seq(shown) /\ Len(a) = Len(s)
    BY <1>1
  <2>2. b \in Seq(shown) /\ Len(b) = Len(t)
    BY <1>1
  <2>3. c \in Seq(shown) /\ Len(c) = Len(s) + Len(t)
    <3> DEFINE n == Len(s) + Len(t)
    <3>1. \A i \in 1 .. n : (s \o t)[i] \in S
      BY <1>1, <1>2
    <3>2. n \in Nat /\ DOMAIN (s \o t) = 1 .. n
      BY <1>1, <1>2
    <3> HIDE DEF n
    <3>3. c \in [1 .. n -> shown]
      BY <3>1, <3>2
    <3>4. c \in Seq(shown) /\ Len(c) = n
      <4> HIDE DEF c, shown
      <4> QED BY <3>2, <3>3
    <3> QED BY <3>4 DEF n
  <2> QED BY <2>1, <2>2, <2>3
<1>4. \A i \in 1 .. Len(s) : a[i] = Bytes(h, s[i])
  BY <1>1
<1>5. \A i \in 1 .. Len(t) : b[i] = Bytes(h, t[i])
  BY <1>1
<1>6. \A i \in 1 .. Len(s) + Len(t) : c[i] = Bytes(h, (s \o t)[i])
  BY <1>2
<1> HIDE DEF a, b, c, shown
<1>7. /\ a \o b \in Seq(shown) /\ Len(a \o b) = Len(s) + Len(t)
      /\ \A i \in 1 .. Len(s) + Len(t) : (a \o b)[i] = IF i <= Len(s) THEN a[i] ELSE b[i - Len(s)]
  <2>1. /\ a \o b \in Seq(shown) /\ Len(a \o b) = Len(a) + Len(b)
        /\ \A i \in 1 .. Len(a) + Len(b) : (a \o b)[i] = IF i <= Len(a) THEN a[i] ELSE b[i - Len(a)]
    <3>1. a \in Seq(shown) /\ b \in Seq(shown)
      BY <1>3
    <3> QED BY <3>1, ConcatProperties, ZenonT(30)
  <2> QED BY <1>3, <2>1
<1>8. \A i \in 1 .. Len(s) + Len(t) : (s \o t)[i] = IF i <= Len(s) THEN s[i] ELSE t[i - Len(s)]
  BY <1>1, ConcatProperties
<1>9. ASSUME NEW i \in 1 .. Len(s) + Len(t) PROVE (a \o b)[i] = c[i]
  <2>1. CASE i <= Len(s)
    <3>1. i \in 1 .. Len(s)
      BY <1>1, <2>1
    <3> QED BY <1>4, <1>6, <1>7, <1>8, <2>1, <3>1
  <2>2. CASE ~(i <= Len(s))
    <3>1. i - Len(s) \in 1 .. Len(t)
      BY <1>1, <2>2
    <3> QED BY <1>5, <1>6, <1>7, <1>8, <2>2, <3>1
  <2> QED BY <2>1, <2>2
<1>10. a \o b = c
  BY <1>1, <1>3, <1>7, <1>9, SeqEqual
<1> QED BY <1>10 DEF PrintLines, Printed, a, b, c

(* The number that scan prints with a hit is the one cat has for the line, *)
(* scan fails exactly when it counts nothing, and every line is printed    *)
(* once by cat (cli.py:201-237).                                           *)
THEOREM ScansPointAtCat == Spec => []ScanPointsAtCat
<1>1. ASSUME TextInv, Unread PROVE ScanPointsAtCat
  <2> DEFINE lines == LineSpans(text, 0, Len(text))
  <2>1. IsText(text) /\ Len(text) \in Nat /\ Len(text) \in 0 .. Len(text) /\ 0 \in 0 .. Len(text)
    BY <1>1, TextsHaveNewlines DEF TextInv, IsText
  <2>2. lines \in Seq(Nat \X Nat) /\ Len(lines) \in Nat
    <3>1. CASE text = << >>
      <4>1. lines = << >>
        BY <3>1, NoLines
      <4> HIDE DEF lines
      <4> QED BY <4>1
    <3>2. CASE text # << >>
      <4>1. 0 \in 0 .. Len(text) - 1
        BY <2>1, <3>2
      <4> QED BY <2>1, <3>2, <4>1, LinesFromCover DEF LinesCover, StartsLine
    <3> QED BY <3>1, <3>2
  <2>3. ASSUME NEW n \in Needles, NEW latest \in BOOLEAN
        PROVE  LET scan == Scan(text, n, latest) IN
               /\ scan.exit = 1 <=> ScanCount(text, n).out = <<0>>
               /\ n[1] # "\n" => \A i \in DOMAIN scan.out :
                    CatLines(text, scan.out[i].number, scan.out[i].number)
                      = Printed(<<Bytes(text, scan.out[i].line)>>, 0)
    <3> DEFINE all == Occurrences(text, n, 0, Len(text))
               found == IterFind(text, n, 0, Len(text))
               last == Rfind(text, n, 0, Len(text))
               hits == IF latest THEN Found(last) ELSE found
               scan == Scan(text, n, latest)
    <3>1. Searchable(text, n)
      BY <1>1, NeedlesAreSearchable DEF TextInv
    <3>2. /\ found \in Seq(Int) /\ \A i \in DOMAIN found : found[i] \in all
          /\ all # {} => found # << >>
      <4>1. Greedy(found, text, n, 0, Len(text))
        BY <2>1, <3>1, IterFindIsGreedy
      <4> QED BY <4>1 DEF Greedy
    <3>3. (last = NotFound <=> all = {}) /\ (last # NotFound => last \in all)
      BY <2>1, <3>1, RfindIsGreatest
    <3>4. scan = PrintHits(text, hits)
      BY DEF Scan
    <3> HIDE DEF all, found, last, scan
    <3>5. (hits = << >> <=> all = {}) /\ \A i \in DOMAIN hits : hits[i] \in all
      <4>1. CASE latest
        BY <3>3, <4>1 DEF Found
      <4>2. CASE ~latest
        <5>1. all = {} => DOMAIN found = {}
          BY <3>2
        <5>2. all = {} => found = << >>
          BY <3>2, <5>1
        <5> QED BY <3>2, <4>2, <5>2
      <4> QED BY <4>1, <4>2
    <3> HIDE DEF hits
    <3>6. scan.exit = 1 <=> ScanCount(text, n).out = <<0>>
      <4>1. scan.exit = 1 <=> hits = << >>
        BY <3>4 DEF PrintHits, Printed
      <4>2. ScanCount(text, n).out = <<Len(found)>>
        BY DEF ScanCount, Printed, Count, found
      <4>3. Len(found) = 0 <=> found = << >>
        BY <3>2
      <4>4. found = << >> <=> all = {}
        <5>1. found # << >> => 1 \in DOMAIN found
          BY <3>2
        <5> QED BY <3>2, <5>1
      <4> QED BY <3>5, <4>1, <4>2, <4>3, <4>4
    <3>7. ASSUME n[1] # "\n", NEW i \in DOMAIN scan.out
          PROVE  CatLines(text, scan.out[i].number, scan.out[i].number)
                   = Printed(<<Bytes(text, scan.out[i].line)>>, 0)
      <4> DEFINE o == hits[i]
                 k == LineNumber(text, o)
      <4>1. /\ i \in DOMAIN hits
            /\ scan.out[i].number = k /\ scan.out[i].line = LineSpan(text, o)
        BY <3>4 DEF PrintHits, Printed
      <4>2. o \in 0 .. Len(text) - 1 /\ Byte(text, o) # "\n"
        BY <3>1, <3>5, <3>7, <4>1, HitsAreThere DEF all
      <4>3. k \in DOMAIN lines /\ lines[k] = LineSpan(text, o)
        BY <2>1, <4>2, LineOfOffset, LineEndInside DEF LineSpan
      <4> HIDE DEF o, k, lines
      <4>4. k \in Nat \ {0} /\ k <= Len(lines) /\ k \in 1 .. Len(lines)
        BY <2>2, <4>3
      <4>5. CatLines(text, k, k) = PrintLines(text, SubSeq(lines, k, k))
        BY <2>2, <4>4, CatPrints DEF lines
      <4>6. SubSeq(lines, k, k) = <<lines[k]>>
        <5> DEFINE s == SubSeq(lines, k, k)
        <5>1. s \in Seq(Nat \X Nat) /\ Len(s) = 1 /\ s[1] = lines[k]
          BY <2>2, <4>4
        <5> HIDE DEF s
        <5>2. s = <<s[1]>>
          BY <5>1
        <5> QED BY <5>1, <5>2 DEF s
      <4>7. PrintLines(text, <<lines[k]>>) = Printed(<<Bytes(text, lines[k])>>, 0)
        BY DEF PrintLines, Printed
      <4> QED BY <4>1, <4>3, <4>5, <4>6, <4>7
    <3> QED BY <3>6, <3>7 DEF scan
  <2>4. ASSUME NEW k \in 1 .. Len(text)
        PROVE  CatLines(text, 1, k).out \o CatLines(text, k + 1, Len(text)).out
                 = CatLines(text, 1, Len(text)).out
    <3> HIDE DEF lines
    <3> DEFINE m == IF Len(text) <= Len(lines) THEN Len(text) ELSE Len(lines)
               j == IF k <= Len(lines) THEN k ELSE Len(lines)
    <3>1. /\ k \in Nat /\ k + 1 \in Nat \ {0} /\ 1 \in Nat \ {0} /\ k <= Len(text)
          /\ m \in 0 .. Len(lines) /\ j \in 0 .. m
      BY <2>1, <2>2
    <3>2. /\ CatLines(text, 1, k) = PrintLines(text, SubSeq(lines, 1, j))
          /\ CatLines(text, k + 1, Len(text)) = PrintLines(text, SubSeq(lines, k + 1, m))
          /\ CatLines(text, 1, Len(text)) = PrintLines(text, SubSeq(lines, 1, m))
      BY <2>1, <2>2, <3>1, CatPrints DEF lines
    <3> HIDE DEF m
    <3>3. SubSeq(lines, k + 1, m) = SubSeq(lines, j + 1, m)
      <4>1. CASE k <= Len(lines)
        BY <4>1
      <4>2. CASE ~(k <= Len(lines))
        <5>1. m < k + 1 /\ m < j + 1 /\ m \in Int
          BY <2>2, <3>1, <4>2
        <5>2. k + 1 \in Int /\ j + 1 \in Int
          BY <2>2, <3>1, <4>2
        <5> QED BY <5>1, <5>2, SubSeqEmpty
      <4> QED BY <4>1, <4>2
    <3> HIDE DEF j
    <3>4. SubSeq(lines, 1, j) \o SubSeq(lines, j + 1, m) = SubSeq(lines, 1, m)
      <4>1. 1 \in 1 .. Len(lines) + 1 /\ j \in 1 - 1 .. Len(lines) /\ m \in j .. Len(lines)
        BY <2>2, <3>1
      <4> QED BY <2>2, <4>1, ConcatAdjacentSubSeq
    <3>5. SubSeq(lines, 1, j) \in Seq(Nat \X Nat) /\ SubSeq(lines, j + 1, m) \in Seq(Nat \X Nat)
      BY <2>2, <3>1
    <3>6. PrintLines(text, SubSeq(lines, 1, j)).out \o PrintLines(text, SubSeq(lines, j + 1, m)).out
            = PrintLines(text, SubSeq(lines, 1, j) \o SubSeq(lines, j + 1, m)).out
      <4> DEFINE above == SubSeq(lines, 1, j)
                 below == SubSeq(lines, j + 1, m)
      <4>1. above \in Seq(Nat \X Nat) /\ below \in Seq(Nat \X Nat)
        BY <3>5
      <4> HIDE DEF above, below
      <4>2. PrintLines(text, above).out \o PrintLines(text, below).out
              = PrintLines(text, above \o below).out
        BY <4>1, PrintsJoin
      <4> QED BY <4>2 DEF above, below
    <3> QED BY <3>2, <3>3, <3>4, <3>6
  <2> HIDE DEF lines
  <2> QED BY <2>3, <2>4 DEF ScanPointsAtCat
<1>2. ASSUME ~Unread PROVE ScanPointsAtCat
  BY <1>2 DEF ScanPointsAtCat
<1> QED BY <1>1, <1>2, TextInvariant, PTL

(* What the loader has passed has the types its readers count on.          *)
TypedBlock(b) ==
  /\ b.skip \in Int
  /\ b.maxLines # << >> => b.maxLines[1] \in Int
TypedParse(rule) ==
  /\ rule.type \in ScalarTypes
  /\ IsFiniteSet(DOMAIN rule.columns)
  /\ \A c \in DOMAIN rule.columns : rule.columns[c] \in Int
  /\ \A c \in DOMAIN rule.types : rule.types[c] \in ScalarTypes
  /\ rule.field # << >> => rule.field[1] \in Int
TypedQuantity(quantity) ==
  /\ quantity.anchor \in Seq(STRING)
  /\ quantity.block # << >> => TypedBlock(quantity.block[1])
  /\ TypedParse(quantity.parse)
  /\ Nth(quantity) \in Int

(* The whole numbers and strings of a valid table are what they should be. *)
LEMMA BlocksAreTyped ==
  ASSUME NEW w, ValidBlock(w), \A x \in Inside(w) : IsToml(x)
  PROVE  TypedBlock(BlockRule(w.v))
<1>1. w.is = "table" /\ \A key \in DOMAIN w.v : IsToml(w.v[key])
  BY DEF ValidBlock, IsTable, IsTableOf, Inside
<1>2. "skip" \in DOMAIN w.v => w.v["skip"].v \in Int
  BY <1>1 DEF ValidBlock, Has, IsInt, IsToml
<1>4. "max_lines" \in DOMAIN w.v => w.v["max_lines"].v \in Int
  BY <1>1 DEF ValidBlock, Has, IsInt, IsToml
<1>5. Value(w.v, "skip", 0) \in Int
  BY <1>2 DEF Value
<1>7. Maybe(w.v, "max_lines") # << >> => Maybe(w.v, "max_lines")[1] \in Int
  BY <1>4 DEF Maybe
<1> QED BY <1>5, <1>7 DEF TypedBlock, BlockRule

(* A valid parse table gives a rule of the types its readers count on.     *)
LEMMA RulesAreTyped ==
  ASSUME NEW w, ValidParse(w),
         \A x \in Inside(w) : IsToml(x) /\ \A y \in Inside(x) : IsToml(y)
  PROVE  TypedParse(ParseRule(w.v))
<1> DEFINE columns == Sub(w.v, "columns")
<1>1. /\ w.is = "table"
      /\ \A key \in DOMAIN w.v : IsToml(w.v[key]) /\ \A y \in Inside(w.v[key]) : IsToml(y)
  BY DEF ValidParse, IsTable, IsTableOf, Inside
<1>2. IsFiniteSet(DOMAIN columns) /\ \A c \in DOMAIN columns : AsInt(columns[c]) \in Int
  <2>1. CASE "columns" \in DOMAIN w.v
    <3> DEFINE x == w.v["columns"]
    <3>1. x.is = "table" /\ \A c \in DOMAIN x.v : x.v[c].is \in {"int", "bool"}
      BY <2>1 DEF ValidParse, Has, IsTableOf, IsIntOrBool
    <3>2. columns = x.v
      BY <2>1 DEF Sub, Value
    <3>3. IsToml(x) /\ \A y \in Inside(x) : IsToml(y)
      BY <1>1, <2>1
    <3> HIDE DEF x
    <3>4. IsFiniteSet(DOMAIN x.v) /\ \A c \in DOMAIN x.v : IsToml(x.v[c])
      BY <3>1, <3>3 DEF IsToml, Inside
    <3>5. ASSUME NEW c \in DOMAIN x.v PROVE AsInt(x.v[c]) \in Int
      BY <3>1, <3>4 DEF IsToml, AsInt
    <3> QED BY <3>2, <3>4, <3>5
  <2>2. CASE "columns" \notin DOMAIN w.v
    <3>1. DOMAIN columns = {}
      BY <2>2 DEF Sub, Value
    <3> HIDE DEF columns
    <3> QED BY <3>1, FS_EmptySet
  <2> QED BY <2>1, <2>2
<1>3. "field" \in DOMAIN w.v => w.v["field"].v \in Int
  BY <1>1 DEF ValidParse, Has, IsInt, IsToml
<1>4. Maybe(w.v, "field") # << >> => Maybe(w.v, "field")[1] \in Int
  BY <1>3 DEF Maybe
<1>5. Value(w.v, "type", FloatType) \in ScalarTypes
  <2>1. "type" \in DOMAIN w.v => w.v["type"].v \in ScalarTypes
    BY DEF ValidParse, Has, IsType
  <2> QED BY <2>1 DEF Value, ScalarTypes
<1> DEFINE types == Sub(w.v, "types")
<1>6. /\ ParseRule(w.v).columns = [c \in DOMAIN columns |-> AsInt(columns[c])]
      /\ ParseRule(w.v).field = Maybe(w.v, "field")
      /\ ParseRule(w.v).type = Value(w.v, "type", FloatType)
      /\ ParseRule(w.v).types = [c \in DOMAIN types |-> types[c].v]
  BY DEF ParseRule
<1>7. \A c \in DOMAIN types : types[c].v \in ScalarTypes
  <2>1. CASE "types" \in DOMAIN w.v
    <3>1. types = w.v["types"].v
      BY <2>1 DEF Sub, Value
    <3>2. IsTableOf(w.v["types"], IsType)
      BY <2>1 DEF ValidParse, Has
    <3> HIDE DEF types
    <3> QED BY <3>1, <3>2 DEF IsTableOf, IsType
  <2>2. CASE "types" \notin DOMAIN w.v
    <3>1. DOMAIN types = {}
      BY <2>2 DEF Sub, Value
    <3> HIDE DEF types
    <3> QED BY <3>1
  <2> QED BY <2>1, <2>2
<1> HIDE DEF columns, types
<1> QED BY <1>2, <1>4, <1>5, <1>6, <1>7 DEF TypedParse

(* What is loaded was valid, so it has those types.                        *)
LEMMA LoadedIsTyped ==
  ASSUME TextInv, ~Unread
  PROVE  TypedQuantity(q)
<1>1. PICK body \in Documents : ValidQuantity(Toml("table", body)) /\ q = QuantityOf(body)
  BY LoadedIsValid
<1>2. \A key \in DOMAIN body :
        IsToml(body[key]) /\ \A w \in Inside(body[key]) :
          IsToml(w) /\ \A x \in Inside(w) : IsToml(x)
  <2>1. \A key \in DOMAIN body : body[key] \in Inside(Toml("table", body))
    BY DEF Inside, Toml
  <2> QED BY <2>1, DocumentsAssumption
<1>3. /\ "anchor" \in DOMAIN body => IsName(body["anchor"])
      /\ "occurrence" \in DOMAIN body => IsOccurrence(body["occurrence"])
      /\ "block" \in DOMAIN body => ValidBlock(body["block"])
      /\ "parse" \in DOMAIN body => ValidParse(body["parse"])
  BY <1>1 DEF ValidQuantity, Has, Toml
<1>4. q.anchor \in Seq(STRING)
  <2>1. "anchor" \in DOMAIN body => body["anchor"].v \in Seq(STRING)
    BY <1>2, <1>3 DEF IsName, IsToml
  <2>2. Value(body, "anchor", << >>) \in Seq(STRING)
    <3>1. << >> \in Seq(STRING)
      OBVIOUS
    <3> QED BY <2>1, <3>1, Zenon DEF Value
  <2> QED BY <1>1, <2>2 DEF QuantityOf
<1>5. q.block # << >> => TypedBlock(q.block[1])
  <2>1. q.block = IF "block" \in DOMAIN body THEN <<BlockRule(body["block"].v)>> ELSE << >>
    BY <1>1 DEF QuantityOf
  <2>2. "block" \in DOMAIN body => TypedBlock(BlockRule(body["block"].v))
    BY <1>2, <1>3, BlocksAreTyped
  <2> QED BY <2>1, <2>2
<1>6. TypedParse(q.parse)
  <2>1. q.parse = ParseRule(Sub(body, "parse"))
    BY <1>1 DEF QuantityOf
  <2>2. CASE "parse" \in DOMAIN body
    <3>1. Sub(body, "parse") = body["parse"].v
      BY <2>2 DEF Sub, Value
    <3> QED BY <1>2, <1>3, <2>1, <2>2, <3>1, RulesAreTyped
  <2>3. CASE "parse" \notin DOMAIN body
    <3> DEFINE none == Sub(body, "parse")
    <3>1. none = [k \in {} |-> 0]
      BY <2>3 DEF Sub, Value
    <3>2. DOMAIN none = {}
      BY <3>1
    <3>3. Sub(none, "columns") = [k \in {} |-> 0] /\ Maybe(none, "field") = << >>
          /\ Value(none, "type", FloatType) = FloatType /\ Sub(none, "types") = [k \in {} |-> 0]
      BY <3>2 DEF Sub, Value, Maybe
    <3>4. q.parse.columns = [c \in DOMAIN Sub(none, "columns") |-> AsInt(Sub(none, "columns")[c])]
          /\ q.parse.field = Maybe(none, "field")
          /\ q.parse.type = Value(none, "type", FloatType)
          /\ q.parse.types = [c \in DOMAIN Sub(none, "types") |-> Sub(none, "types")[c].v]
      BY <2>1 DEF ParseRule
    <3> HIDE DEF none
    <3>5. DOMAIN q.parse.columns = {} /\ DOMAIN q.parse.types = {} /\ q.parse.field = << >> /\ q.parse.type \in ScalarTypes
      BY <3>3, <3>4 DEF ScalarTypes
    <3> QED BY <3>5, FS_EmptySet DEF TypedParse
  <2> QED BY <2>2, <2>3
<1>7. Nth(q) \in Int
  <2>1. q.occurrence = IF "occurrence" \in DOMAIN body THEN body["occurrence"]
                       ELSE Toml("string", Latest)
    BY <1>1 DEF QuantityOf
  <2>2. q.occurrence.is # "string" => AsInt(q.occurrence) \in Int
    BY <1>2, <1>3, <2>1 DEF Toml, IsOccurrence, IsIntOrBool, IsToml, AsInt
  <2> QED BY <2>2 DEF Nth
<1> QED BY <1>4, <1>5, <1>6, <1>7 DEF TypedQuantity

(* The fields of a piece of a text, of which there are no more than it has *)
(* characters.                                                             *)
LEMMA FieldsAreFew ==
  ASSUME NEW h, NEW from \in Int, NEW to \in Int, NEW limit \in Nat
  PROVE  LET count == Cardinality(FieldStarts(h, from, to))
             fields == Fields(h, from, to, limit)
         IN  /\ count \in Nat /\ (from <= to => count <= to - from)
             /\ \E m \in 0 .. count : m <= limit
                  /\ (limit >= count => m = count)
                  /\ DOMAIN fields = 1 .. m /\ Len(fields) = m
<1> DEFINE starts == FieldStarts(h, from, to)
           count == Cardinality(starts)
           fields == Fields(h, from, to, limit)
<1>1. starts \subseteq from .. to - 1
  BY DEF FieldStarts
<1>2. IsFiniteSet(from .. to - 1)
      /\ Cardinality(from .. to - 1) = IF from > to - 1 THEN 0 ELSE to - 1 - from + 1
  BY FS_Interval
<1> HIDE DEF starts
<1>3. count \in Nat /\ count <= Cardinality(from .. to - 1)
  BY <1>1, <1>2, FS_Subset, FS_CardinalityType
<1>4. from <= to => count <= to - from
  BY <1>2, <1>3
<1>5. Min({limit, count}) = IF limit <= count THEN limit ELSE count
  BY <1>3 DEF Min
<1>6. fields = [k \in 1 .. Min({limit, count}) |->
                  <<CHOOSE i \in starts : Cardinality({j \in starts : j < i}) = k - 1,
                    FieldEnd(h, CHOOSE i \in starts : Cardinality({j \in starts : j < i}) = k - 1, to)>>]
  BY DEF Fields, starts
<1> HIDE DEF fields, count
<1>7. DOMAIN fields = 1 .. Min({limit, count})
  BY <1>6
<1>8. Min({limit, count}) \in Nat
  BY <1>3, <1>5
<1>9. Len(fields) = Min({limit, count})
  <2> DEFINE m == Min({limit, count})
             item(k) == <<CHOOSE i \in starts : Cardinality({j \in starts : j < i}) = k - 1,
                    FieldEnd(h, CHOOSE i \in starts : Cardinality({j \in starts : j < i}) = k - 1, to)>>
  <2>1. m \in Nat /\ fields = [k \in 1 .. m |-> item(k)]
    BY <1>6, <1>8
  <2> HIDE DEF m, item
  <2>2. Len(fields) = m
    BY <2>1
  <2> QED BY <2>2 DEF m
<1> QED BY <1>3, <1>4, <1>5, <1>7, <1>9 DEF fields, count, starts

(* The fields of a line are a list.                                        *)
LEMMA SplitIsList ==
  ASSUME NEW h, Len(h) \in Nat, NEW span, span[1] \in Int, span[2] \in Int
  PROVE  LET fields == Split(h, span) IN
         Len(fields) \in Nat /\ DOMAIN fields = 1 .. Len(fields)
<1> DEFINE runs == Fields(h, span[1], span[2], Len(h))
           fields == Split(h, span)
<1>1. PICK m \in Nat : DOMAIN runs = 1 .. m
  BY FieldsAreFew
<1>2. fields = [i \in DOMAIN runs |-> Bytes(h, runs[i])]
  BY DEF Split
<1> HIDE DEF runs, fields
<1>3. fields = [i \in 1 .. m |-> fields[i]]
  BY <1>1, <1>2
<1> QED BY <1>3 DEF fields

-----------------------------------------------------------------------------
(* A list of numbers has a greatest.                                       *)
LEMMA GreatestOfList ==
  ASSUME NEW n \in Nat, n # 0, NEW g \in [1 .. n -> Int]
  PROVE  \E i \in 1 .. n : \A j \in 1 .. n : g[i] >= g[j]
<1> DEFINE good == {k \in Nat : k + 1 <= n =>
                      \E i \in 1 .. k + 1 : \A j \in 1 .. k + 1 : g[i] >= g[j]}
<1>1. 0 \in good
  <2>1. 1 <= n => \A j \in 1 .. 0 + 1 : j = 1 /\ g[1] >= g[1]
    OBVIOUS
  <2> QED BY <2>1
<1>2. ASSUME NEW k \in Nat, k \in good PROVE k + 1 \in good
  <2> SUFFICES ASSUME (k + 1) + 1 <= n
               PROVE  \E i \in 1 .. (k + 1) + 1 : \A j \in 1 .. (k + 1) + 1 : g[i] >= g[j]
    OBVIOUS
  <2>1. PICK i \in 1 .. k + 1 : \A j \in 1 .. k + 1 : g[i] >= g[j]
    BY <1>2
  <2> DEFINE next == (k + 1) + 1
  <2>2. /\ i \in 1 .. next /\ next \in 1 .. next /\ g[i] \in Int /\ g[next] \in Int
        /\ \A j \in 1 .. next : j \in 1 .. k + 1 \/ j = next
        /\ \A j \in 1 .. k + 1 : g[j] \in Int
    OBVIOUS
  <2> HIDE DEF next
  <2>3. CASE g[i] >= g[next]
    BY <2>1, <2>2, <2>3 DEF next
  <2>4. CASE ~(g[i] >= g[next])
    <3>1. \A j \in 1 .. next : g[next] >= g[j]
      BY <2>1, <2>2, <2>4
    <3> QED BY <2>2, <3>1 DEF next
  <2> QED BY <2>3, <2>4
<1> HIDE DEF good
<1>3. Nat \subseteq good
  BY <1>1, <1>2, NumberInduction
<1>4. n - 1 \in good /\ (n - 1) + 1 = n
  BY <1>3
<1> QED BY <1>4 DEF good

(* Columns counted from the left: a line that is not too short has all.    *)
ColumnsUpward(rule) == \A c \in DOMAIN rule.columns : rule.columns[c] >= 0

(* The column that a row must reach is one of those asked for, if there is *)
(* any, and no smaller than another.                                       *)
LEMMA WantedIsGreatest ==
  ASSUME NEW rule, TypedParse(rule), ColumnsUpward(rule)
  PROVE  /\ Wanted(rule) \in Int
         /\ \A c \in DOMAIN rule.columns :
              rule.columns[c] \in Int /\ rule.columns[c] >= 0 /\ Wanted(rule) >= rule.columns[c]
         /\ Wanted(rule) = -1 \/ \E c \in DOMAIN rule.columns : Wanted(rule) = rule.columns[c]
<1> DEFINE places == {rule.columns[c] : c \in DOMAIN rule.columns}
           all == {-1} \union places
<1>1. IsFiniteSet(DOMAIN rule.columns) /\ \A c \in DOMAIN rule.columns : rule.columns[c] \in Int
  BY DEF TypedParse
<1>2. PICK n \in Nat : \E f : f \in Bijection(1 .. n, DOMAIN rule.columns)
  BY <1>1, FS_CardinalityType DEF ExistsBijection
<1>3. PICK f \in [1 .. n -> DOMAIN rule.columns] : \A c \in DOMAIN rule.columns : \E i \in 1 .. n : f[i] = c
  BY <1>2 DEF Bijection, Injection, Surjection
<1> DEFINE g == [i \in 1 .. n |-> rule.columns[f[i]]]
<1>4. \E m \in all : \A k \in all : m >= k
  <2>1. g \in [1 .. n -> Int]
    BY <1>1, <1>3
  <2>2. all \subseteq Int /\ -1 \in all
    BY <1>1
  <2>3. \A k \in places : \E i \in 1 .. n : g[i] = k
    BY <1>3
  <2>4. \A i \in 1 .. n : g[i] \in places /\ g[i] >= -1
    BY <1>1, <1>3 DEF ColumnsUpward
  <2>5. \A k \in all : k = -1 \/ k \in places
    OBVIOUS
  <2> HIDE DEF g, places
  <2>6. CASE n = 0
    BY <2>2, <2>3, <2>5, <2>6
  <2>7. CASE n # 0
    <3>1. PICK i \in 1 .. n : \A j \in 1 .. n : g[i] >= g[j]
      BY <2>1, <2>7, GreatestOfList
    <3> QED BY <2>2, <2>3, <2>4, <2>5, <3>1
  <2> QED BY <2>6, <2>7
<1>5. places \subseteq Int
  BY <1>1
<1>6. Max(all) \in all /\ \A k \in all : Max(all) >= k
  <2> HIDE DEF all
  <2> QED BY <1>4 DEF Max
<1>7. Wanted(rule) = Max(all)
  BY DEF Wanted
<1>8. Wanted(rule) \in Int
  BY <1>5, <1>6, <1>7
<1>9. Wanted(rule) = -1 \/ \E c \in DOMAIN rule.columns : Wanted(rule) = rule.columns[c]
  BY <1>6, <1>7
<1>10. ASSUME NEW c \in DOMAIN rule.columns
      PROVE  rule.columns[c] \in Int /\ rule.columns[c] >= 0 /\ Wanted(rule) >= rule.columns[c]
  <2>1. rule.columns[c] \in places
    OBVIOUS
  <2> QED BY <1>5, <1>6, <1>7, <2>1 DEF ColumnsUpward
<1> QED BY <1>10, <1>8, <1>9

(* With such a rule no row raises IndexError: one that is too short is     *)
(* left out before it is indexed, and an empty row is one that is left     *)
(* out.                                                                    *)
LEMMA NoRowRaises ==
  ASSUME NEW rule, TypedParse(rule), ColumnsUpward(rule)
  PROVE  /\ \A fields : Len(fields) \in Nat /\ DOMAIN fields = 1 .. Len(fields) => ~RowRaises(fields, rule)
         /\ Row(<< >>, rule) = << >>
<1>1. /\ Wanted(rule) \in Int
      /\ \A c \in DOMAIN rule.columns :
           rule.columns[c] \in Int /\ rule.columns[c] >= 0 /\ Wanted(rule) >= rule.columns[c]
  BY WantedIsGreatest
<1>2. ASSUME NEW fields, Len(fields) \in Nat, DOMAIN fields = 1 .. Len(fields)
      PROVE  ~RowRaises(fields, rule)
  <2>1. ASSUME NEW c \in DOMAIN rule.columns, Len(fields) > Wanted(rule)
        PROVE  Field(fields, rule.columns[c]) # << >>
    <3>1. Index(fields, rule.columns[c]) \in 1 .. Len(fields)
      BY <1>1, <1>2, <2>1 DEF Index
    <3> QED BY <1>2, <3>1 DEF Field
  <2> QED BY <1>1, <1>2, <2>1 DEF RowRaises, TooShort
<1>3. Row(<< >>, rule) = << >>
  <2>1. CASE DOMAIN rule.columns = {}
    <3>1. \A row : DOMAIN row = {} => ~Legible(row)
      BY DEF Legible
    <3> QED BY <2>1, <3>1 DEF Row
  <2>2. CASE DOMAIN rule.columns # {}
    <3>1. TooShort(<< >>, rule)
      BY <1>1, <2>2 DEF TooShort
    <3> QED BY <3>1 DEF Row
  <2> QED BY <2>1, <2>2
<1> QED BY <1>2, <1>3

(* The lines of a window are lines of the text, each from where it starts  *)
(* to where it ends.                                                       *)
LinesOfText(h) == {<<s, LineEnd(h, s)>> : s \in {s \in 0 .. Len(h) : StartsLine(h, s)}}

(* Start and end of a line lie in the text, in this order.                 *)
LEMMA LinesAreTyped ==
  ASSUME NEW h, IsText(h), NEW line \in LinesOfText(h)
  PROVE  /\ line[1] \in 0 .. Len(h) /\ line[2] \in line[1] .. Len(h)
         /\ line[1] \in Int /\ line[2] \in Int /\ line \in Nat \X Nat
<1>1. PICK s \in 0 .. Len(h) : line = <<s, LineEnd(h, s)>>
  BY DEF LinesOfText
<1>2. LineEnd(h, s) \in s .. Len(h) /\ Len(h) \in Nat
  BY LineEndOf, TextsHaveNewlines
<1> QED BY <1>1, <1>2

(* The lines from the start of any line up to a limit are lines of the     *)
(* text.                                                                   *)
LEMMA LinesUpTo ==
  ASSUME NEW h, IsText(h), h # << >>, NEW to \in 0 .. Len(h)
  PROVE  \A p \in 0 .. Len(h) : StartsLine(h, p) => LineSpans(h, p, to) \in Seq(LinesOfText(h))
<1> DEFINE D == 0 .. Len(h)
           rank == [p \in D |-> Len(h) - p]
           good == {p \in D : StartsLine(h, p) => LineSpans(h, p, to) \in Seq(LinesOfText(h))}
<1>1. Len(h) \in Nat /\ Len(h) \in 0 .. Len(h)
  BY TextsHaveNewlines
<1>2. ASSUME NEW p \in D, \A r \in D : rank[r] < rank[p] => r \in good
      PROVE  p \in good
  <2> SUFFICES ASSUME StartsLine(h, p) PROVE LineSpans(h, p, to) \in Seq(LinesOfText(h))
    OBVIOUS
  <2> DEFINE over == EndsAt(h, p)
             line == <<p, LineEnd(h, p)>>
             rest == IF over + 1 >= Len(h) THEN << >> ELSE LineSpans(h, over + 1, to)
  <2>1. LineSpans(h, p, to) = IF p > to THEN << >> ELSE <<line>> \o rest
    BY LineSpansUnfold
  <2>2. line \in LinesOfText(h)
    BY DEF LinesOfText
  <2>3. /\ over \in p .. Len(h) /\ over \in Nat /\ p \in Nat
        /\ over < Len(h) => Byte(h, over) = "\n"
    BY <1>1, LineEndOf
  <2>4. ~(over + 1 >= Len(h)) => over + 1 \in D /\ StartsLine(h, over + 1) /\ rank[over + 1] < rank[p]
    <3> HIDE DEF over
    <3>1. ~(over + 1 >= Len(h)) => over < Len(h) /\ over + 1 \in D /\ (over + 1) - 1 = over
      BY <1>1, <2>3
    <3> QED BY <1>1, <2>3, <3>1 DEF StartsLine
  <2>5. rest \in Seq(LinesOfText(h))
    BY <1>2, <2>4
  <2> HIDE DEF line, rest
  <2> QED BY <2>1, <2>2, <2>5
<1>3. rank \in [D -> Nat]
  BY <1>1
<1> HIDE DEF good, rank, D
<1>4. D \subseteq good
  BY <1>2, <1>3, RankInduction
<1> QED BY <1>4 DEF good, D

(* So are those that overlap a window, wherever in a line it starts.       *)
LEMMA LinesInWindow ==
  ASSUME NEW h, IsText(h), NEW from \in 0 .. Len(h), NEW to \in 0 .. Len(h)
  PROVE  LineSpans(h, from, to) \in Seq(LinesOfText(h))
<1> DEFINE p == LineStart(h, from)
<1>1. Len(h) \in Nat /\ from \in Nat
  BY TextsHaveNewlines
<1>2. p \in 0 .. from /\ StartsLine(h, p)
  BY LineStartOf
<1>3. p \in 0 .. Len(h) /\ p \in 0 .. p
  BY <1>1, <1>2
<1>4. LineStart(h, p) = p
  <2> HIDE DEF p
  <2>1. Newlines(h, p, p) = {}
    BY <1>1, <1>3 DEF Newlines
  <2> QED BY <1>2, <1>3, <2>1, LineStartUnique
<1>5. LineSpans(h, from, to) = LineSpans(h, p, to)
  BY <1>4 DEF LineSpans
<1>6. CASE h = << >>
  BY <1>6 DEF LineSpans
<1>7. CASE h # << >>
  BY <1>2, <1>3, <1>5, <1>7, LinesUpTo
<1> QED BY <1>6, <1>7

(* However many lines a block is taken below its anchor, up or down: it    *)
(* begins where a line does, or at the end of the text.                    *)
LEMMA AdvanceReachesLine ==
  ASSUME NEW h, IsText(h), NEW o \in 0 .. Len(h), NEW n \in Int
  PROVE  LET at == AdvanceLines(h, o, n) IN
         at \in 0 .. Len(h) /\ (StartsLine(h, at) \/ at = Len(h))
<1> DEFINE V == {p \in 0 .. Len(h) : StartsLine(h, p) \/ p = Len(h)}
           start == LineStart(h, o)
           down == CHOOSE w : ForwardSteps(w, h, o)
           up == CHOOSE w : BackSteps(w, h, o)
<1>1. Len(h) \in Nat /\ o \in Nat /\ Len(h) \in 0 .. Len(h)
  BY TextsHaveNewlines
<1>2. start \in V /\ start \in 0 .. Len(h)
  BY <1>1, LineStartOf
<1>3. ForwardSteps(down, h, o) /\ BackSteps(up, h, o)
  BY <1>2, StepsExist
<1>4. AdvanceLines(h, o, n) = IF n > 0 THEN down[n] ELSE up[-n]
  BY DEF AdvanceLines, ForwardSteps, BackSteps
<1> HIDE DEF start, down, up
<1>5. ASSUME NEW p \in V PROVE Behind(h, p) \in V /\ Above(h, p) \in V
  <2>1. Behind(h, p) \in V
    <3> DEFINE nl == Find(h, Newline, p, Len(h))
    <3>1. nl # NotFound => nl \in p .. Len(h) - 1 /\ Byte(h, nl) = "\n"
      BY <1>1, FindNewline DEF Newlines
    <3>2. Behind(h, p) = IF nl = NotFound THEN Len(h) ELSE nl + 1
      BY DEF Behind
    <3> HIDE DEF nl
    <3>3. nl # NotFound => (nl + 1) - 1 = nl /\ nl + 1 \in 0 .. Len(h)
      BY <1>1, <3>1
    <3> QED BY <1>1, <3>1, <3>2, <3>3 DEF StartsLine
  <2>2. Above(h, p) \in V
    <3>1. p # 0 => p - 1 \in 0 .. Len(h)
      BY <1>1
    <3>2. p # 0 => LineStart(h, p - 1) \in 0 .. p - 1 /\ StartsLine(h, LineStart(h, p - 1))
      BY <3>1, LineStartOf
    <3>3. p # 0 => LineStart(h, p - 1) \in 0 .. Len(h)
      BY <1>1, <3>2
    <3>4. 0 \in V
      BY <1>1 DEF StartsLine
    <3> QED BY <3>2, <3>3, <3>4 DEF Above
  <2> QED BY <2>1, <2>2
<1> HIDE DEF V
<1> DEFINE good == {k \in Nat : down[k] \in V /\ up[k] \in V}
<1>6. /\ down[0] = start /\ \A k \in Nat : down[k + 1] = Behind(h, down[k])
      /\ up[0] = start /\ \A k \in Nat : up[k + 1] = Above(h, up[k])
  <2>1. \A k \in Nat : k + 1 \in Nat /\ k + 1 # 0 /\ (k + 1) - 1 = k
    OBVIOUS
  <2> QED BY <1>3, <2>1 DEF ForwardSteps, BackSteps, Behind, Above, start
<1>7. 0 \in good
  BY <1>2, <1>6
<1>8. ASSUME NEW k \in Nat, k \in good PROVE k + 1 \in good
  <2>1. k + 1 \in Nat /\ down[k] \in V /\ up[k] \in V
    BY <1>8
  <2> QED BY <1>5, <1>6, <2>1
<1> HIDE DEF good
<1>9. Nat \subseteq good
  BY <1>7, <1>8, NumberInduction
<1>10. AdvanceLines(h, o, n) \in V
  <2>1. CASE n > 0
    <3>1. n \in good
      BY <1>9, <2>1
    <3> QED BY <1>4, <2>1, <3>1 DEF good
  <2>2. CASE ~(n > 0)
    <3>1. -n \in good
      BY <1>9, <2>2
    <3> QED BY <1>4, <2>2, <3>1 DEF good
  <2> QED BY <2>1, <2>2
<1> QED BY <1>10 DEF V

(* Whatever ends it, a block lies in the text.                             *)
LEMMA TakenIsPrefix ==
  ASSUME NEW h, NEW S, NEW lines \in Seq(S), NEW until, NEW max
  PROVE  \E m \in 0 .. Len(lines) : UpTo(h, lines, until, max) = SubSeq(lines, 1, m)
<1> DEFINE stops == {i \in DOMAIN lines : i > max \/ Stops(h, lines[i], until)}
<1>1. DOMAIN lines = 1 .. Len(lines) /\ Len(lines) \in Nat /\ SubSeq(lines, 1, Len(lines)) = lines
  OBVIOUS
<1>2. UpTo(h, lines, until, max) = IF stops = {} THEN lines ELSE SubSeq(lines, 1, Min(stops) - 1)
  BY DEF UpTo
<1>3. CASE stops = {}
  BY <1>1, <1>2, <1>3
<1>4. CASE stops # {}
  <2>1. stops \in SUBSET Nat
    BY <1>1
  <2>2. PICK n \in stops : \A m \in stops : n <= m
    BY <1>4, <2>1, LeastNumber
  <2>3. Min(stops) \in stops
    <3> HIDE DEF stops
    <3> QED BY <2>2 DEF Min
  <2>4. Min(stops) \in 1 .. Len(lines)
    BY <1>1, <2>3
  <2> HIDE DEF stops
  <2>5. Min(stops) - 1 \in 0 .. Len(lines)
    BY <1>1, <2>4
  <2> QED BY <1>2, <1>4, <2>5
<1> QED BY <1>3, <1>4

(* The span of a block starts where skip has led and ends in the text, not *)
(* before it.                                                              *)
LEMMA BlockLiesInText ==
  ASSUME NEW h, IsText(h), NEW o \in 0 .. Len(h), NEW skip \in Int, NEW until, NEW max
  PROVE  LET span == BlockSpan(h, o, skip, until, max)
             from == AdvanceLines(h, o, skip)
         IN  /\ span[1] = from /\ from \in 0 .. Len(h)
             /\ span[2] \in from .. Len(h)
<1> DEFINE from == AdvanceLines(h, o, skip)
           lines == LineSpans(h, from, Len(h))
           taken == UpTo(h, lines, until, max)
           span == BlockSpan(h, o, skip, until, max)
<1> SUFFICES span[1] = from /\ from \in 0 .. Len(h) /\ span[2] \in from .. Len(h)
  OBVIOUS
<1>0. from \in 0 .. Len(h)
  BY AdvanceReachesLine
<1>1. Len(h) \in Nat /\ from \in 0 .. Len(h) /\ Len(h) \in 0 .. Len(h)
  BY <1>0, TextsHaveNewlines
<1>2. span = IF from >= Len(h) THEN <<Len(h), Len(h)>>
             ELSE <<from, IF taken = << >> THEN from ELSE Last(taken)[2]>>
  BY DEF BlockSpan, BlockAt, Around, Taken
<1>3. CASE from >= Len(h)
  <2> HIDE DEF from, span
  <2> QED BY <1>1, <1>2, <1>3
<1>4. CASE ~(from >= Len(h)) /\ taken = << >>
  <2> HIDE DEF from, span, taken
  <2> QED BY <1>1, <1>2, <1>4
<1>5. CASE ~(from >= Len(h)) /\ taken # << >>
  <2>1. from \in 0 .. Len(h) - 1 /\ StartsLine(h, from) /\ h # << >>
    <3>1. StartsLine(h, from) \/ from = Len(h)
      BY AdvanceReachesLine
    <3> HIDE DEF from
    <3> QED BY <1>1, <1>5, <3>1
  <2> HIDE DEF from
  <2>2. LinesCover(h, lines, from)
    BY <2>1, LinesFromCover
  <2>3. lines \in Seq(Nat \X Nat)
    BY <2>2 DEF LinesCover
  <2>4. CutsAtLines(h, from)
    BY <2>1, LinesCut
  <2>5. \A m \in DOMAIN lines : lines[m][2] \in from .. Len(h)
    BY <2>4 DEF CutsAtLines
  <2> HIDE DEF lines
  <2>6. PICK m \in 0 .. Len(lines) : taken = SubSeq(lines, 1, m)
    BY <2>3, TakenIsPrefix
  <2>7. m \in DOMAIN lines /\ Last(taken) = lines[m]
    <3>1. Len(lines) \in Nat /\ m \in Nat /\ DOMAIN lines = 1 .. Len(lines)
      BY <2>3
    <3>2. m # 0
      BY <1>5, <2>3, <2>6
    <3>3. Len(taken) = m /\ taken[m] = lines[m]
      BY <2>3, <2>6, <3>1, <3>2
    <3> HIDE DEF taken
    <3> QED BY <3>1, <3>2, <3>3 DEF Last
  <2> HIDE DEF taken, span
  <2> QED BY <1>1, <1>2, <1>5, <2>5, <2>7
<1> QED BY <1>3, <1>4, <1>5

(* Lists put one behind the other, from the left.                          *)
JoinsUp(w, lists) ==
  w[0] = << >> /\ \A k \in 1 .. Len(lists) : w[k] = w[k - 1] \o lists[k]
FlattenWalk(w, lists) ==
  w = [i \in 1 .. Len(lists) |-> IF i = 1 THEN lists[i] ELSE w[i - 1] \o lists[i]]

(* FlattenSeq is such a join of all its lists, and it is a list.           *)
LEMMA FlattenJoinsUp ==
  ASSUME NEW S, NEW lists \in Seq(Seq(S))
  PROVE  \E w \in [0 .. Len(lists) -> Seq(S)] : JoinsUp(w, lists) /\ FlattenSeq(lists) = w[Len(lists)]
<1> DEFINE n == Len(lists)
           D == 1 .. n
           V == Seq(S)
           rank == [k \in D |-> k]
           over == {k \in D : k = 1}
           next == [k \in D \ over |-> k - 1]
           base == [k \in over |-> lists[k]]
           step == [k \in D \ over |-> [v \in V |-> v \o lists[k]]]
           walk == CHOOSE w : FlattenWalk(w, lists)
<1>1. n \in Nat /\ \A k \in D : lists[k] \in V
  OBVIOUS
<1>2. Descends(D, rank, over, next)
  <2>1. \A k \in D \ over : k - 1 \in D /\ k - 1 < k
    BY <1>1
  <2>2. rank \in [D -> Nat]
    BY <1>1
  <2> QED BY <1>1, <2>1, <2>2 DEF Descends
<1>3. base \in [over -> V]
  BY <1>1
<1>4. \A k \in D \ over, v \in V : step[k][v] \in V
  BY <1>1
<1>5. /\ \A k \in D : k \in over <=> k = 1
      /\ \A k \in over : base[k] = lists[k]
      /\ \A k \in D \ over : next[k] = k - 1 /\ k - 1 \in D /\ \A v \in V : step[k][v] = v \o lists[k]
  BY <1>1
<1> HIDE DEF rank, over, next, base, step, V
<1>6. PICK w \in [D -> V] : \A k \in D : Continues(w, k, over, base, next, step)
  BY <1>2, <1>3, <1>4, RecursionExists
<1>7. \A k \in D : w[k] = IF k = 1 THEN lists[k] ELSE w[k - 1] \o lists[k]
  <2> TAKE k \in D
  <2>1. Continues(w, k, over, base, next, step)
    BY <1>6
  <2>2. CASE k = 1
    BY <1>5, <2>1, <2>2 DEF Continues
  <2>3. CASE k # 1
    <3>1. w[k] = step[k][w[k - 1]] /\ w[k - 1] \in V /\ k \in D \ over
      BY <1>5, <1>6, <2>1, <2>3 DEF Continues
    <3> QED BY <1>5, <2>3, <3>1
  <2> QED BY <2>2, <2>3
<1>8. FlattenWalk(w, lists)
  <2>1. w = [k \in D |-> w[k]]
    BY <1>6
  <2> QED BY <1>7, <2>1 DEF FlattenWalk
<1>9. FlattenWalk(walk, lists)
  BY <1>8
<1>10. FlattenSeq(lists) = IF n = 0 THEN lists ELSE walk[n]
  BY DEF FlattenSeq, FlattenWalk
<1> HIDE DEF walk
<1>11. \A k \in D : walk[k] = IF k = 1 THEN lists[k] ELSE walk[k - 1] \o lists[k]
  BY <1>9 DEF FlattenWalk
<1> DEFINE good == {k \in Nat : k + 1 \in D => walk[k + 1] \in V}
<1>12. 0 \in good
  <2>1. 0 + 1 \in D => walk[0 + 1] = lists[0 + 1]
    BY <1>11
  <2> QED BY <1>1, <2>1
<1>13. ASSUME NEW k \in Nat, k \in good PROVE k + 1 \in good
  <2> SUFFICES ASSUME (k + 1) + 1 \in D PROVE walk[(k + 1) + 1] \in V
    OBVIOUS
  <2>1. k + 1 \in D /\ ((k + 1) + 1) - 1 = k + 1 /\ (k + 1) + 1 # 1
    BY <1>1
  <2>2. walk[(k + 1) + 1] = walk[k + 1] \o lists[(k + 1) + 1] /\ walk[k + 1] \in V
    BY <1>11, <1>13, <2>1
  <2>3. lists[(k + 1) + 1] \in V
    BY <1>1
  <2> QED BY <2>2, <2>3 DEF V
<1> HIDE DEF good
<1>14. Nat \subseteq good
  BY <1>12, <1>13, NumberInduction
<1>15. \A k \in D : walk[k] \in V
  <2> TAKE k \in D
  <2>1. k - 1 \in good /\ (k - 1) + 1 = k
    BY <1>14
  <2> QED BY <2>1 DEF good
<1> DEFINE all == [k \in 0 .. n |-> IF k = 0 THEN << >> ELSE walk[k]]
<1>16. all \in [0 .. n -> V]
  <2>1. \A k \in 0 .. n : k # 0 => k \in D
    BY <1>1
  <2>2. << >> \in V
    BY DEF V
  <2> QED BY <1>15, <2>1, <2>2
<1>17. ASSUME NEW k \in D PROVE all[k] = all[k - 1] \o lists[k]
  <2>1. k \in 0 .. n /\ k - 1 \in 0 .. n /\ k # 0
    BY <1>1
  <2>2. CASE k = 1
    <3>1. all[k] = lists[k] /\ all[k - 1] = << >>
      BY <1>11, <2>1, <2>2
    <3>2. << >> \o lists[k] = lists[k]
      BY <1>1 DEF V
    <3> QED BY <3>1, <3>2
  <2>3. CASE k # 1
    <3>1. all[k] = walk[k] /\ all[k - 1] = walk[k - 1]
      BY <2>1, <2>3
    <3> QED BY <1>11, <2>3, <3>1
  <2> QED BY <2>2, <2>3
<1>18. all[0] = << >>
  BY <1>1
<1>19. FlattenSeq(lists) = all[n]
  <2>1. n = 0 => lists = << >>
    OBVIOUS
  <2>2. n \in 0 .. n
    BY <1>1
  <2> HIDE DEF n
  <2> QED BY <1>10, <2>1, <2>2
<1> HIDE DEF all
<1>20. JoinsUp(all, lists)
  BY <1>17, <1>18 DEF JoinsUp
<1> QED BY <1>16, <1>19, <1>20 DEF V

(* What lists of one kind flatten to is a list of that kind.               *)
LEMMA FlattenIsList ==
  ASSUME NEW S, NEW lists \in Seq(Seq(S))
  PROVE  FlattenSeq(lists) \in Seq(S)
<1>1. PICK w \in [0 .. Len(lists) -> Seq(S)] : FlattenSeq(lists) = w[Len(lists)]
  BY FlattenJoinsUp
<1>2. Len(lists) \in 0 .. Len(lists)
  OBVIOUS
<1> QED BY <1>1, <1>2

(* Lists of one at most make a list no longer than there are lists.        *)
LEMMA FlattenIsShort ==
  ASSUME NEW S, NEW lists \in Seq(Seq(S)), \A i \in DOMAIN lists : Len(lists[i]) <= 1
  PROVE  Len(FlattenSeq(lists)) <= Len(lists)
<1> DEFINE n == Len(lists)
<1>1. PICK w \in [0 .. n -> Seq(S)] : JoinsUp(w, lists) /\ FlattenSeq(lists) = w[n]
  BY FlattenJoinsUp
<1> DEFINE good == {k \in Nat : k <= n => Len(w[k]) <= k}
<1>2. n \in Nat /\ n \in 0 .. n
  OBVIOUS
<1>3. 0 \in good
  <2>1. w[0] = << >> /\ Len(<< >>) = 0
    BY <1>1 DEF JoinsUp
  <2> QED BY <2>1
<1>4. ASSUME NEW k \in Nat, k \in good PROVE k + 1 \in good
  <2> SUFFICES ASSUME k + 1 <= n PROVE Len(w[k + 1]) <= k + 1
    OBVIOUS
  <2>1. k \in 0 .. n /\ k + 1 \in 1 .. n /\ (k + 1) - 1 = k /\ Len(w[k]) <= k
    BY <1>2, <1>4
  <2>2. w[k + 1] = w[k] \o lists[k + 1]
    BY <1>1, <2>1 DEF JoinsUp
  <2>3. /\ w[k] \in Seq(S) /\ lists[k + 1] \in Seq(S) /\ Len(lists[k + 1]) <= 1
    BY <1>1, <2>1
  <2>4. Len(w[k + 1]) = Len(w[k]) + Len(lists[k + 1])
    BY <2>2, <2>3
  <2> QED BY <2>1, <2>3, <2>4
<1> HIDE DEF good
<1>5. Nat \subseteq good
  BY <1>3, <1>4, NumberInduction
<1>6. n \in good
  BY <1>2, <1>5
<1> QED BY <1>1, <1>2, <1>6 DEF good

(* Two lists of lists, of which the first have the same to put together    *)
(* once what is empty is left out.                                         *)
LEMMA SameJoins ==
  ASSUME NEW n \in Nat, NEW v, NEW w, v[0] = w[0],
         \A k \in 1 .. n : v[k - 1] = w[k - 1] => v[k] = w[k]
  PROVE  v[n] = w[n]
<1> DEFINE good == {k \in Nat : k <= n => v[k] = w[k]}
<1>1. 0 \in good
  OBVIOUS
<1>2. ASSUME NEW k \in Nat, k \in good PROVE k + 1 \in good
  <2>1. k + 1 <= n => k + 1 \in 1 .. n /\ (k + 1) - 1 = k /\ k <= n
    OBVIOUS
  <2> QED BY <1>2, <2>1
<1> HIDE DEF good
<1>3. Nat \subseteq good
  BY <1>1, <1>2, NumberInduction
<1>4. n \in good
  BY <1>3
<1> QED BY <1>4 DEF good

(* A list more at the end is flattened to the end.                         *)
LEMMA FlattenAppends ==
  ASSUME NEW S, NEW lists \in Seq(Seq(S)), NEW x \in Seq(S)
  PROVE  FlattenSeq(Append(lists, x)) = FlattenSeq(lists) \o x
<1> DEFINE more == Append(lists, x)
           n == Len(lists)
<1>1. /\ more \in Seq(Seq(S)) /\ Len(more) = n + 1 /\ more[n + 1] = x /\ n \in Nat
      /\ \A k \in 1 .. n : more[k] = lists[k]
  OBVIOUS
<1> HIDE DEF more
<1>2. PICK v \in [0 .. Len(lists) -> Seq(S)] : JoinsUp(v, lists) /\ FlattenSeq(lists) = v[Len(lists)]
  BY FlattenJoinsUp
<1>3. PICK w \in [0 .. Len(more) -> Seq(S)] : JoinsUp(w, more) /\ FlattenSeq(more) = w[Len(more)]
  BY <1>1, FlattenJoinsUp
<1>4. v[0] = << >> /\ w[0] = << >>
  BY <1>2, <1>3 DEF JoinsUp
<1>5. \A k \in 1 .. n : v[k] = v[k - 1] \o lists[k] /\ w[k] = w[k - 1] \o lists[k]
  <2> TAKE k \in 1 .. n
  <2>1. k \in 1 .. Len(more) /\ k \in 1 .. Len(lists)
    BY <1>1
  <2> QED BY <1>1, <1>2, <1>3, <2>1 DEF JoinsUp
<1> HIDE DEF n
<1>6. v[n] = w[n]
  <2>1. v[0] = w[0] /\ \A k \in 1 .. n : v[k - 1] = w[k - 1] => v[k] = w[k]
    BY <1>4, <1>5
  <2> QED BY <1>1, <2>1, SameJoins
<1>7. n + 1 \in 1 .. Len(more) /\ (n + 1) - 1 = n
  BY <1>1
<1>8. w[n + 1] = w[n] \o x
  BY <1>1, <1>3, <1>7 DEF JoinsUp
<1> QED BY <1>1, <1>2, <1>3, <1>6, <1>8 DEF more, n

(* Rows are made of lines, one at most of each, and have the columns of    *)
(* their rule.                                                             *)
RowsOfAll(lines, rule) == [i \in DOMAIN lines |-> Row(lines[i], rule)]
MadeOf(L, rule) ==
  {[c \in DOMAIN rule.columns |->
      Convert(Field(l, rule.columns[c])[1], ColumnType(rule, c), rule.strip)] : l \in L}

(* Each line gives no row or one, and every row has the columns of the     *)
(* rule.                                                                   *)
LEMMA RowsAreLists ==
  ASSUME NEW L, NEW lines \in Seq(L), NEW rule
  PROVE  /\ RowsOfAll(lines, rule) \in Seq(Seq(MadeOf(L, rule)))
         /\ Len(RowsOfAll(lines, rule)) = Len(lines)
         /\ \A l \in L : Row(l, rule) \in Seq(MadeOf(L, rule)) /\ Len(Row(l, rule)) <= 1
         /\ \A row \in MadeOf(L, rule) : DOMAIN row = DOMAIN rule.columns
<1> DEFINE row(l) == [c \in DOMAIN rule.columns |->
                        Convert(Field(l, rule.columns[c])[1], ColumnType(rule, c), rule.strip)]
           S == MadeOf(L, rule)
<1>1. ASSUME NEW l \in L PROVE Row(l, rule) \in Seq(S) /\ Len(Row(l, rule)) <= 1
  <2>1. Row(l, rule) = IF TooShort(l, rule) \/ ~Legible(row(l)) THEN << >> ELSE <<row(l)>>
    BY DEF Row
  <2>2. row(l) \in S
    BY DEF MadeOf
  <2> HIDE DEF row, S
  <2>3. << >> \in Seq(S) /\ <<row(l)>> \in Seq(S) /\ Len(<< >>) = 0 /\ Len(<<row(l)>>) = 1
    BY <2>2
  <2> QED BY <2>1, <2>3
<1>2. RowsOfAll(lines, rule) \in Seq(Seq(S)) /\ Len(RowsOfAll(lines, rule)) = Len(lines)
  <2> DEFINE made(l) == Row(l, rule)
  <2>1. RowsOfAll(lines, rule) = [i \in 1 .. Len(lines) |-> made(lines[i])]
    BY DEF RowsOfAll
  <2> HIDE DEF S
  <2>2. \A i \in 1 .. Len(lines) : made(lines[i]) \in Seq(S)
    BY <1>1
  <2> HIDE DEF made
  <2>3. Len(lines) \in Nat
    OBVIOUS
  <2> QED BY <2>1, <2>2, <2>3
<1>3. \A r \in S : DOMAIN r = DOMAIN rule.columns
  BY DEF MadeOf
<1> QED BY <1>1, <1>2, <1>3

(* Empty lines make no rows, so that it does not matter if they are left   *)
(* out before or after the rows are made.                                  *)
LEMMA FilledMakeTheRows ==
  ASSUME NEW L, NEW lines \in Seq(L), NEW rule, Row(<< >>, rule) = << >>
  PROVE  /\ Filled(lines) \in Seq(L)
         /\ FlattenSeq(RowsOfAll(Filled(lines), rule)) = FlattenSeq(RowsOfAll(lines, rule))
<1> DEFINE n == Len(lines)
           kept(l) == IF l = << >> THEN << >> ELSE <<l>>
           all == [i \in DOMAIN lines |-> kept(lines[i])]
           rows == RowsOfAll(lines, rule)
           S == MadeOf(L, rule)
<1>1. /\ n \in Nat /\ DOMAIN lines = 1 .. n /\ \A k \in 1 .. n : lines[k] \in L
  OBVIOUS
<1>2. all \in Seq(Seq(L)) /\ Len(all) = n /\ \A k \in 1 .. n : all[k] = kept(lines[k])
  <2>1. \A l \in L : kept(l) \in Seq(L)
    OBVIOUS
  <2> HIDE DEF kept
  <2>2. DOMAIN all = 1 .. n /\ \A k \in 1 .. n : all[k] = kept(lines[k])
    BY <1>1
  <2>3. \A k \in 1 .. n : all[k] \in Seq(L)
    BY <1>1, <2>1, <2>2
  <2>4. all = [k \in 1 .. n |-> all[k]]
    BY <1>1
  <2> HIDE DEF all
  <2>5. all \in Seq(Seq(L)) /\ Len(all) = n
    BY <1>1, <2>3, <2>4
  <2> QED BY <2>2, <2>5
<1>3. Filled(lines) = FlattenSeq(all)
  BY DEF Filled
<1> HIDE DEF all
<1>4. PICK f \in [0 .. Len(all) -> Seq(L)] : JoinsUp(f, all) /\ FlattenSeq(all) = f[Len(all)]
  BY <1>2, FlattenJoinsUp
<1>5. /\ rows \in Seq(Seq(S)) /\ Len(rows) = Len(lines)
      /\ \A l \in L : Row(l, rule) \in Seq(S)
  BY RowsAreLists
<1>6. \A k \in 1 .. n : rows[k] = Row(lines[k], rule)
  BY <1>1 DEF RowsOfAll
<1> HIDE DEF rows, S
<1>7. PICK w \in [0 .. Len(rows) -> Seq(S)] : JoinsUp(w, rows) /\ FlattenSeq(rows) = w[Len(rows)]
  BY <1>5, FlattenJoinsUp
<1> DEFINE v == [k \in 0 .. n |-> FlattenSeq(RowsOfAll(f[k], rule))]
<1>8. f[0] = << >> /\ \A k \in 1 .. n : f[k] = f[k - 1] \o kept(lines[k]) /\ f[k - 1] \in Seq(L)
  <2>1. \A k \in 1 .. n : k - 1 \in 0 .. Len(all)
    BY <1>1, <1>2
  <2> QED BY <1>2, <1>4, <2>1 DEF JoinsUp
<1>9. v[0] = w[0]
  <2>1. RowsOfAll(<< >>, rule) = << >>
    BY DEF RowsOfAll
  <2>2. FlattenSeq(<< >>) = << >>
    BY DEF FlattenSeq
  <2>3. v[0] = FlattenSeq(RowsOfAll(f[0], rule))
    BY <1>1
  <2>4. w[0] = << >>
    BY <1>7 DEF JoinsUp
  <2> QED BY <1>8, <2>1, <2>2, <2>3, <2>4
<1>10. ASSUME NEW k \in 1 .. n, v[k - 1] = w[k - 1] PROVE v[k] = w[k]
  <2> DEFINE l == lines[k]
             before == f[k - 1]
             made == RowsOfAll(before, rule)
  <2>1. /\ l \in L /\ before \in Seq(L) /\ f[k] = before \o kept(l)
        /\ v[k] = FlattenSeq(RowsOfAll(f[k], rule)) /\ v[k - 1] = FlattenSeq(made)
    <3>1. k \in 0 .. n /\ k - 1 \in 0 .. n
      BY <1>1
    <3>2. v[k] = FlattenSeq(RowsOfAll(f[k], rule)) /\ v[k - 1] = FlattenSeq(made)
      BY <3>1
    <3> HIDE DEF v
    <3> QED BY <1>1, <1>8, <3>2
  <2>2. w[k] = w[k - 1] \o Row(l, rule) /\ w[k - 1] \in Seq(S)
    <3>1. k \in 1 .. Len(rows) /\ k - 1 \in 0 .. Len(rows)
      BY <1>1, <1>5
    <3> QED BY <1>6, <1>7, <3>1 DEF JoinsUp
  <2>3. CASE l = << >>
    <3>1. f[k] = before
      BY <2>1, <2>3
    <3>2. w[k] = w[k - 1]
      <4>1. Row(l, rule) = << >>
        BY <2>3
      <4> HIDE DEF l
      <4> QED BY <2>2, <4>1
    <3> QED BY <1>10, <2>1, <3>1, <3>2
  <2>4. CASE l # << >>
    <3>1. f[k] = Append(before, l)
      <4>1. f[k] = before \o <<l>>
        BY <2>1, <2>4
      <4> HIDE DEF before, l
      <4> QED BY <2>1, <4>1
    <3>2. RowsOfAll(f[k], rule) = Append(made, Row(l, rule)) /\ made \in Seq(Seq(S))
      <4> DEFINE m == Len(before)
                 row(x) == Row(x, rule)
      <4>1. m \in Nat /\ \A i \in 1 .. m : row(before[i]) \in Seq(S)
        <5>1. \A x \in L : row(x) \in Seq(S)
          BY <1>5
        <5> HIDE DEF row, before
        <5>2. Len(before) \in Nat /\ \A i \in 1 .. Len(before) : before[i] \in L
          BY <2>1
        <5> QED BY <5>1, <5>2
      <4>2. made = [i \in 1 .. m |-> row(before[i])]
        BY <2>1 DEF RowsOfAll
      <4>3. RowsOfAll(f[k], rule) = [i \in 1 .. m + 1 |-> row(Append(before, l)[i])]
        <5> DEFINE more == Append(before, l)
        <5>1. RowsOfAll(f[k], rule) = [i \in DOMAIN more |-> row(more[i])]
          BY <3>1 DEF RowsOfAll
        <5>2. DOMAIN more = 1 .. m + 1
          BY <2>1
        <5> QED BY <5>1, <5>2
      <4>4. row(l) \in Seq(S)
        BY <1>5, <2>1
      <4>5. \A i \in 1 .. m + 1 : Append(before, l)[i] = IF i = m + 1 THEN l ELSE before[i]
        BY <2>1
      <4> HIDE DEF row, made, before, l, m
      <4>6. made \in Seq(Seq(S)) /\ Len(made) = m
        BY <4>1, <4>2
      <4>7. RowsOfAll(f[k], rule) = [i \in 1 .. m + 1 |-> IF i = m + 1 THEN row(l) ELSE row(before[i])]
        BY <4>3, <4>5
      <4>8. Append(made, row(l)) = [i \in 1 .. m + 1 |-> IF i = m + 1 THEN row(l) ELSE made[i]]
        <5> DEFINE r == row(l)
        <5>1. r \in Seq(S)
          BY <4>4
        <5> HIDE DEF r
        <5>2. Append(made, r) = [i \in 1 .. m + 1 |-> IF i = m + 1 THEN r ELSE made[i]]
          <6> DEFINE more == Append(made, r)
          <6>1. /\ more \in Seq(Seq(S)) /\ Len(more) = m + 1
                /\ \A i \in 1 .. m + 1 : more[i] = IF i = m + 1 THEN r ELSE made[i]
            BY <4>1, <4>6, <5>1
          <6> HIDE DEF more
          <6>2. more = [i \in 1 .. m + 1 |-> more[i]]
            BY <4>1, <6>1
          <6>3. more = [i \in 1 .. m + 1 |-> IF i = m + 1 THEN r ELSE made[i]]
            BY <6>1, <6>2
          <6> QED BY <6>3 DEF more
        <5> QED BY <5>2 DEF r
      <4>9. \A i \in 1 .. m + 1 : i # m + 1 => made[i] = row(before[i])
        BY <4>1, <4>2
      <4> QED BY <4>6, <4>7, <4>8, <4>9 DEF row
    <3>3. Row(l, rule) \in Seq(S)
      BY <1>5, <2>1
    <3> HIDE DEF made, before, l
    <3>4. FlattenSeq(Append(made, Row(l, rule))) = FlattenSeq(made) \o Row(l, rule)
      BY <3>2, <3>3, FlattenAppends
    <3> QED BY <1>10, <2>1, <2>2, <3>2, <3>4
  <2> QED BY <2>3, <2>4
<1>11. v[n] = w[n]
  <2> HIDE DEF v, n
  <2> QED BY <1>1, <1>9, <1>10, SameJoins
<1>12. v[n] = FlattenSeq(RowsOfAll(f[n], rule)) /\ f[n] \in Seq(L)
  BY <1>1, <1>2, <1>4
<1> QED BY <1>2, <1>3, <1>4, <1>5, <1>7, <1>11, <1>12 DEF rows

(* What a loaded quantity looks for can be looked for in the text.         *)
LEMMA AnchorsAreSearchable ==
  ASSUME TextInv, ~Unread, q.anchor # << >>
  PROVE  Searchable(text, q.anchor)
<1>1. q.anchor \in Seq(STRING)
  BY LoadedIsTyped DEF TypedQuantity
<1>2. q.anchor \in Seq(Alphabet \union STRING)
  BY <1>1
<1>3. text \in Seq(Alphabet \union STRING)
  BY DEF TextInv
<1> QED BY <1>2, <1>3 DEF Searchable

(* Whatever is found, one by one or in turn, occurs in the text.           *)
LEMMA HitsOccur ==
  ASSUME NEW h, NEW needle, Searchable(h, needle), NEW n \in Int
  PROVE  LET all == Occurrences(h, needle, 0, Len(h))
         IN  /\ IterFind(h, needle, 0, Len(h)) \in Seq(all)
             /\ FindNth(h, needle, n, 0, Len(h)) \in all \union {NotFound}
<1> DEFINE all == Occurrences(h, needle, 0, Len(h))
           forward == IterFind(h, needle, 0, Len(h))
           back == IterRfind(h, needle, 0, Len(h))
           hits == IF n >= 0 THEN forward ELSE back
           index == IF n >= 0 THEN n + 1 ELSE -n
<1>1. Len(h) \in Nat /\ Len(h) \in 0 .. Len(h) /\ 0 \in 0 .. Len(h)
  BY SearchableLengths
<1>2. Greedy(forward, h, needle, 0, Len(h))
  BY <1>1, IterFindIsGreedy
<1>3. Descending(back, all)
  BY <1>1, IterRfindDescends
<1> HIDE DEF forward, back
<1>4. forward \in Seq(Int) /\ \A i \in DOMAIN forward : forward[i] \in all
  BY <1>2 DEF Greedy
<1>5. \A i \in DOMAIN back : back[i] \in all
  BY <1>3 DEF Descending
<1> HIDE DEF all
<1>6. forward \in Seq(all)
  BY <1>4
<1>7. FindNth(h, needle, n, 0, Len(h)) = IF index \in DOMAIN hits THEN hits[index] ELSE NotFound
  BY DEF FindNth, forward, back
<1> HIDE DEF index
<1>8. index \in DOMAIN hits => hits[index] \in all
  BY <1>4, <1>5
<1> HIDE DEF hits
<1> QED BY <1>6, <1>7, <1>8 DEF forward, all

(* A quantity is read at an occurrence of its anchor, or from the start.   *)
AtAnchor(at) ==
  \/ q.anchor = << >> /\ at = 0
  \/ q.anchor # << >> /\ at \in 0 .. Len(text) - 1 /\ Byte(text, at) = q.anchor[1]

(* AnchorOffset and every hit in turn is such a place, and none is that of *)
(* an anchor not found.                                                    *)
LEMMA AnchorIsThere ==
  ASSUME TextInv, ~Unread
  PROVE  /\ AnchorOffset(text, q) # NotFound => AtAnchor(AnchorOffset(text, q))
         /\ Repeats(q) => \A i \in DOMAIN Hits : AtAnchor(Hits[i])
         /\ Repeats(q) => Hits \in Seq(0 .. Len(text))
         /\ \A at : AtAnchor(at) => at \in 0 .. Len(text) /\ at # NotFound
<1>1. Len(text) \in Nat
  BY DEF TextInv
<1>2. Nth(q) \in Int
  BY LoadedIsTyped DEF TypedQuantity
<1>3. q.anchor = << >> => ~Repeats(q)
  BY LoadedIsValid DEF ValidQuantity, Readable, Toml
<1>4. \A at : AtAnchor(at) => at \in 0 .. Len(text) /\ at # NotFound
  BY <1>1 DEF AtAnchor, NotFound
<1>5. CASE q.anchor = << >>
  BY <1>3, <1>4, <1>5 DEF AnchorOffset, AtAnchor
<1>6. CASE q.anchor # << >>
  <2> DEFINE all == Occurrences(text, q.anchor, 0, Len(text))
  <2>1. Searchable(text, q.anchor)
    BY <1>6, AnchorsAreSearchable
  <2>2. Hits \in Seq(all) /\ AnchorOffset(text, q) \in all \union {NotFound}
    BY <1>2, <1>6, <2>1, HitsOccur DEF Hits, AnchorOffset
  <2>3. \A at \in all : AtAnchor(at)
    BY <1>6, <2>1, HitsAreThere DEF AtAnchor
  <2> HIDE DEF all
  <2>4. \A i \in DOMAIN Hits : Hits[i] \in all
    BY <2>2
  <2>5. Hits \in Seq(0 .. Len(text))
    BY <1>4, <2>2, <2>3
  <2> QED BY <1>4, <2>2, <2>3, <2>4, <2>5
<1> QED BY <1>5, <1>6

-----------------------------------------------------------------------------
(* The lines of a block, split.                                            *)
FieldLists(h) == {Split(h, line) : line \in LinesOfText(h)}

(* What a line is split into is a list.                                    *)
LEMMA LinesAreLists ==
  ASSUME NEW h, IsText(h)
  PROVE  \A fields \in FieldLists(h) :
           Len(fields) \in Nat /\ DOMAIN fields = 1 .. Len(fields)
<1> SUFFICES ASSUME NEW line \in LinesOfText(h)
             PROVE  Len(Split(h, line)) \in Nat /\ DOMAIN Split(h, line) = 1 .. Len(Split(h, line))
  BY DEF FieldLists
<1>1. line[1] \in Int /\ line[2] \in Int /\ Len(h) \in Nat
  BY LinesAreTyped, TextsHaveNewlines
<1> QED BY <1>1, SplitIsList

(* The lines of a span are split one by one.                               *)
LEMMA LinesAreSplit ==
  ASSUME NEW h, IsText(h), NEW span, span[1] \in 0 .. Len(h), span[2] \in 0 .. Len(h)
  PROVE  SplitLines(h, span) \in Seq(FieldLists(h)) /\ Len(SplitLines(h, span)) = Len(LinesOf(h, span))
<1> DEFINE lines == LineSpans(h, span[1], span[2])
           split(line) == Split(h, line)
<1>1. lines \in Seq(LinesOfText(h))
  BY LinesInWindow
<1>2. \A line \in LinesOfText(h) : split(line) \in FieldLists(h)
  BY DEF FieldLists
<1>3. SplitLines(h, span) = [i \in DOMAIN lines |-> split(lines[i])] /\ LinesOf(h, span) = lines
  BY DEF SplitLines, SplitEach, LinesOf
<1> HIDE DEF lines, split
<1> QED BY <1>1, <1>2, <1>3

(* Columns counted from the left never miss: the rows are there.           *)
LEMMA RowsAreMade ==
  ASSUME NEW rule, TypedParse(rule), ColumnsUpward(rule), NEW L, NEW lines \in Seq(L),
         \A fields \in L : Len(fields) \in Nat /\ DOMAIN fields = 1 .. Len(fields)
  PROVE  RowsOf(lines, rule) = <<FlattenSeq(RowsOfAll(lines, rule))>>
<1>1. \A i \in DOMAIN lines : ~RowRaises(lines[i], rule)
  <2>1. \A i \in DOMAIN lines : lines[i] \in L
    OBVIOUS
  <2> QED BY <2>1, NoRowRaises
<1> QED BY <1>1 DEF RowsOf, RowsOfAll

-----------------------------------------------------------------------------
(* What there is to read is present, or missing when there is none of it.  *)
LEMMA OneOrNone ==
  ASSUME NEW rows, NEW at, NEW why
  PROVE  PresentOr(<<rows>>, at, why) = IF rows = << >> THEN Missing(why) ELSE Present(rows, at)
<1>1. <<rows>> # << >> /\ (<<rows>> = <<<< >>>> <=> rows = << >>)
  OBVIOUS
<1> QED BY <1>1 DEF PresentOr

(* The kinds of value.                                                     *)
LEMMA KindsOfValue ==
  ASSUME NEW x, NEW at, NEW why
  PROVE  /\ Missing(why).kind = "missing" /\ Missing(why).why = why
         /\ Present(x, at).kind = "present" /\ Present(x, at).value = x /\ Present(x, at).at = at
BY DEF Missing, Present

(* Where a block is.                                                       *)
LEMMA SpanLiesInText ==
  ASSUME NEW h, IsText(h), NEW at \in 0 .. Len(h), NEW block, TypedBlock(block)
  PROVE  LET span == SpanOf(h, at, block)
             from == AdvanceLines(h, at, block.skip)
         IN  /\ span[1] = from /\ from \in 0 .. Len(h) /\ span[2] \in from .. Len(h)
             /\ span[2] \in 0 .. Len(h)
<1> DEFINE span == SpanOf(h, at, block)
           from == AdvanceLines(h, at, block.skip)
<1>1. block.skip \in Int /\ Len(h) \in Nat
  BY TextsHaveNewlines DEF TypedBlock
<1>2. span[1] = from /\ from \in 0 .. Len(h) /\ span[2] \in from .. Len(h)
  BY <1>1, BlockLiesInText DEF SpanOf
<1> HIDE DEF span, from
<1> QED BY <1>1, <1>2 DEF span, from

(* The rows of a block, in Python: the empty lines may be left out first.  *)
LEMMA RowsOfBlock ==
  ASSUME NEW h, IsText(h), NEW at \in 0 .. Len(h), NEW block, TypedBlock(block),
         NEW rule, TypedParse(rule), ColumnsUpward(rule)
  PROVE  LET span == SpanOf(h, at, block) IN
         \E rows \in Seq(MadeOf(FieldLists(h), rule)) :
           /\ SlowRows(h, span, rule) = <<rows>>
           /\ RowsOf(Filled(SplitLines(h, span)), rule) = <<rows>>
           /\ Len(rows) <= Len(LinesOf(h, span))
<1> DEFINE span == SpanOf(h, at, block)
           lines == SplitLines(h, span)
           all == RowsOfAll(lines, rule)
           rows == FlattenSeq(all)
           S == MadeOf(FieldLists(h), rule)
<1>1. span[1] \in 0 .. Len(h) /\ span[2] \in 0 .. Len(h)
  BY SpanLiesInText
<1> HIDE DEF span
<1>2. lines \in Seq(FieldLists(h)) /\ Len(lines) = Len(LinesOf(h, span))
  BY <1>1, LinesAreSplit
<1>3. \A fields \in FieldLists(h) : Len(fields) \in Nat /\ DOMAIN fields = 1 .. Len(fields)
  BY LinesAreLists
<1>4. SlowRows(h, span, rule) = <<rows>>
  BY <1>2, <1>3, RowsAreMade DEF SlowRows
<1> HIDE DEF lines
<1>5. /\ all \in Seq(Seq(S)) /\ Len(all) = Len(lines)
      /\ \A i \in DOMAIN all : Len(all[i]) <= 1
  <2>1. /\ all \in Seq(Seq(S)) /\ Len(all) = Len(lines)
        /\ \A l \in FieldLists(h) : Len(Row(l, rule)) <= 1
    BY <1>2, RowsAreLists
  <2>2. DOMAIN all = DOMAIN lines /\ \A i \in DOMAIN lines : all[i] = Row(lines[i], rule)
    BY DEF RowsOfAll
  <2> HIDE DEF all
  <2>3. \A i \in DOMAIN lines : lines[i] \in FieldLists(h)
    BY <1>2
  <2> QED BY <2>1, <2>2, <2>3
<1>6. /\ Filled(lines) \in Seq(FieldLists(h))
      /\ FlattenSeq(RowsOfAll(Filled(lines), rule)) = rows
  BY <1>2, NoRowRaises, FilledMakeTheRows
<1>7. RowsOf(Filled(lines), rule) = <<rows>>
  BY <1>3, <1>6, RowsAreMade
<1> HIDE DEF all, S
<1>8. rows \in Seq(S) /\ Len(rows) <= Len(lines)
  BY <1>5, FlattenIsList, FlattenIsShort
<1> HIDE DEF rows
<1> QED BY <1>2, <1>4, <1>7, <1>8 DEF span, lines, S

(* A block never raises, in Python or compiled.                            *)
LEMMA BlockIsRead ==
  ASSUME NEW h, IsText(h), NEW at \in 0 .. Len(h), NEW block, TypedBlock(block),
         NEW rule, TypedParse(rule), ColumnsUpward(rule), NEW compiled \in BOOLEAN,
         compiled => \A c \in DOMAIN rule.columns : ColumnType(rule, c) # IntType
  PROVE  \E rows : RowsIn(h, SpanOf(h, at, block), rule, compiled) = <<rows>>
<1> DEFINE span == SpanOf(h, at, block)
<1>1. \E rows : SlowRows(h, span, rule) = <<rows>>
  BY RowsOfBlock
<1>2. compiled => \E rows : FastRows(h, span, rule) = <<rows>>
  BY DEF FastRows, NoInfiniteInt
<1> QED BY <1>1, <1>2 DEF RowsIn

(* A conversion gives one value or none.                                   *)
LEMMA ConvertsToOne ==
  ASSUME NEW raw, NEW type \in ScalarTypes, NEW strip, Convert(raw, type, strip) # << >>
  PROVE  Convert(raw, type, strip) = <<Convert(raw, type, strip)[1]>>
<1> DEFINE ink == Trim(raw, ToSet(strip))
<1>1. Convert(raw, type, strip) = Parsed(ink, type)
  BY DEF Convert
<1> HIDE DEF ink
<1>2. PyInt(ink) # << >> => PyInt(ink) = <<PyInt(ink)[1]>>
  BY DEF PyInt
<1>3. PyFloat(ink) # << >> => PyFloat(ink) = <<PyFloat(ink)[1]>>
  BY <1>2 DEF PyFloat
<1>4. Parsed(ink, type)
        = CASE type = StrType -> <<ink>>
            [] type = IntType -> PyInt(ink)
            [] type = FloatType -> PyFloat(ink)
  BY DEF Parsed
<1> QED BY <1>1, <1>2, <1>3, <1>4 DEF ScalarTypes, StrType, IntType, FloatType

(* The items of lines are there, one at most of each.                      *)
LEMMA ItemsAreRead ==
  ASSUME NEW rule, TypedParse(rule), ColumnsUpward(rule), NEW L, NEW lines \in Seq(L),
         \A fields \in L : Len(fields) \in Nat /\ DOMAIN fields = 1 .. Len(fields)
  PROVE  \E items : /\ ItemsOf(lines, rule) = <<items>> /\ Len(items) <= Len(lines)
                    /\ ReadsTable(rule) => items \in Seq(MadeOf(L, rule))
<1>1. CASE ReadsTable(rule)
  <2> DEFINE all == RowsOfAll(lines, rule)
             S == MadeOf(L, rule)
  <2>1. /\ all \in Seq(Seq(S)) /\ Len(all) = Len(lines)
        /\ \A l \in L : Len(Row(l, rule)) <= 1
    BY RowsAreLists
  <2>2. DOMAIN all = DOMAIN lines /\ \A i \in DOMAIN lines : all[i] = Row(lines[i], rule)
    BY DEF RowsOfAll
  <2>3. \A i \in DOMAIN lines : lines[i] \in L
    OBVIOUS
  <2>4. ItemsOf(lines, rule) = <<FlattenSeq(all)>>
    BY <1>1, RowsAreMade DEF ItemsOf
  <2> HIDE DEF all, S
  <2>5. FlattenSeq(all) \in Seq(S) /\ Len(FlattenSeq(all)) <= Len(lines)
    BY <2>1, <2>2, <2>3, FlattenIsList, FlattenIsShort
  <2> QED BY <2>4, <2>5 DEF S
<1>2. CASE ~ReadsTable(rule)
  <2> DEFINE text_(l) == IF rule.field = << >> THEN << >> ELSE Field(l, rule.field[1])
             value(l) == Convert(text_(l)[1], rule.type, rule.strip)
             item(l) == ItemOf(l, rule)
             S == {value(l)[1] : l \in L}
             all == [i \in DOMAIN lines |-> item(lines[i])]
  <2>1. ASSUME NEW l \in L PROVE item(l) \in Seq(S) /\ Len(item(l)) <= 1
    <3>1. item(l) = IF text_(l) = << >> THEN << >> ELSE value(l)
      BY DEF ItemOf
    <3>2. value(l) # << >> => value(l) = <<value(l)[1]>>
      BY ConvertsToOne DEF TypedParse
    <3> DEFINE v == value(l)[1]
    <3>3. v \in S
      OBVIOUS
    <3> HIDE DEF item, value, S
    <3>4. item(l) = << >> \/ item(l) = <<v>>
      BY <3>1, <3>2
    <3> HIDE DEF v
    <3>5. << >> \in Seq(S) /\ <<v>> \in Seq(S) /\ Len(<< >>) = 0 /\ Len(<<v>>) = 1
      BY <3>3
    <3>6. CASE item(l) = << >>
      BY <3>5, <3>6
    <3>7. CASE item(l) = <<v>>
      BY <3>5, <3>7
    <3> QED BY <3>4, <3>6, <3>7
  <2>2. ItemsOf(lines, rule) = <<FlattenSeq(all)>>
    BY <1>2 DEF ItemsOf
  <2> HIDE DEF item, S
  <2>3. /\ all \in Seq(Seq(S)) /\ Len(all) = Len(lines)
        /\ \A i \in DOMAIN all : Len(all[i]) <= 1
    <3>1. /\ DOMAIN lines = 1 .. Len(lines) /\ Len(lines) \in Nat
          /\ \A i \in 1 .. Len(lines) : lines[i] \in L
      OBVIOUS
    <3>2. all = [i \in 1 .. Len(lines) |-> item(lines[i])]
      BY <3>1
    <3>3. \A i \in 1 .. Len(lines) : item(lines[i]) \in Seq(S) /\ Len(item(lines[i])) <= 1
      BY <2>1, <3>1
    <3> HIDE DEF all
    <3> QED BY <3>1, <3>2, <3>3
  <2> HIDE DEF all
  <2>4. Len(FlattenSeq(all)) <= Len(lines)
    BY <2>3, FlattenIsShort
  <2> QED BY <1>2, <2>2, <2>4
<1> QED BY <1>1, <1>2

(* A scalar does not raise: it is read, or it is said why it is not.       *)
LEMMA ScalarsAreRead ==
  ASSUME NEW h, NEW quantity, NEW at
  PROVE  ScalarValue(h, quantity, at).kind \in {"present", "missing"}
<1> DEFINE texts == Texts(h, quantity, LineSpan(h, ReadFrom(h, quantity, at)))
<1> HIDE DEF texts
<1>1. ValueOf(texts, quantity.parse, at).kind \in {"present", "missing"}
  BY DEF ValueOf, Converted, Missing, Present
<1> QED BY <1>1 DEF ScalarValue, texts

(* The lines of the anchors, split.                                        *)
LEMMA LinesOfHits ==
  ASSUME NEW h, IsText(h), NEW offsets \in Seq(0 .. Len(h))
  PROVE  LET lines == [i \in DOMAIN offsets |-> Split(h, LineSpan(h, offsets[i]))]
             L == {Split(h, LineSpan(h, o)) : o \in 0 .. Len(h)}
         IN  /\ lines \in Seq(L) /\ Len(lines) = Len(offsets)
             /\ \A fields \in L : Len(fields) \in Nat /\ DOMAIN fields = 1 .. Len(fields)
<1> DEFINE split(o) == Split(h, LineSpan(h, o))
           lines == [i \in DOMAIN offsets |-> split(offsets[i])]
           L == {split(o) : o \in 0 .. Len(h)}
<1>1. ASSUME NEW o \in 0 .. Len(h)
      PROVE  Len(split(o)) \in Nat /\ DOMAIN split(o) = 1 .. Len(split(o))
  <2>1. LineStart(h, o) \in 0 .. o /\ LineEnd(h, o) \in o .. Len(h) /\ o \in Nat /\ Len(h) \in Nat
    BY LineStartOf, LineEndOf, TextsHaveNewlines
  <2>2. LineSpan(h, o)[1] \in Int /\ LineSpan(h, o)[2] \in Int
    BY <2>1 DEF LineSpan
  <2> QED BY <2>1, <2>2, SplitIsList
<1>2. lines \in Seq(L) /\ Len(lines) = Len(offsets)
  <2> HIDE DEF split
  <2> QED OBVIOUS
<1> QED BY <1>1, <1>2

(* A loaded quantity is read without an exception.                         *)
LEMMA QuantityIsRead ==
  ASSUME TextInv, ~Unread, Upward, NEW compiled \in BOOLEAN, compiled => NoInts
  PROVE  ExtractQuantity(text, q, compiled).kind # "raised"
<1> DEFINE at == AnchorOffset(text, q)
<1>1. IsText(text) /\ Len(text) \in Nat
  BY DEF TextInv, IsText
<1>2. TypedParse(q.parse) /\ ColumnsUpward(q.parse) /\ (q.block # << >> => TypedBlock(q.block[1]))
  BY LoadedIsTyped DEF TypedQuantity, Upward, ColumnsUpward
<1>3. compiled => \A c \in DOMAIN q.parse.columns : ColumnType(q.parse, c) # IntType
  BY DEF NoInts
<1>4. /\ at # NotFound => at \in 0 .. Len(text)
      /\ Repeats(q) => Hits \in Seq(0 .. Len(text))
  BY AnchorIsThere
<1>5. CASE Repeats(q) /\ Hits = << >>
  BY <1>5 DEF ExtractQuantity, RepeatedValue, Hits, Missing
<1>6. CASE Repeats(q) /\ Hits # << >> /\ q.block # << >> /\ ReadsTable(q.parse)
  <2> DEFINE blocks == [i \in DOMAIN Hits |-> BlockRows(text, q, Hits[i], compiled)]
  <2>1. \A i \in DOMAIN Hits : Hits[i] \in 0 .. Len(text)
    BY <1>4, <1>6
  <2>2. ASSUME NEW i \in DOMAIN Hits PROVE blocks[i] # << >>
    <3>1. \E rows : BlockRows(text, q, Hits[i], compiled) = <<rows>>
      BY <1>1, <1>2, <1>3, <1>6, <2>1, BlockIsRead DEF BlockRows
    <3> QED BY <3>1
  <2>3. \E rows : StepThrough(blocks) = <<rows>>
    BY <2>2 DEF StepThrough
  <2>4. ExtractQuantity(text, q, compiled) = PresentOr(StepThrough(blocks), Hits[1], "rows")
    BY <1>6 DEF ExtractQuantity, RepeatedValue, RepeatedBlocks, Hits
  <2> HIDE DEF blocks
  <2> QED BY <2>3, <2>4, OneOrNone, KindsOfValue
<1>7. CASE Repeats(q) /\ Hits # << >> /\ ~(q.block # << >> /\ ReadsTable(q.parse))
  <2> DEFINE split(at_) == Split(text, LineSpan(text, at_))
             lines == [i \in DOMAIN Hits |-> split(Hits[i])]
             L == {split(o) : o \in 0 .. Len(text)}
  <2>2. /\ lines \in Seq(L)
        /\ \A fields \in L : Len(fields) \in Nat /\ DOMAIN fields = 1 .. Len(fields)
    BY <1>1, <1>4, <1>7, LinesOfHits
  <2>3. ExtractQuantity(text, q, compiled) = PresentOr(ItemsOf(lines, q.parse), Hits[1], "nothing")
    BY <1>7 DEF ExtractQuantity, RepeatedValue, RepeatedLines, Hits
  <2> HIDE DEF lines, L
  <2>4. \E items : ItemsOf(lines, q.parse) = <<items>>
    BY <1>2, <2>2, ItemsAreRead
  <2> QED BY <2>3, <2>4, OneOrNone, KindsOfValue
<1>8. CASE ~Repeats(q) /\ at = NotFound
  BY <1>8 DEF ExtractQuantity, ValueAt, Missing
<1>9. CASE ~Repeats(q) /\ at # NotFound /\ ReadsTable(q.parse)
  <2>1. ExtractQuantity(text, q, compiled) = TableValue(text, q, at) /\ at \in 0 .. Len(text)
    BY <1>4, <1>9 DEF ExtractQuantity, ValueAt
  <2> HIDE DEF at
  <2>2. CASE q.block = << >>
    BY <2>1, <2>2 DEF TableValue, Missing
  <2>3. CASE q.block # << >>
    <3> DEFINE made == RowsOf(Filled(SplitLines(text, SpanOf(text, at, q.block[1]))), q.parse)
    <3>1. \E rows : made = <<rows>>
      BY <1>1, <1>2, <2>1, <2>3, RowsOfBlock
    <3>2. ExtractQuantity(text, q, compiled) = PresentOr(made, at, "rows")
      BY <2>1, <2>3 DEF TableValue
    <3> HIDE DEF made
    <3> QED BY <3>1, <3>2, OneOrNone, KindsOfValue
  <2> QED BY <2>2, <2>3
<1>10. CASE ~Repeats(q) /\ at # NotFound /\ ~ReadsTable(q.parse)
  BY <1>10, ScalarsAreRead DEF ExtractQuantity, ValueAt
<1> QED BY <1>5, <1>6, <1>7, <1>8, <1>9, <1>10

(* "Nothing here raises. A quantity that could not be read comes back as a *)
(* value of None with a reason attached" (value.py:7-8), of columns that   *)
(* are counted from the left and, where C parses them, are no ints.        *)
THEOREM NothingEverRaises == Spec => []NothingRaises
<1>1. TextInv => NothingRaises
  <2> SUFFICES ASSUME TextInv, ~Unread, Upward, NEW compiled \in BOOLEAN, NEW hook \in Hooks,
                      compiled => NoInts
               PROVE  Extracted(text, q, hook, compiled).kind # "raised"
    BY DEF NothingRaises
  <2>1. CASE hook = "none"
    BY <2>1, QuantityIsRead DEF Extracted
  <2>2. CASE hook # "none"
    BY <2>2 DEF Extracted, RunHook, Hooks, Missing, Present
  <2> QED BY <2>1, <2>2
<1> QED BY <1>1, TextInvariant, PTL

(* The first line that overlaps a window starts at or before the window.   *)
LEMMA FirstOfWindow ==
  ASSUME NEW h, IsText(h), NEW from \in 0 .. Len(h), NEW to \in from .. Len(h),
         LineSpans(h, from, to) # << >>
  PROVE  LineSpans(h, from, to)[1] = <<LineStart(h, from), LineEnd(h, LineStart(h, from))>>
<1> DEFINE p == LineStart(h, from)
           line == <<p, LineEnd(h, p)>>
           rest == IF EndsAt(h, p) + 1 >= Len(h) THEN << >> ELSE LineSpans(h, EndsAt(h, p) + 1, to)
<1>1. Len(h) \in Nat /\ from \in Nat /\ to \in 0 .. Len(h)
  BY TextsHaveNewlines
<1>2. p \in 0 .. from /\ StartsLine(h, p)
  BY LineStartOf
<1>3. p \in 0 .. Len(h) /\ p \in 0 .. p /\ ~(p > to)
  BY <1>1, <1>2
<1>4. LineStart(h, p) = p
  <2> HIDE DEF p
  <2>1. Newlines(h, p, p) = {}
    BY <1>1, <1>3 DEF Newlines
  <2> QED BY <1>2, <1>3, <2>1, LineStartUnique
<1>5. LineSpans(h, from, to) = LineSpans(h, p, to)
  BY <1>4 DEF LineSpans
<1>6. h # << >>
  BY DEF LineSpans
<1>7. LineSpans(h, p, to) = <<line>> \o rest
  BY <1>1, <1>2, <1>3, <1>6, LineSpansUnfold
<1>8. rest \in Seq(LinesOfText(h))
  <2>1. CASE EndsAt(h, p) + 1 >= Len(h)
    BY <2>1
  <2>2. CASE ~(EndsAt(h, p) + 1 >= Len(h))
    <3>1. EndsAt(h, p) \in p .. Len(h) /\ EndsAt(h, p) \in Nat
      BY <1>3, LineEndOf
    <3>2. EndsAt(h, p) + 1 \in 0 .. Len(h)
      BY <1>1, <2>2, <3>1
    <3> QED BY <1>1, <2>2, <3>2, LinesInWindow
  <2> QED BY <2>1, <2>2
<1> HIDE DEF line, rest
<1>9. (<<line>> \o rest)[1] = line
  BY <1>8
<1> QED BY <1>5, <1>7, <1>9 DEF line

-----------------------------------------------------------------------------
(* The line of an explanation is the line of the anchor.                   *)
LEMMA LineOfAnchor ==
  ASSUME TextInv, ~Unread, NEW at, AtAnchor(at)
  PROVE  LET lines == LineSpans(text, 0, Len(text))
             number == LineNumber(text, at)
         IN  /\ number > Len(lines) => at = Len(text)
             /\ number \in DOMAIN lines => SameLine(lines[number], at, ~OnNewline)
<1> DEFINE lines == LineSpans(text, 0, Len(text))
           number == LineNumber(text, at)
<1>1. IsText(text) /\ Len(text) \in Nat /\ at \in 0 .. Len(text)
  BY AnchorIsThere DEF TextInv, IsText
<1>2. CASE at = Len(text)
  <2>1. text = << >>
    BY <1>1, <1>2 DEF AtAnchor, TextInv
  <2>2. lines = << >>
    BY <2>1, NoLines
  <2>3. DOMAIN lines = {}
    BY <2>2
  <2> HIDE DEF lines, number
  <2> QED BY <1>2, <2>3 DEF lines, number
<1>3. CASE at # Len(text)
  <2>1. at \in 0 .. Len(text) - 1
    BY <1>1, <1>3
  <2>2. /\ number \in DOMAIN lines
        /\ lines[number] = <<LineStart(text, at), LineEnd(text, LineStart(text, at))>>
    BY <1>1, <2>1, LineOfOffset
  <2>3. ~OnNewline => LineEnd(text, at) = LineEnd(text, LineStart(text, at))
    <3>1. CASE q.anchor = << >>
      <4>1. at = 0 /\ 0 \in 0 .. 0
        BY <3>1 DEF AtAnchor
      <4>2. LineStart(text, 0) = 0
        BY <1>1, LineStartOf, <4>1
      <4> QED BY <4>1, <4>2
    <3>2. CASE q.anchor # << >>
      <4>1. ~OnNewline => Byte(text, at) # "\n"
        BY <3>2 DEF AtAnchor, OnNewline
      <4> QED BY <1>1, <2>1, <4>1, LineEndInside
    <3> QED BY <3>1, <3>2
  <2>4. ~(number > Len(lines))
    <3>1. lines \in Seq(LinesOfText(text))
      BY <1>1, LinesInWindow
    <3> HIDE DEF lines, number
    <3> QED BY <2>2, <3>1
  <2> HIDE DEF lines, number
  <2>5. SameLine(lines[number], at, ~OnNewline)
    BY <2>2, <2>3 DEF SameLine, LineSpan
  <2> QED BY <2>4, <2>5 DEF lines, number
<1> QED BY <1>2, <1>3

(* A block is shown from the line on that a scalar would be read from.     *)
LEMMA PreviewBegins ==
  ASSUME TextInv, ~Unread, NEW at \in 0 .. Len(text), at # NotFound,
         Upto(Preview, BlockLines(text, q, at)) # << >>
  PROVE  SameLine(Upto(Preview, BlockLines(text, q, at))[1], ReadFrom(text, q, at), Reached(at))
<1> DEFINE lines == BlockLines(text, q, at)
           span == SpanOf(text, at, q.block[1])
           from == AdvanceLines(text, at, q.block[1].skip)
           line == <<LineStart(text, from), LineEnd(text, LineStart(text, from))>>
<1>1. IsText(text) /\ Len(text) \in Nat
  BY DEF TextInv, IsText
<1>2. Upto(Preview, lines)[1] = lines[1] /\ lines # << >>
  <2> HIDE DEF lines
  <2>1. Upto(Preview, lines) = SubSeq(lines, 1, Min({Preview, Len(lines)}))
    BY DEF Upto
  <2>2. lines \in Seq(LinesOfText(text))
    <3>1. CASE q.block = << >>
      BY <3>1 DEF BlockLines, lines
    <3>2. CASE q.block # << >>
      <4>1. span[1] \in 0 .. Len(text) /\ span[2] \in 0 .. Len(text)
        BY <1>1, <3>2, LoadedIsTyped, SpanLiesInText DEF TypedQuantity
      <4> HIDE DEF span
      <4>2. lines = LineSpans(text, span[1], span[2])
        BY <3>2 DEF BlockLines, LinesOf, lines, span
      <4> QED BY <1>1, <4>1, <4>2, LinesInWindow
    <3> QED BY <3>1, <3>2
  <2>3. Min({Preview, Len(lines)}) = IF Preview <= Len(lines) THEN Preview ELSE Len(lines)
    BY <2>2, PreviewAssumption DEF Min
  <2> DEFINE m == Min({Preview, Len(lines)})
  <2>4. m \in 0 .. Len(lines) /\ Len(lines) \in Nat /\ m \in Nat
    BY <2>2, <2>3, PreviewAssumption
  <2> HIDE DEF m
  <2>5. SubSeq(lines, 1, m) # << >>
    BY <2>1 DEF m, lines
  <2>6. m # 0
    <3>1. SubSeq(lines, 1, 0) = << >>
      BY <2>2
    <3> QED BY <2>5, <3>1
  <2>7. m \in 1 .. Len(lines) /\ 1 \in 1 .. m
    BY <2>4, <2>6
  <2>8. SubSeq(lines, 1, m)[1] = lines[1]
    BY <2>2, <2>7, FirstItems
  <2>9. lines # << >>
    BY <2>7
  <2> QED BY <2>1, <2>8, <2>9 DEF m
<1>3. q.block # << >> /\ lines = LineSpans(text, span[1], span[2])
  BY <1>2 DEF BlockLines, LinesOf
<1> HIDE DEF lines
<1>4. span[1] = from /\ from \in 0 .. Len(text) /\ span[2] \in from .. Len(text)
  BY <1>1, <1>3, LoadedIsTyped, SpanLiesInText DEF TypedQuantity
<1>5. StartsLine(text, from) \/ from = Len(text)
  BY <1>1, <1>3, LoadedIsTyped, AdvanceReachesLine DEF TypedQuantity, TypedBlock
<1>6. ReadFrom(text, q, at) = from
  BY <1>3 DEF ReadFrom
<1> HIDE DEF from, span
<1>7. lines[1] = line
  BY <1>1, <1>2, <1>3, <1>4, FirstOfWindow
<1>8. Reached(at) => LineStart(text, from) = from
  <2> SUFFICES ASSUME Reached(at) PROVE LineStart(text, from) = from
    OBVIOUS
  <2>1. StartsLine(text, from) /\ from \in 0 .. from /\ Newlines(text, from, from) = {}
    BY <1>1, <1>4, <1>5, <1>6 DEF Reached, Newlines
  <2> QED BY <1>1, <1>4, <2>1, LineStartUnique
<1>9. SameLine(line, from, Reached(at))
  BY <1>8 DEF SameLine, LineSpan
<1> QED BY <1>2, <1>6, <1>7, <1>9 DEF lines

-----------------------------------------------------------------------------
(* An answer is of the anchor it was read at, if it is not that there is   *)
(* nothing to read there.                                                  *)
Answers(value, at) ==
  \/ \E why : why # "anchor" /\ value = Missing(why)
  \/ \E x : value = Present(x, at)

(* So it does not say that the anchor is missing, and a value names the    *)
(* anchor it was read at.                                                  *)
LEMMA AnswersAreThere ==
  ASSUME NEW value, NEW at, Answers(value, at)
  PROVE  value # Missing("anchor") /\ (IsPresent(value) => value.at = at)
BY KindsOfValue DEF Answers, IsPresent

HasColumns(value) == DOMAIN q.parse.columns \subseteq DOMAIN value.value[1]

(* What there is at the anchor: no more rows than lines, with the columns  *)
(* of their rule.                                                          *)
LEMMA AnswerHere ==
  ASSUME TextInv, ~Unread, Upward, ~Repeats(q), AnchorOffset(text, q) # NotFound
  PROVE  LET at == AnchorOffset(text, q)
             value == Of(q, FALSE)
         IN  /\ Answers(value, at)
             /\ IsPresent(value) /\ ~Scalar =>
                  Len(value.value) <= Len(BlockLines(text, q, at)) /\ HasColumns(value)
<1> DEFINE at == AnchorOffset(text, q)
           value == Of(q, FALSE)
<1>1. IsText(text) /\ at \in 0 .. Len(text)
  BY AnchorIsThere DEF TextInv, IsText
<1>2. TypedParse(q.parse) /\ ColumnsUpward(q.parse) /\ (q.block # << >> => TypedBlock(q.block[1]))
  BY LoadedIsTyped DEF TypedQuantity, Upward, ColumnsUpward
<1>3. CASE Scalar
  <2>1. value = ScalarValue(text, q, at)
    BY <1>3 DEF Of, ExtractQuantity, ValueAt, Scalar
  <2> DEFINE texts == Texts(text, q, LineSpan(text, ReadFrom(text, q, at)))
  <2>2. ScalarValue(text, q, at) = ValueOf(texts, q.parse, at)
    BY DEF ScalarValue
  <2> HIDE DEF texts, at, value
  <2>3. Answers(ValueOf(texts, q.parse, at), at)
    BY DEF Answers, ValueOf, Converted
  <2> QED BY <1>3, <2>1, <2>2, <2>3 DEF at, value
<1>4. CASE ~Scalar
  <2> DEFINE span == SpanOf(text, at, q.block[1])
             S == MadeOf(FieldLists(text), q.parse)
  <2>1. value = TableValue(text, q, at)
    BY <1>4 DEF Of, ExtractQuantity, ValueAt, Scalar
  <2>2. q.block # << >>
    BY <1>4, LoadedIsValid DEF ValidQuantity, Readable, Toml, Scalar
  <2>3. value = PresentOr(RowsOf(Filled(SplitLines(text, span)), q.parse), at, "rows")
    BY <2>1, <2>2 DEF TableValue
  <2>4. BlockLines(text, q, at) = LinesOf(text, span)
    BY <2>2 DEF BlockLines
  <2> HIDE DEF at, value
  <2>5. PICK rows \in Seq(S) : /\ RowsOf(Filled(SplitLines(text, span)), q.parse) = <<rows>>
                               /\ Len(rows) <= Len(LinesOf(text, span))
    BY <1>1, <1>2, <2>2, RowsOfBlock
  <2>6. \A row \in S : DOMAIN row = DOMAIN q.parse.columns
    BY DEF MadeOf
  <2> HIDE DEF S, span
  <2>7. value = IF rows = << >> THEN Missing("rows") ELSE Present(rows, at)
    BY <2>3, <2>5, OneOrNone
  <2>8. rows # << >> => DOMAIN rows[1] = DOMAIN q.parse.columns
    <3>1. rows # << >> => rows[1] \in S
      BY <2>5
    <3> QED BY <2>6, <3>1
  <2>9. Answers(value, at)
    BY <2>7 DEF Answers
  <2>10. IsPresent(value) => value.value = rows /\ rows # << >>
    BY <2>7, KindsOfValue DEF IsPresent
  <2> QED BY <2>4, <2>5, <2>8, <2>9, <2>10 DEF HasColumns, at, value
<1> QED BY <1>3, <1>4

(* What there is at every anchor.                                          *)
LEMMA AnswerThroughout ==
  ASSUME TextInv, ~Unread, Upward, Repeats(q), Hits # << >>
  PROVE  LET value == Of(q, FALSE) IN
         /\ Answers(value, Hits[1])
         /\ IsPresent(value) => /\ Len(value.value) <= Len(Hits) \/ q.block # << >>
                                /\ ~Scalar => HasColumns(value)
<1> DEFINE value == Of(q, FALSE)
<1>1. IsText(text) /\ Len(text) \in Nat /\ Hits \in Seq(0 .. Len(text))
  BY AnchorIsThere DEF TextInv, IsText
<1>2. TypedParse(q.parse) /\ ColumnsUpward(q.parse) /\ (q.block # << >> => TypedBlock(q.block[1]))
  BY LoadedIsTyped DEF TypedQuantity, Upward, ColumnsUpward
<1>3. CASE q.block # << >> /\ ReadsTable(q.parse)
  <2> DEFINE blocks == [i \in DOMAIN Hits |-> BlockRows(text, q, Hits[i], FALSE)]
             rows == [i \in DOMAIN blocks |->
                        [k \in DOMAIN blocks[i][1] |-> Stepped(blocks[i][1][k], i - 1)]]
             S == MadeOf(FieldLists(text), q.parse)
             R == {Stepped(row, n) : row \in S, n \in Int}
             all == FlattenSeq(rows)
  <2>1. value = PresentOr(StepThrough(blocks), Hits[1], "rows")
    BY <1>3 DEF Of, ExtractQuantity, RepeatedValue, RepeatedBlocks, Hits
  <2>2. ASSUME NEW i \in DOMAIN Hits
        PROVE  blocks[i] # << >> /\ rows[i] \in Seq(R)
    <3>1. Hits[i] \in 0 .. Len(text) /\ i - 1 \in Int
      BY <1>1
    <3>2. PICK made \in Seq(S) : SlowRows(text, SpanOf(text, Hits[i], q.block[1]), q.parse) = <<made>>
      BY <1>1, <1>2, <1>3, <3>1, RowsOfBlock
    <3>3. BlockRows(text, q, Hits[i], FALSE) = <<made>>
      BY <3>2 DEF BlockRows, RowsIn
    <3>4. blocks[i] = <<made>> /\ i \in DOMAIN blocks
      BY <3>3
    <3>5. \A k \in DOMAIN made : Stepped(made[k], i - 1) \in R
      BY <3>1
    <3> HIDE DEF blocks, R, S
    <3>6. rows[i] = [k \in 1 .. Len(made) |-> Stepped(made[k], i - 1)]
      BY <3>4
    <3> HIDE DEF rows
    <3>7. rows[i] \in Seq(R)
      BY <3>5, <3>6
    <3> QED BY <3>4, <3>7
  <2>3. StepThrough(blocks) = <<all>>
    <3> HIDE DEF rows, R
    <3>1. \A i \in DOMAIN Hits : blocks[i] # << >>
      BY <2>2
    <3>2. DOMAIN blocks = DOMAIN Hits
      OBVIOUS
    <3> HIDE DEF blocks
    <3> QED BY <3>1, <3>2 DEF StepThrough, rows
  <2>4. \A row \in R : DOMAIN q.parse.columns \subseteq DOMAIN row
    <3>1. \A row \in S : DOMAIN row = DOMAIN q.parse.columns
      BY DEF MadeOf
    <3>2. \A row, n : DOMAIN row \subseteq DOMAIN Stepped(row, n)
      BY DEF Stepped
    <3> HIDE DEF S
    <3> QED BY <3>1, <3>2
  <2>5. rows \in Seq(Seq(R))
    <3>1. rows = [i \in 1 .. Len(Hits) |-> rows[i]]
      BY <1>1
    <3> HIDE DEF rows, R, blocks
    <3>2. DOMAIN Hits = 1 .. Len(Hits) /\ Len(Hits) \in Nat
      BY <1>1
    <3>3. \A i \in 1 .. Len(Hits) : rows[i] \in Seq(R)
      BY <2>2, <3>2
    <3> QED BY <3>1, <3>2, <3>3
  <2> HIDE DEF value, rows, R, blocks
  <2>6. all \in Seq(R)
    BY <2>5, FlattenIsList
  <2> HIDE DEF all
  <2>7. value = IF all = << >> THEN Missing("rows") ELSE Present(all, Hits[1])
    BY <2>1, <2>3, OneOrNone
  <2>8. all # << >> => DOMAIN q.parse.columns \subseteq DOMAIN all[1]
    <3>1. all # << >> => all[1] \in R
      BY <2>6
    <3> QED BY <2>4, <3>1
  <2>9. Answers(value, Hits[1])
    BY <2>7 DEF Answers
  <2>10. IsPresent(value) => value.value = all /\ all # << >>
    BY <2>7, KindsOfValue DEF IsPresent
  <2> QED BY <1>3, <2>8, <2>9, <2>10 DEF HasColumns, value
<1>4. CASE ~(q.block # << >> /\ ReadsTable(q.parse))
  <2> DEFINE split(o) == Split(text, LineSpan(text, o))
             lines == [i \in DOMAIN Hits |-> split(Hits[i])]
             L == {split(o) : o \in 0 .. Len(text)}
  <2>1. value = PresentOr(ItemsOf(lines, q.parse), Hits[1], "nothing")
    BY <1>4 DEF Of, ExtractQuantity, RepeatedValue, RepeatedLines, Hits
  <2>2. /\ lines \in Seq(L) /\ Len(lines) = Len(Hits)
        /\ \A fields \in L : Len(fields) \in Nat /\ DOMAIN fields = 1 .. Len(fields)
    BY <1>1, LinesOfHits
  <2> HIDE DEF lines, L, value
  <2>3. PICK items : /\ ItemsOf(lines, q.parse) = <<items>> /\ Len(items) <= Len(lines)
                     /\ ReadsTable(q.parse) => items \in Seq(MadeOf(L, q.parse))
    BY <1>2, <2>2, ItemsAreRead
  <2>4. value = IF items = << >> THEN Missing("nothing") ELSE Present(items, Hits[1])
    BY <2>1, <2>3, OneOrNone
  <2>5. ReadsTable(q.parse) /\ items # << >> => DOMAIN items[1] = DOMAIN q.parse.columns
    <3>1. \A row \in MadeOf(L, q.parse) : DOMAIN row = DOMAIN q.parse.columns
      BY DEF MadeOf
    <3>2. ReadsTable(q.parse) /\ items # << >> => items[1] \in MadeOf(L, q.parse)
      BY <2>3
    <3> QED BY <3>1, <3>2
  <2>6. Answers(value, Hits[1])
    BY <2>4 DEF Answers
  <2>7. IsPresent(value) => value.value = items /\ items # << >>
    BY <2>4, KindsOfValue DEF IsPresent
  <2> QED BY <2>2, <2>3, <2>5, <2>6, <2>7 DEF HasColumns, Scalar, value
<1> QED BY <1>3, <1>4

-----------------------------------------------------------------------------
(* What an explanation shows of an answer with rows are its columns.       *)
LEMMA ColumnsAreShown ==
  ASSUME NEW e, e.at # NotFound, IsPresent(e.value), ~Scalar, HasColumns(e.value)
  PROVE  DOMAIN q.parse.columns \subseteq Rendered(q, e).value.columns
<1>1. Rendered(q, e).value = Summary(q, e.value)
  BY DEF Rendered, ExplanationFound, IsPresent
<1>2. Summary(q, e.value).columns = DOMAIN e.value.value[1]
  BY DEF Summary, IsPresent, Scalar, IsList
<1> QED BY <1>1, <1>2 DEF HasColumns

(* Where the anchor is not found, the trace names no line and claims       *)
(* nothing.                                                                *)
LEMMA NothingToExplain ==
  ASSUME NEW e, e = Nowhere(Missing("anchor")), NEW lines, Len(lines) \in Nat,
         DOMAIN lines = 1 .. Len(lines)
  PROVE  ExplainsValue(e, lines)
<1>1. e.at = NotFound /\ e.line = 0 /\ e.value = Missing("anchor")
  BY DEF Nowhere, Explanation
<1>2. ~(0 > Len(lines)) /\ 0 \notin DOMAIN lines
  OBVIOUS
<1>3. ~IsPresent(e.value) /\ ~ExplanationFound(e)
  BY <1>1, KindsOfValue DEF IsPresent, ExplanationFound
<1> QED BY <1>1, <1>2, <1>3 DEF ExplainsValue

(* A trace agrees with the extraction it explains, clause by clause.       *)
LEMMA Explains ==
  ASSUME TextInv, ~Unread, Upward
  PROVE  ExplainsValue(ExplainQuantity(text, q, FALSE), LineSpans(text, 0, Len(text)))
<1> DEFINE e == ExplainQuantity(text, q, FALSE)
           lines == LineSpans(text, 0, Len(text))
           value == Of(q, FALSE)
           at == AnchorOffset(text, q)
<1>1. IsText(text) /\ Len(text) \in Nat
  BY DEF TextInv, IsText
<1>2. Len(lines) \in Nat /\ DOMAIN lines = 1 .. Len(lines)
  <2>1. lines \in Seq(LinesOfText(text))
    BY <1>1, LinesInWindow
  <2> HIDE DEF lines
  <2> QED BY <2>1
<1>3. CASE Repeats(q) /\ Hits = << >>
  <2>1. value = Missing("anchor")
    BY <1>3 DEF Of, ExtractQuantity, RepeatedValue, Hits
  <2>2. e = Nowhere(value)
    BY <1>3 DEF ExplainQuantity, ExplainValue, ExplainRepeated, Hits, Of
  <2> HIDE DEF e, lines, value
  <2> QED BY <1>2, <2>1, <2>2, NothingToExplain DEF e, lines
<1>4. CASE ~Repeats(q) /\ at = NotFound
  <2>1. value = Missing("anchor")
    BY <1>4 DEF Of, ExtractQuantity, ValueAt
  <2>2. e = Nowhere(value)
    BY <1>4 DEF ExplainQuantity, ExplainValue, ExplainAt, ExplainOne, Of
  <2> HIDE DEF e, lines, value
  <2> QED BY <1>2, <2>1, <2>2, NothingToExplain DEF e, lines
<1>5. CASE Repeats(q) /\ Hits # << >>
  <2>1. /\ e.at = Hits[1] /\ e.line = LineNumber(text, Hits[1])
        /\ e.total = Len(Hits) /\ e.value = value
    BY <1>5 DEF ExplainQuantity, ExplainValue, ExplainRepeated, Explanation, Hits, Of
  <2>2. AtAnchor(Hits[1]) /\ Hits[1] # NotFound
    <3>1. 1 \in DOMAIN Hits
      BY <1>5, AnchorIsThere
    <3> QED BY <1>5, <3>1, AnchorIsThere
  <2>3. /\ Answers(value, Hits[1])
        /\ IsPresent(value) => /\ Len(value.value) <= Len(Hits) \/ q.block # << >>
                               /\ ~Scalar => HasColumns(value)
    BY <1>5, AnswerThroughout
  <2>4. /\ e.line > Len(lines) => e.at = Len(text)
        /\ e.line \in DOMAIN lines => SameLine(lines[e.line], e.at, ~OnNewline)
    BY <2>1, <2>2, LineOfAnchor
  <2> HIDE DEF e, lines, value
  <2>5. ExplanationFound(e) /\ e.value # Missing("anchor") /\ (IsPresent(e.value) => e.value.at = e.at)
    BY <2>1, <2>2, <2>3, AnswersAreThere DEF ExplanationFound
  <2>6. IsPresent(e.value) /\ ~Scalar => DOMAIN q.parse.columns \subseteq Rendered(q, e).value.columns
    BY <2>1, <2>2, <2>3, ColumnsAreShown
  <2>7. IsPresent(e.value) => Len(e.value.value) <= e.total \/ (Repeats(q) /\ q.block # << >>)
    BY <1>5, <2>1, <2>3
  <2> QED BY <1>5, <2>4, <2>5, <2>6, <2>7 DEF ExplainsValue, e, lines
<1>6. CASE ~Repeats(q) /\ at # NotFound
  <2> DEFINE shown == BlockLines(text, q, at)
  <2>1. /\ e.at = at /\ e.line = LineNumber(text, at) /\ e.preview = Upto(Preview, shown)
        /\ e.total = Len(shown) /\ e.value = value
    BY <1>6 DEF ExplainQuantity, ExplainValue, ExplainAt, ExplainOne, Explanation, Of
  <2>2. AtAnchor(at) /\ at \in 0 .. Len(text)
    BY <1>6, AnchorIsThere
  <2>3. /\ Answers(value, at)
        /\ IsPresent(value) /\ ~Scalar => Len(value.value) <= Len(shown) /\ HasColumns(value)
    BY <1>6, AnswerHere
  <2>4. /\ e.line > Len(lines) => e.at = Len(text)
        /\ e.line \in DOMAIN lines => SameLine(lines[e.line], e.at, ~OnNewline)
    BY <2>1, <2>2, LineOfAnchor
  <2>5. e.preview # << >> => SameLine(e.preview[1], ReadFrom(text, q, e.at), Reached(e.at))
    BY <1>6, <2>1, <2>2, PreviewBegins
  <2> HIDE DEF e, lines, value, shown, at
  <2>6. ExplanationFound(e) /\ e.value # Missing("anchor") /\ (IsPresent(e.value) => e.value.at = e.at)
    BY <1>6, <2>1, <2>3, AnswersAreThere DEF ExplanationFound
  <2>7. IsPresent(e.value) /\ ~Scalar => DOMAIN q.parse.columns \subseteq Rendered(q, e).value.columns
    BY <1>6, <2>1, <2>3, ColumnsAreShown
  <2>8. IsPresent(e.value) /\ ~Scalar => Len(e.value.value) <= e.total
    BY <2>1, <2>3
  <2> QED BY <1>6, <2>4, <2>5, <2>6, <2>7, <2>8 DEF ExplainsValue, e, lines
<1> QED BY <1>3, <1>4, <1>5, <1>6

(* An explanation, which searches anew, is about the value next to it.     *)
THEOREM ExplanationsAgree == Spec => []ExplainAgrees
<1>1. TextInv => ExplainAgrees
  BY Explains DEF ExplainAgrees
<1> QED BY <1>1, TextInvariant, PTL

-----------------------------------------------------------------------------
(* A text and a longer one that begins with it.  What was there ended in   *)
(* a whole line, or there was nothing.                                     *)
Grown(h, g) ==
  /\ IsText(h) /\ IsText(g) /\ Len(h) <= Len(g)
  /\ \A i \in 0 .. Len(h) - 1 : Byte(g, i) = Byte(h, i)
  /\ h # << >> => Byte(h, Len(h) - 1) = "\n"

(* What lies in the shorter text is the same in both: its bytes ...        *)
LEMMA GrownBytes ==
  ASSUME NEW h, NEW g, Grown(h, g), NEW from \in Nat, NEW to \in from .. Len(h)
  PROVE  Bytes(g, <<from, to>>) = Bytes(h, <<from, to>>)
<1> DEFINE s == Bytes(h, <<from, to>>)
           t == Bytes(g, <<from, to>>)
<1>1. PICK A : h \in Seq(A)
  BY DEF Grown, IsText
<1>2. PICK B : g \in Seq(B)
  BY DEF Grown, IsText
<1>3. Len(h) \in Nat /\ Len(g) \in Nat /\ to \in from .. Len(g) /\ to \in Int
  BY <1>1, <1>2 DEF Grown
<1>4. s \in Seq(A) /\ Len(s) = to - from /\ \A i \in 1 .. to - from : s[i] = Byte(h, from + i - 1)
  BY <1>1, BytesOfText
<1>5. t \in Seq(B) /\ Len(t) = to - from /\ \A i \in 1 .. to - from : t[i] = Byte(g, from + i - 1)
  BY <1>2, <1>3, BytesOfText
<1> HIDE DEF s, t
<1>6. \A i \in 1 .. to - from : from + i - 1 \in 0 .. Len(h) - 1
  BY <1>3
<1>7. \A i \in 1 .. Len(t) : t[i] = s[i]
  BY <1>4, <1>5, <1>6 DEF Grown
<1>8. s \in Seq(A \union B) /\ t \in Seq(A \union B) /\ Len(s) = Len(t)
  BY <1>4, <1>5
<1>9. t = s
  BY <1>7, <1>8, SeqEqual
<1> QED BY <1>9 DEF s, t

(* ... its newlines ...                                                    *)
LEMMA GrownNewlines ==
  ASSUME NEW h, NEW g, Grown(h, g), NEW from \in Nat, NEW to \in 0 .. Len(h)
  PROVE  Newlines(g, from, to) = Newlines(h, from, to)
<1>1. Len(h) \in Nat
  BY TextsHaveNewlines DEF Grown
<1>2. \A i \in from .. to - 1 : i \in 0 .. Len(h) - 1
  BY <1>1
<1> QED BY <1>2 DEF Newlines, Grown

(* ... where its lines start ...                                           *)
LEMMA GrownLineStart ==
  ASSUME NEW h, NEW g, Grown(h, g), NEW o \in 0 .. Len(h)
  PROVE  LineStart(g, o) = LineStart(h, o)
<1> DEFINE p == LineStart(h, o)
<1>1. IsText(h) /\ IsText(g) /\ Len(h) \in Nat /\ Len(g) \in Nat /\ o \in 0 .. Len(g) /\ o \in Nat
  BY TextsHaveNewlines DEF Grown
<1>2. p \in 0 .. o /\ StartsLine(h, p) /\ Newlines(h, p, o) = {}
  BY <1>1, LineStartOf
<1> HIDE DEF p
<1>3. p # 0 => p - 1 \in 0 .. Len(h) - 1
  BY <1>1, <1>2
<1>4. StartsLine(g, p) /\ p \in Nat
  BY <1>2, <1>3 DEF StartsLine, Grown
<1>5. Newlines(g, p, o) = {}
  BY <1>2, <1>4, GrownNewlines
<1>6. LineStart(g, o) = p
  BY <1>1, <1>2, <1>4, <1>5, LineStartUnique
<1> QED BY <1>6 DEF p

(* ... and where they end, since every line of it has its newline.         *)
LEMMA GrownEnds ==
  ASSUME NEW h, NEW g, Grown(h, g), NEW p \in 0 .. Len(h) - 1
  PROVE  /\ EndsAt(h, p) \in p .. Len(h) - 1 /\ EndsAt(g, p) = EndsAt(h, p)
         /\ Behind(h, p) = EndsAt(h, p) + 1 /\ Behind(g, p) = Behind(h, p)
         /\ LineEnd(g, p) = LineEnd(h, p)
<1> DEFINE old == Find(h, Newline, p, Len(h))
           new == Find(g, Newline, p, Len(g))
<1>1. /\ IsText(h) /\ IsText(g) /\ Len(h) \in Nat /\ Len(g) \in Nat /\ Len(h) <= Len(g)
      /\ p \in Nat /\ p < Len(h) /\ p \in 0 .. Len(g) /\ Len(g) \in 0 .. Len(g) /\ Len(h) \in 0 .. Len(h)
  BY TextsHaveNewlines DEF Grown
<1>2. Len(h) - 1 \in Newlines(h, p, Len(h))
  <2>1. h # << >> /\ Len(h) - 1 \in p .. Len(h) - 1
    BY <1>1
  <2> QED BY <2>1 DEF Newlines, Grown
<1>3. old # NotFound /\ old \in Newlines(h, p, Len(h)) /\ \A i \in Newlines(h, p, Len(h)) : old <= i
  BY <1>1, <1>2, FindNewline
<1>4. /\ new = NotFound <=> Newlines(g, p, Len(g)) = {}
      /\ new # NotFound => new \in Newlines(g, p, Len(g)) /\ \A i \in Newlines(g, p, Len(g)) : new <= i
  BY <1>1, FindNewline
<1> HIDE DEF old, new
<1>5. old \in p .. Len(h) - 1 /\ Byte(h, old) = "\n"
  BY <1>3 DEF Newlines
<1>6. old \in Newlines(g, p, Len(g))
  <2>1. old \in 0 .. Len(h) - 1 /\ old \in p .. Len(g) - 1
    BY <1>1, <1>5
  <2> QED BY <1>5, <2>1 DEF Newlines, Grown
<1>7. new # NotFound /\ new \in Newlines(g, p, Len(g)) /\ new <= old
  BY <1>4, <1>6
<1>8. new \in p .. Len(h) - 1 /\ Byte(g, new) = "\n"
  BY <1>1, <1>5, <1>7 DEF Newlines
<1>9. new \in Newlines(h, p, Len(h))
  <2>1. new \in 0 .. Len(h) - 1
    BY <1>1, <1>8
  <2> QED BY <1>8, <2>1 DEF Newlines, Grown
<1>10. new = old
  BY <1>3, <1>5, <1>7, <1>8, <1>9
<1>11. EndsAt(h, p) = old /\ EndsAt(g, p) = old /\ Behind(h, p) = old + 1 /\ Behind(g, p) = old + 1
  BY <1>3, <1>10 DEF EndsAt, OrEnd, Behind, old, new
<1>12. LineEnd(h, p) = DropReturn(h, p, old) /\ LineEnd(g, p) = DropReturn(g, p, old)
  BY <1>3, <1>10 DEF LineEnd, OrEnd, old, new
<1>13. DropReturn(g, p, old) = DropReturn(h, p, old)
  <2>1. old > p => old - 1 \in 0 .. Len(h) - 1
    BY <1>1, <1>5
  <2> QED BY <2>1 DEF DropReturn, Grown
<1> QED BY <1>5, <1>11, <1>12, <1>13

(* Lines above a place are the same, and lines below it as far as the      *)
(* shorter text goes.                                                      *)
LEMMA GrownAdvance ==
  ASSUME NEW h, NEW g, Grown(h, g), NEW o \in 0 .. Len(h), NEW n \in Int,
         AdvanceLines(h, o, n) < Len(h)
  PROVE  AdvanceLines(g, o, n) = AdvanceLines(h, o, n)
<1> DEFINE D == 0 .. Len(h)
           start == LineStart(h, o)
           down == CHOOSE w : ForwardSteps(w, h, o)
           up == CHOOSE w : BackSteps(w, h, o)
           deep == CHOOSE w : ForwardSteps(w, g, o)
           high == CHOOSE w : BackSteps(w, g, o)
<1>1. /\ IsText(h) /\ IsText(g) /\ Len(h) \in Nat /\ Len(g) \in Nat /\ o \in Nat
      /\ o \in 0 .. Len(g) /\ Len(h) <= Len(g)
  BY TextsHaveNewlines DEF Grown
<1>2. start \in 0 .. Len(h) /\ start \in 0 .. Len(g) /\ LineStart(g, o) = start
  <2>1. start \in 0 .. o /\ LineStart(g, o) = start
    BY <1>1, LineStartOf, GrownLineStart
  <2> QED BY <1>1, <2>1
<1>3. ForwardSteps(down, h, o) /\ BackSteps(up, h, o)
  BY <1>1, <1>2, StepsExist
<1>4. ForwardSteps(deep, g, o) /\ BackSteps(high, g, o)
  BY <1>1, <1>2, StepsExist
<1>5. /\ AdvanceLines(h, o, n) = IF n > 0 THEN down[n] ELSE up[-n]
      /\ AdvanceLines(g, o, n) = IF n > 0 THEN deep[n] ELSE high[-n]
  BY DEF AdvanceLines, ForwardSteps, BackSteps
<1> HIDE DEF down, up, deep, high
<1>6. \A k \in Nat : k + 1 \in Nat /\ k + 1 # 0 /\ (k + 1) - 1 = k
  OBVIOUS
<1>7. /\ down[0] = start /\ \A k \in Nat : down[k + 1] = Behind(h, down[k])
      /\ up[0] = start /\ \A k \in Nat : up[k + 1] = Above(h, up[k])
  BY <1>3, <1>6 DEF ForwardSteps, BackSteps, Behind, Above
<1>8. /\ deep[0] = start /\ \A k \in Nat : deep[k + 1] = Behind(g, deep[k])
      /\ high[0] = start /\ \A k \in Nat : high[k + 1] = Above(g, high[k])
  BY <1>2, <1>4, <1>6 DEF ForwardSteps, BackSteps, Behind, Above
<1> HIDE DEF start
<1>9. ASSUME NEW p \in D PROVE Behind(h, p) \in D /\ Above(h, p) \in D /\ Above(g, p) = Above(h, p)
  <2>1. p # 0 => p - 1 \in 0 .. Len(h)
    BY <1>1
  <2>2. p # 0 => LineStart(g, p - 1) = LineStart(h, p - 1)
    BY <2>1, GrownLineStart
  <2> QED BY <1>1, <2>2, BehindAndAbove DEF Above
<1>10. ASSUME NEW p \in D, Behind(h, p) < Len(h) PROVE p < Len(h) /\ Behind(g, p) = Behind(h, p)
  <2>1. p # Len(h)
    <3>1. ASSUME p = Len(h) PROVE FALSE
      <4>1. Newlines(h, p, Len(h)) = {} /\ p \in Nat /\ Len(h) \in 0 .. Len(h)
        BY <1>1, <3>1 DEF Newlines
      <4>2. Find(h, Newline, p, Len(h)) = NotFound
        BY <1>1, <4>1, FindNewline
      <4> QED BY <1>1, <1>10, <4>2 DEF Behind
    <3> QED BY <3>1
  <2>2. p \in 0 .. Len(h) - 1
    BY <1>1, <2>1
  <2> QED BY <1>1, <2>2, GrownEnds
<1> HIDE DEF D
<1> DEFINE good == {k \in Nat : /\ down[k] \in D /\ up[k] \in D /\ high[k] = up[k]
                                /\ down[k] < Len(h) => deep[k] = down[k]}
<1>11. 0 \in good
  BY <1>2, <1>7, <1>8 DEF D
<1>12. ASSUME NEW k \in Nat, k \in good PROVE k + 1 \in good
  <2>1. /\ k + 1 \in Nat /\ down[k] \in D /\ up[k] \in D /\ high[k] = up[k]
        /\ down[k] < Len(h) => deep[k] = down[k]
    BY <1>12
  <2> QED BY <1>7, <1>8, <1>9, <1>10, <2>1, ZenonT(60)
<1> HIDE DEF good
<1>13. Nat \subseteq good
  BY <1>11, <1>12, NumberInduction
<1>14. CASE n > 0
  <2>1. n \in good
    BY <1>13, <1>14
  <2> QED BY <1>5, <1>14, <2>1 DEF good
<1>15. CASE ~(n > 0)
  <2>1. -n \in good
    BY <1>13, <1>15
  <2> QED BY <1>5, <1>15, <2>1 DEF good
<1> QED BY <1>14, <1>15

(* The k-th start, by place.                                               *)
FieldAt(starts, k) == CHOOSE i \in starts : Cardinality({j \in starts : j < i}) = k - 1

(* The fields of a piece of a text lie in it, one for each start.          *)
LEMMA FieldsLieInPiece ==
  ASSUME NEW h, NEW from \in Int, NEW to \in Int, NEW limit \in Nat, from <= to, to - from <= limit
  PROVE  LET starts == FieldStarts(h, from, to) IN
         \E m \in Nat :
           /\ Fields(h, from, to, limit)
                = [k \in 1 .. m |-> <<FieldAt(starts, k), FieldEnd(h, FieldAt(starts, k), to)>>]
           /\ m = Cardinality(starts)
           /\ \A k \in 1 .. m :
                /\ FieldAt(starts, k) \in from .. to - 1
                /\ FieldEnd(h, FieldAt(starts, k), to) \in FieldAt(starts, k) .. to
<1> DEFINE starts == FieldStarts(h, from, to)
           m == Cardinality(starts)
           start(k) == CHOOSE i \in starts : Cardinality({j \in starts : j < i}) = k - 1
<1>1. starts \subseteq from .. to - 1
  BY DEF FieldStarts
<1>2. m \in Nat /\ m <= limit
  BY FieldsAreFew
<1>3. Fields(h, from, to, limit) = [k \in 1 .. Min({limit, m}) |-> <<start(k), FieldEnd(h, start(k), to)>>]
  BY DEF Fields
<1>4. \A k : start(k) = FieldAt(starts, k)
  BY DEF FieldAt
<1>5. IsFiniteSet(starts)
  <2>1. IsFiniteSet(from .. to - 1)
    BY FS_Interval
  <2> QED BY <1>1, <2>1, FS_Subset
<1> HIDE DEF starts, start
<1>6. Min({limit, m}) = m
  BY <1>2 DEF Min
<1>7. ASSUME NEW k \in 1 .. m PROVE FieldAt(starts, k) \in starts
  <2>1. starts \in SUBSET Int
    BY <1>1
  <2>2. TotalOrder(starts, Less(starts))
    BY <2>1, NumbersAreOrdered
  <2>3. k - 1 \in 0 .. m - 1
    BY <1>2
  <2>4. PICK i \in starts : Rank(starts, Less(starts))[i] = k - 1
    BY <1>5, <2>2, <2>3, RanksCount
  <2>5. {j \in starts : <<j, i>> \in Less(starts)} = {j \in starts : j < i}
    BY DEF Less
  <2>6. Cardinality({j \in starts : j < i}) = k - 1
    BY <2>4, <2>5 DEF Rank
  <2> QED BY <2>6 DEF FieldAt
<1>8. ASSUME NEW i \in starts PROVE i \in from .. to - 1 /\ FieldEnd(h, i, to) \in i .. to
  <2> DEFINE ends == {to} \union {j \in i .. to - 1 : Byte(h, j) \in Space}
             shifted == {e - i : e \in ends}
  <2>1. i \in from .. to - 1 /\ i \in Int /\ i <= to
    BY <1>1
  <2>2. ends \subseteq i .. to /\ to \in ends
    BY <2>1
  <2>3. FieldEnd(h, i, to) = Min(ends)
    BY DEF FieldEnd
  <2> HIDE DEF ends
  <2>4. shifted \in SUBSET Nat /\ shifted # {}
    BY <2>1, <2>2
  <2>5. PICK n \in shifted : \A e \in shifted : n <= e
    BY <2>4, LeastNumber
  <2>6. PICK least \in ends : n = least - i
    BY <2>5
  <2>7. \A e \in ends : least <= e
    <3> TAKE e \in ends
    <3>1. e - i \in shifted /\ e \in Int /\ least \in Int
      BY <2>2
    <3> QED BY <2>1, <2>5, <2>6, <3>1
  <2>8. Min(ends) \in ends
    BY <2>6, <2>7 DEF Min
  <2> QED BY <2>1, <2>2, <2>3, <2>8
<1>9. Fields(h, from, to, limit)
        = [k \in 1 .. m |-> <<FieldAt(starts, k), FieldEnd(h, FieldAt(starts, k), to)>>]
  BY <1>3, <1>4, <1>6
<1>10. \A k \in 1 .. m : /\ FieldAt(starts, k) \in from .. to - 1
                         /\ FieldEnd(h, FieldAt(starts, k), to) \in FieldAt(starts, k) .. to
  BY <1>7, <1>8
<1> HIDE DEF m
<1> QED BY <1>2, <1>9, <1>10 DEF m, starts

(* A piece of the shorter text is split into the same fields in both.      *)
LEMMA GrownSplit ==
  ASSUME NEW h, NEW g, Grown(h, g), NEW from \in Nat, NEW to \in from .. Len(h)
  PROVE  Split(g, <<from, to>>) = Split(h, <<from, to>>)
<1> DEFINE starts == FieldStarts(h, from, to)
           item(k) == <<FieldAt(starts, k), FieldEnd(h, FieldAt(starts, k), to)>>
           twin(k) == <<FieldAt(starts, k), FieldEnd(g, FieldAt(starts, k), to)>>
           runs == Fields(h, from, to, Len(h))
           same == Fields(g, from, to, Len(g))
<1>1. /\ Len(h) \in Nat /\ Len(g) \in Nat /\ Len(h) <= Len(g) /\ from \in Int /\ to \in Int
      /\ from <= to /\ to - from <= Len(h) /\ to - from <= Len(g) /\ to <= Len(h)
  BY TextsHaveNewlines DEF Grown
<1>2. FieldStarts(g, from, to) = starts
  <2>1. \A i \in from .. to - 1 : i \in 0 .. Len(h) - 1 /\ (i # from => i - 1 \in 0 .. Len(h) - 1)
    BY <1>1
  <2> QED BY <2>1 DEF FieldStarts, Grown
<1>3. PICK m \in Nat :
        /\ runs = [k \in 1 .. m |-> item(k)] /\ m = Cardinality(starts)
        /\ \A k \in 1 .. m : FieldAt(starts, k) \in from .. to - 1
                             /\ FieldEnd(h, FieldAt(starts, k), to) \in FieldAt(starts, k) .. to
  BY <1>1, FieldsLieInPiece
<1>4. PICK n \in Nat :
        /\ same = [k \in 1 .. n |-> <<FieldAt(FieldStarts(g, from, to), k),
                                      FieldEnd(g, FieldAt(FieldStarts(g, from, to), k), to)>>]
        /\ n = Cardinality(FieldStarts(g, from, to))
  BY <1>1, FieldsLieInPiece
<1> HIDE DEF starts, runs, same
<1>5. n = m /\ same = [k \in 1 .. m |-> twin(k)]
  BY <1>2, <1>3, <1>4
<1>6. ASSUME NEW k \in 1 .. m
      PROVE  twin(k) = item(k) /\ Bytes(g, item(k)) = Bytes(h, item(k))
  <2> DEFINE s == FieldAt(starts, k)
  <2>1. s \in from .. to - 1 /\ FieldEnd(h, s, to) \in s .. to
    BY <1>3
  <2> HIDE DEF s
  <2>2. \A i \in s .. to - 1 : i \in 0 .. Len(h) - 1
    BY <1>1, <2>1
  <2>3. {i \in s .. to - 1 : Byte(g, i) \in Space} = {i \in s .. to - 1 : Byte(h, i) \in Space}
    BY <2>2 DEF Grown
  <2>4. FieldEnd(g, s, to) = FieldEnd(h, s, to)
    BY <2>3 DEF FieldEnd
  <2>5. s \in Nat /\ FieldEnd(h, s, to) \in s .. Len(h)
    BY <1>1, <2>1
  <2>6. Bytes(g, <<s, FieldEnd(h, s, to)>>) = Bytes(h, <<s, FieldEnd(h, s, to)>>)
    BY <2>5, GrownBytes
  <2> QED BY <2>4, <2>6 DEF s
<1> HIDE DEF item, twin
<1>7. same = runs
  BY <1>3, <1>5, <1>6
<1>8. DOMAIN runs = 1 .. m /\ \A k \in 1 .. m : runs[k] = item(k)
  BY <1>3
<1>9. Split(h, <<from, to>>) = [k \in DOMAIN runs |-> Bytes(h, runs[k])]
  BY DEF Split, runs
<1>10. Split(g, <<from, to>>) = [k \in DOMAIN same |-> Bytes(g, same[k])]
  BY DEF Split, same
<1> QED BY <1>6, <1>7, <1>8, <1>9, <1>10

(* A list that begins with another has its items as far as that goes.      *)
Begins(s, t) == Len(s) <= Len(t) /\ \A i \in 1 .. Len(s) : t[i] = s[i]

(* What begins another list begins it behind a common front as well.       *)
LEMMA BeginsBehind ==
  ASSUME NEW S, NEW x \in S, NEW s \in Seq(S), NEW t \in Seq(S), Begins(s, t)
  PROVE  Begins(<<x>> \o s, <<x>> \o t)
<1> DEFINE u == <<x>> \o s
           v == <<x>> \o t
<1>1. Len(s) \in Nat /\ Len(t) \in Nat /\ Len(s) <= Len(t) /\ \A i \in 1 .. Len(s) : t[i] = s[i]
  BY DEF Begins
<1>2. /\ u \in Seq(S) /\ Len(u) = Len(s) + 1 /\ v \in Seq(S) /\ Len(v) = Len(t) + 1
      /\ u[1] = x /\ v[1] = x
      /\ \A i \in 2 .. Len(s) + 1 : u[i] = s[i - 1]
      /\ \A i \in 2 .. Len(t) + 1 : v[i] = t[i - 1]
  BY <1>1
<1> HIDE DEF u, v
<1>3. ASSUME NEW i \in 1 .. Len(u) PROVE v[i] = u[i]
  <2>1. CASE i = 1
    BY <1>2, <2>1
  <2>2. CASE i # 1
    <3>1. i - 1 \in 1 .. Len(s) /\ i \in 2 .. Len(s) + 1 /\ i \in 2 .. Len(t) + 1
      BY <1>1, <1>2, <2>2
    <3> QED BY <1>1, <1>2, <3>1
  <2> QED BY <2>1, <2>2
<1>4. Len(u) <= Len(v)
  BY <1>1, <1>2
<1> QED BY <1>3, <1>4 DEF Begins, u, v

(* The lines of the shorter text from the start of one on are the first    *)
(* lines of the longer one from there.                                     *)
LEMMA GrownLines ==
  ASSUME NEW h, NEW g, Grown(h, g), h # << >>
  PROVE  \A p \in 0 .. Len(h) - 1 : StartsLine(h, p) =>
           Begins(LineSpans(h, p, Len(h)), LineSpans(g, p, Len(g)))
<1> DEFINE D == 0 .. Len(h) - 1
           old(p) == LineSpans(h, p, Len(h))
           new(p) == LineSpans(g, p, Len(g))
           rank == [p \in D |-> Len(h) - p]
           good == {p \in D : StartsLine(h, p) => Begins(old(p), new(p))}
<1>1. /\ IsText(h) /\ IsText(g) /\ Len(h) \in Nat /\ Len(g) \in Nat /\ Len(h) <= Len(g) /\ g # << >>
      /\ Len(h) \in 0 .. Len(h) /\ Len(g) \in 0 .. Len(g) /\ Len(h) >= 1
  <2>1. IsText(h) /\ IsText(g) /\ Len(h) \in Nat /\ Len(g) \in Nat /\ Len(h) <= Len(g)
    BY TextsHaveNewlines DEF Grown
  <2>2. Len(h) # 0
    BY <2>1 DEF IsText
  <2> QED BY <2>1, <2>2
<1>2. ASSUME NEW p \in D, \A r \in D : rank[r] < rank[p] => r \in good
      PROVE  p \in good
  <2> SUFFICES ASSUME StartsLine(h, p) PROVE Begins(old(p), new(p))
    OBVIOUS
  <2> DEFINE over == EndsAt(h, p)
             line == <<p, LineEnd(h, p)>>
             rest == IF over + 1 >= Len(h) THEN << >> ELSE old(over + 1)
             more == IF over + 1 >= Len(g) THEN << >> ELSE new(over + 1)
  <2>1. p \in 0 .. Len(h) /\ p \in 0 .. Len(g) /\ p \in Nat /\ ~(p > Len(h)) /\ ~(p > Len(g))
    BY <1>1
  <2>2. over \in p .. Len(h) - 1 /\ EndsAt(g, p) = over /\ LineEnd(g, p) = LineEnd(h, p)
    BY GrownEnds
  <2>3. StartsLine(g, p)
    <3>1. p # 0 => p - 1 \in 0 .. Len(h) - 1
      BY <1>1
    <3> QED BY <3>1 DEF StartsLine, Grown
  <2>4. old(p) = <<line>> \o rest
    BY <1>1, <2>1, LineSpansUnfold
  <2>5. new(p) = <<line>> \o more
    BY <1>1, <2>1, <2>2, <2>3, LineSpansUnfold
  <2>6. LineEnd(h, p) \in p .. Len(h) /\ Byte(h, over) = "\n"
    <3>1. over < Len(h) /\ over \in Nat
      BY <1>1, <2>1, <2>2
    <3> QED BY <1>1, <2>1, <3>1, LineEndOf
  <2> HIDE DEF over
  <2>7. line \in Nat \X Nat
    BY <1>1, <2>1, <2>6
  <2>8. rest \in Seq(Nat \X Nat) /\ more \in Seq(Nat \X Nat) /\ Begins(rest, more)
    <3>0. over + 1 - 1 = over /\ over + 1 \in Nat
      BY <1>1, <2>1, <2>2
    <3>1. StartsLine(h, over + 1) /\ StartsLine(g, over + 1)
      <4>1. over \in 0 .. Len(h) - 1
        BY <2>1, <2>2
      <4> QED BY <2>6, <3>0, <4>1 DEF StartsLine, Grown
    <3>2. rest \in Seq(Nat \X Nat)
      <4>1. CASE over + 1 >= Len(h)
        BY <4>1
      <4>2. CASE ~(over + 1 >= Len(h))
        <5>1. over + 1 \in 0 .. Len(h) - 1
          BY <1>1, <3>0, <4>2
        <5>2. LinesCover(h, old(over + 1), over + 1)
          BY <1>1, <3>1, <5>1, LinesFromCover
        <5> QED BY <4>2, <5>2 DEF LinesCover
      <4> QED BY <4>1, <4>2
    <3>3. more \in Seq(Nat \X Nat)
      <4>1. CASE over + 1 >= Len(g)
        BY <4>1
      <4>2. CASE ~(over + 1 >= Len(g))
        <5>1. over + 1 \in 0 .. Len(g) - 1
          BY <1>1, <3>0, <4>2
        <5>2. LinesCover(g, new(over + 1), over + 1)
          BY <1>1, <3>1, <5>1, LinesFromCover
        <5> QED BY <4>2, <5>2 DEF LinesCover
      <4> QED BY <4>1, <4>2
    <3>4. Begins(rest, more)
      <4>1. CASE over + 1 >= Len(h)
        <5>1. rest = << >>
          BY <4>1
        <5> HIDE DEF more, rest
        <5>2. Len(more) \in Nat
          BY <3>3
        <5> QED BY <5>1, <5>2 DEF Begins
      <4>2. CASE ~(over + 1 >= Len(h))
        <5>1. over + 1 \in D /\ ~(over + 1 >= Len(g))
          BY <1>1, <3>0, <4>2
        <5>2. rank[over + 1] < rank[p]
          BY <1>1, <2>1, <2>2, <5>1
        <5>3. Begins(old(over + 1), new(over + 1))
          BY <1>2, <3>1, <5>1, <5>2
        <5> QED BY <4>2, <5>1, <5>3
      <4> QED BY <4>1, <4>2
    <3> QED BY <3>2, <3>3, <3>4
  <2> HIDE DEF rest, more, line, old, new
  <2>9. Begins(<<line>> \o rest, <<line>> \o more)
    BY <2>7, <2>8, BeginsBehind
  <2> QED BY <2>4, <2>5, <2>9
<1>3. rank \in [D -> Nat]
  BY <1>1
<1> HIDE DEF good, rank, D
<1>4. D \subseteq good
  BY <1>2, <1>3, RankInduction
<1> QED BY <1>4 DEF good, D

(* What ends a block: one line too many, or one that the rule stops at.    *)
Ends(h, line, number, until, max) == number > max \/ Stops(h, line, until)

(* UpTo takes the lines before the first that ends the block, and all of   *)
(* them when none does.                                                    *)
LEMMA TakenExactly ==
  ASSUME NEW h, NEW S, NEW lines \in Seq(S), NEW until, NEW max
  PROVE  \E m \in 0 .. Len(lines) :
           /\ UpTo(h, lines, until, max) = SubSeq(lines, 1, m)
           /\ \A i \in 1 .. m : ~Ends(h, lines[i], i, until, max)
           /\ m < Len(lines) => Ends(h, lines[m + 1], m + 1, until, max)
<1> DEFINE stops == {i \in DOMAIN lines : Ends(h, lines[i], i, until, max)}
<1>1. DOMAIN lines = 1 .. Len(lines) /\ Len(lines) \in Nat /\ SubSeq(lines, 1, Len(lines)) = lines
  OBVIOUS
<1>2. UpTo(h, lines, until, max) = IF stops = {} THEN lines ELSE SubSeq(lines, 1, Min(stops) - 1)
  BY DEF UpTo, Ends
<1>3. CASE stops = {}
  <2>1. \A i \in 1 .. Len(lines) : ~Ends(h, lines[i], i, until, max)
    BY <1>1, <1>3
  <2>2. UpTo(h, lines, until, max) = SubSeq(lines, 1, Len(lines))
    BY <1>1, <1>2, <1>3
  <2>3. Len(lines) \in 0 .. Len(lines) /\ ~(Len(lines) < Len(lines))
    BY <1>1
  <2> HIDE DEF stops
  <2> QED BY <2>1, <2>2, <2>3
<1>4. CASE stops # {}
  <2>1. stops \in SUBSET Nat
    BY <1>1
  <2>2. PICK n \in stops : \A m \in stops : n <= m
    BY <1>4, <2>1, LeastNumber
  <2>3. Min(stops) \in stops /\ \A m \in stops : Min(stops) <= m
    <3> HIDE DEF stops
    <3> QED BY <2>2 DEF Min
  <2>4. Min(stops) \in 1 .. Len(lines) /\ Ends(h, lines[Min(stops)], Min(stops), until, max)
    BY <1>1, <2>3
  <2>5. \A i \in 1 .. Min(stops) - 1 : ~Ends(h, lines[i], i, until, max)
    <3> TAKE i \in 1 .. Min(stops) - 1
    <3>1. i \in DOMAIN lines /\ ~(Min(stops) <= i)
      BY <1>1, <2>4
    <3> QED BY <2>3, <3>1
  <2> HIDE DEF stops
  <2>6. Min(stops) - 1 \in 0 .. Len(lines) /\ (Min(stops) - 1) + 1 = Min(stops)
    BY <1>1, <2>4
  <2> QED BY <1>2, <1>4, <2>4, <2>5, <2>6
<1> QED BY <1>3, <1>4

(* The lines of a block, read back from its span, are those it took, or    *)
(* the first line below its anchor if it took none.                        *)
LEMMA LinesOfBlock ==
  ASSUME NEW h, IsText(h), NEW o \in 0 .. Len(h), NEW skip \in Int, NEW until, NEW max,
         AdvanceLines(h, o, skip) < Len(h)
  PROVE  LET from == AdvanceLines(h, o, skip)
             lines == LineSpans(h, from, Len(h))
         IN  /\ from \in 0 .. Len(h) - 1 /\ StartsLine(h, from) /\ lines \in Seq(LinesOfText(h))
             /\ \E m \in 1 .. Len(lines), n \in 0 .. Len(lines) :
                  /\ LinesOf(h, BlockSpan(h, o, skip, until, max)) = SubSeq(lines, 1, m)
                  /\ m = IF n = 0 THEN 1 ELSE n
                  /\ \A i \in 1 .. n : ~Ends(h, lines[i], i, until, max)
                  /\ n < Len(lines) => Ends(h, lines[n + 1], n + 1, until, max)
<1> DEFINE from == AdvanceLines(h, o, skip)
           lines == LineSpans(h, from, Len(h))
           taken == UpTo(h, lines, until, max)
           span == BlockSpan(h, o, skip, until, max)
<1>0. from \in 0 .. Len(h) /\ (StartsLine(h, from) \/ from = Len(h))
  BY AdvanceReachesLine
<1>1. from < Len(h)
  OBVIOUS
<1>2. Len(h) \in Nat /\ Len(h) \in 0 .. Len(h)
  BY TextsHaveNewlines
<1>3. span = IF from >= Len(h) THEN <<Len(h), Len(h)>>
             ELSE <<from, IF taken = << >> THEN from ELSE Last(taken)[2]>>
  BY DEF BlockSpan, BlockAt, Around, Taken
<1> HIDE DEF from
<1>4. /\ from \in 0 .. Len(h) - 1 /\ from \in 0 .. Len(h) /\ from \in Nat
      /\ StartsLine(h, from) /\ h # << >>
  BY <1>0, <1>1, <1>2
<1>5. LinesCover(h, lines, from) /\ CutsAtLines(h, from)
  BY <1>4, LinesFromCover, LinesCut
<1>6. lines \in Seq(LinesOfText(h)) /\ lines # << >>
  BY <1>2, <1>4, <1>5, LinesInWindow DEF LinesCover
<1>7. \A m \in DOMAIN lines : LineSpans(h, from, lines[m][2]) = SubSeq(lines, 1, m)
  BY <1>5 DEF CutsAtLines
<1>8. LineSpans(h, from, from) = SubSeq(lines, 1, 1)
  <2> DEFINE line == <<from, LineEnd(h, from)>>
             over == EndsAt(h, from)
  <2>1. over \in from .. Len(h) /\ over \in Nat /\ (over < Len(h) => Byte(h, over) = "\n")
        /\ LineEnd(h, from) \in from .. Len(h)
    BY <1>4, LineEndOf
  <2>2. over + 1 < Len(h) => LineSpans(h, over + 1, from) = << >>
    <3> SUFFICES ASSUME over + 1 < Len(h) PROVE LineSpans(h, over + 1, from) = << >>
      OBVIOUS
    <3> HIDE DEF over
    <3>1. over + 1 \in 0 .. Len(h) /\ over + 1 - 1 = over /\ over + 1 > from
      BY <1>2, <1>4, <2>1
    <3>2. StartsLine(h, over + 1)
      BY <1>2, <2>1, <3>1 DEF StartsLine
    <3> QED BY <1>4, <3>1, <3>2, LineSpansUnfold
  <2>3. LineSpans(h, from, from)
          = <<line>> \o IF over + 1 >= Len(h) THEN << >> ELSE LineSpans(h, over + 1, from)
    <3>1. ~(from > from)
      BY <1>4
    <3> QED BY <1>4, <3>1, LineSpansUnfold
  <2>4. LineSpans(h, from, from) = <<line>>
    <3>1. ~(over + 1 >= Len(h)) => over + 1 < Len(h)
      BY <1>2, <2>1
    <3> HIDE DEF line, over
    <3>2. <<line>> \o << >> = <<line>>
      OBVIOUS
    <3> QED BY <2>2, <2>3, <3>1, <3>2
  <2>5. lines[1] = line
    <3>1. LineSpans(h, from, Len(h))
            = <<line>> \o IF over + 1 >= Len(h) THEN << >> ELSE LineSpans(h, over + 1, Len(h))
      <4>1. ~(from > Len(h))
        BY <1>1, <1>2, <1>4
      <4> QED BY <1>2, <1>4, <4>1, LineSpansUnfold
    <3>2. IF over + 1 >= Len(h) THEN TRUE ELSE LineSpans(h, over + 1, Len(h)) \in Seq(LinesOfText(h))
      <4> SUFFICES ASSUME ~(over + 1 >= Len(h))
                   PROVE  LineSpans(h, over + 1, Len(h)) \in Seq(LinesOfText(h))
        OBVIOUS
      <4> HIDE DEF over
      <4>1. over + 1 \in 0 .. Len(h)
        BY <1>2, <2>1
      <4> QED BY <1>2, <4>1, LinesInWindow
    <3> DEFINE rest == IF over + 1 >= Len(h) THEN << >> ELSE LineSpans(h, over + 1, Len(h))
    <3>3. rest \in Seq(LinesOfText(h)) /\ lines = <<line>> \o rest
      BY <3>1, <3>2
    <3> HIDE DEF rest, lines, line
    <3> QED BY <3>3
  <2> HIDE DEF lines, line
  <2>6. SubSeq(lines, 1, 1) = <<lines[1]>>
    <3>1. Len(lines) \in Nat /\ Len(lines) >= 1 /\ 1 \in 1 .. Len(lines)
      BY <1>6
    <3>2. SubSeq(lines, 1, 1) \in Seq(LinesOfText(h)) /\ Len(SubSeq(lines, 1, 1)) = 1
          /\ SubSeq(lines, 1, 1)[1] = lines[1]
      BY <1>6, <3>1, FirstItems
    <3> DEFINE s == SubSeq(lines, 1, 1)
    <3>3. s \in Seq(LinesOfText(h)) /\ Len(s) = 1 /\ s[1] = lines[1]
      BY <3>2
    <3> HIDE DEF s
    <3>4. s = <<lines[1]>>
      BY <3>3
    <3> QED BY <3>4 DEF s
  <2> QED BY <2>4, <2>5, <2>6
<1> HIDE DEF lines
<1>9. PICK n \in 0 .. Len(lines) :
        /\ taken = SubSeq(lines, 1, n)
        /\ \A i \in 1 .. n : ~Ends(h, lines[i], i, until, max)
        /\ n < Len(lines) => Ends(h, lines[n + 1], n + 1, until, max)
  BY <1>6, TakenExactly
<1>10. Len(lines) \in Nat /\ Len(lines) >= 1 /\ n \in Nat /\ DOMAIN lines = 1 .. Len(lines)
  BY <1>6
<1>11. CASE n = 0
  <2>1. taken = << >>
    BY <1>9, <1>11
  <2>2. span = <<from, from>>
    BY <1>1, <1>2, <1>3, <1>4, <2>1
  <2>3. LinesOf(h, span) = SubSeq(lines, 1, 1) /\ 1 \in 1 .. Len(lines)
    BY <1>8, <1>10, <2>2 DEF LinesOf
  <2> HIDE DEF span, taken
  <2>4. from \in 0 .. Len(h) - 1 /\ StartsLine(h, from) /\ lines \in Seq(LinesOfText(h))
    BY <1>4, <1>6
  <2>5. \E m \in 1 .. Len(lines) :
          LinesOf(h, span) = SubSeq(lines, 1, m) /\ m = IF n = 0 THEN 1 ELSE n
    BY <1>11, <2>3
  <2> QED BY <1>9, <2>4, <2>5 DEF span, lines, from
<1>12. CASE n # 0
  <2>1. Len(taken) = n /\ taken[n] = lines[n] /\ taken # << >> /\ n \in 1 .. Len(lines)
    <3>1. n \in 1 .. Len(lines) /\ n \in 1 .. n
      BY <1>10, <1>12
    <3>2. SubSeq(lines, 1, n) \in Seq(LinesOfText(h)) /\ Len(SubSeq(lines, 1, n)) = n
          /\ SubSeq(lines, 1, n)[n] = lines[n]
      BY <1>6, <3>1, FirstItems
    <3> HIDE DEF taken
    <3>3. taken # << >>
      BY <1>9, <1>12, <3>2
    <3> QED BY <1>9, <3>1, <3>2, <3>3
  <2>2. Last(taken) = lines[n]
    <3> HIDE DEF taken
    <3> QED BY <2>1 DEF Last
  <2> HIDE DEF taken
  <2>3. span = <<from, lines[n][2]>>
    BY <1>1, <1>2, <1>3, <1>4, <2>1, <2>2
  <2>4. LinesOf(h, span) = SubSeq(lines, 1, n)
    BY <1>7, <1>10, <2>1, <2>3 DEF LinesOf
  <2> HIDE DEF span
  <2>5. from \in 0 .. Len(h) - 1 /\ StartsLine(h, from) /\ lines \in Seq(LinesOfText(h))
    BY <1>4, <1>6
  <2>6. \E m \in 1 .. Len(lines) :
          LinesOf(h, span) = SubSeq(lines, 1, m) /\ m = IF n = 0 THEN 1 ELSE n
    BY <1>12, <2>1, <2>4
  <2> QED BY <1>9, <2>5, <2>6 DEF span, lines, from
<1> QED BY <1>11, <1>12

(* A line of the shorter text ends a block in both, or in neither.         *)
LEMMA GrownStops ==
  ASSUME NEW h, NEW g, Grown(h, g), NEW line \in LinesOfText(h), NEW until
  PROVE  Stops(g, line, until) <=> Stops(h, line, until)
<1>1. line \in Nat \X Nat /\ line[2] \in line[1] .. Len(h)
  BY LinesAreTyped DEF Grown
<1>2. line = <<line[1], line[2]>> /\ line[1] \in Nat
  BY <1>1
<1>3. Bytes(g, <<line[1], line[2]>>) = Bytes(h, <<line[1], line[2]>>)
  BY <1>1, <1>2, GrownBytes
<1> QED BY <1>2, <1>3 DEF Stops

(* The lines of a block that was begun are the first lines of that block   *)
(* in the longer text, in which it may go on.                              *)
LEMMA GrownBlock ==
  ASSUME NEW h, NEW g, Grown(h, g), NEW o \in 0 .. Len(h), NEW skip \in Int, NEW until,
         NEW max \in Int, NEW further \in Int, max <= further, AdvanceLines(h, o, skip) < Len(h)
  PROVE  Begins(LinesOf(h, BlockSpan(h, o, skip, until, max)),
                LinesOf(g, BlockSpan(g, o, skip, until, further)))
<1> DEFINE from == AdvanceLines(h, o, skip)
           lines == LineSpans(h, from, Len(h))
           more == LineSpans(g, from, Len(g))
           old == LinesOf(h, BlockSpan(h, o, skip, until, max))
           new == LinesOf(g, BlockSpan(g, o, skip, until, further))
<1>1. /\ IsText(h) /\ IsText(g) /\ Len(h) \in Nat /\ Len(g) \in Nat /\ Len(h) <= Len(g)
      /\ o \in 0 .. Len(g)
  BY TextsHaveNewlines DEF Grown
<1>2. AdvanceLines(g, o, skip) = from /\ from < Len(h) /\ from \in 0 .. Len(h)
  BY <1>1, GrownAdvance, AdvanceReachesLine
<1>3. /\ from \in 0 .. Len(h) - 1 /\ StartsLine(h, from) /\ lines \in Seq(LinesOfText(h))
      /\ \E m \in 1 .. Len(lines), n \in 0 .. Len(lines) :
           /\ old = SubSeq(lines, 1, m) /\ m = IF n = 0 THEN 1 ELSE n
           /\ \A i \in 1 .. n : ~Ends(h, lines[i], i, until, max)
  BY <1>1, LinesOfBlock
<1>4. AdvanceLines(g, o, skip) < Len(g)
  <2> HIDE DEF from
  <2> QED BY <1>1, <1>2
<1>5. /\ more \in Seq(LinesOfText(g))
      /\ \E m \in 1 .. Len(more), n \in 0 .. Len(more) :
           /\ new = SubSeq(more, 1, m) /\ m = IF n = 0 THEN 1 ELSE n
           /\ n < Len(more) => Ends(g, more[n + 1], n + 1, until, further)
  <2> DEFINE here == AdvanceLines(g, o, skip)
             all == LineSpans(g, here, Len(g))
  <2>1. /\ all \in Seq(LinesOfText(g))
        /\ \E m \in 1 .. Len(all), n \in 0 .. Len(all) :
             /\ new = SubSeq(all, 1, m) /\ m = IF n = 0 THEN 1 ELSE n
             /\ n < Len(all) => Ends(g, all[n + 1], n + 1, until, further)
    BY <1>1, <1>4, LinesOfBlock
  <2>2. all = more
    BY <1>2
  <2> HIDE DEF all, more, new
  <2> QED BY <2>1, <2>2
<1> HIDE DEF from
<1>6. Begins(lines, more)
  <2>1. h # << >>
    BY <1>1, <1>2, <1>3
  <2> QED BY <1>3, <2>1, GrownLines
<1> HIDE DEF lines, more, old, new
<1>7. PICK m \in 1 .. Len(lines), n \in 0 .. Len(lines) :
        /\ old = SubSeq(lines, 1, m) /\ m = IF n = 0 THEN 1 ELSE n
        /\ \A i \in 1 .. n : ~Ends(h, lines[i], i, until, max)
  BY <1>3
<1>8. PICK j \in 1 .. Len(more), k \in 0 .. Len(more) :
        /\ new = SubSeq(more, 1, j) /\ j = IF k = 0 THEN 1 ELSE k
        /\ k < Len(more) => Ends(g, more[k + 1], k + 1, until, further)
  BY <1>5
<1>9. /\ Len(lines) \in Nat /\ Len(more) \in Nat /\ DOMAIN lines = 1 .. Len(lines)
      /\ Len(lines) <= Len(more) /\ \A i \in 1 .. Len(lines) : more[i] = lines[i]
  BY <1>3, <1>5, <1>6 DEF Begins
<1>10. ~(k < n)
  <2> SUFFICES ASSUME k < n PROVE FALSE
    OBVIOUS
  <2>1. k + 1 \in 1 .. n /\ k + 1 \in 1 .. Len(lines) /\ k < Len(more) /\ k + 1 \in Int
    BY <1>7, <1>8, <1>9
  <2>2. ~(k + 1 > max) /\ ~Stops(h, lines[k + 1], until)
    BY <1>7, <2>1 DEF Ends
  <2>3. lines[k + 1] \in LinesOfText(h) /\ more[k + 1] = lines[k + 1]
    BY <1>3, <1>9, <2>1
  <2>4. ~Stops(g, more[k + 1], until)
    BY <2>2, <2>3, GrownStops
  <2>5. ~(k + 1 > further)
    BY <2>1, <2>2
  <2> QED BY <1>8, <2>1, <2>4, <2>5 DEF Ends
<1>11. m <= j
  BY <1>7, <1>8, <1>9, <1>10
<1>12. Len(old) = m /\ \A i \in 1 .. m : old[i] = lines[i]
  BY <1>3, <1>7, FirstItems
<1>13. Len(new) = j /\ \A i \in 1 .. j : new[i] = more[i]
  BY <1>5, <1>8, FirstItems
<1>14. \A i \in 1 .. m : i \in 1 .. j /\ i \in 1 .. Len(lines)
  BY <1>7, <1>8, <1>9, <1>11
<1>15. Begins(old, new)
  BY <1>9, <1>11, <1>12, <1>13, <1>14 DEF Begins
<1> QED BY <1>15 DEF old, new

(* What joins up from the first lists stays in front.                      *)
LEMMA FlattenBegins ==
  ASSUME NEW S, NEW s \in Seq(Seq(S)), NEW t \in Seq(Seq(S)), Begins(s, t)
  PROVE  Begins(FlattenSeq(s), FlattenSeq(t))
<1>1. PICK v \in [0 .. Len(s) -> Seq(S)] : JoinsUp(v, s) /\ FlattenSeq(s) = v[Len(s)]
  BY FlattenJoinsUp
<1>2. PICK w \in [0 .. Len(t) -> Seq(S)] : JoinsUp(w, t) /\ FlattenSeq(t) = w[Len(t)]
  BY FlattenJoinsUp
<1> DEFINE n == Len(s)
           good == {k \in Nat : n + k <= Len(t) => Begins(v[n], w[n + k])}
<1>3. n \in Nat /\ Len(t) \in Nat /\ n <= Len(t) /\ \A i \in 1 .. n : t[i] = s[i]
  BY DEF Begins
<1>4. \A i \in 1 .. n : v[i - 1] = w[i - 1] => v[i] = w[i]
  <2> TAKE i \in 1 .. n
  <2>1. i \in 1 .. Len(t)
    BY <1>3
  <2> QED BY <1>1, <1>2, <1>3, <2>1 DEF JoinsUp
<1>5. v[n] = w[n]
  <2>1. v[0] = w[0]
    BY <1>1, <1>2 DEF JoinsUp
  <2> HIDE DEF n
  <2> QED BY <1>3, <1>4, <2>1, SameJoins
<1>6. v[n] \in Seq(S)
  BY <1>3
<1>7. 0 \in good
  <2>1. n + 0 = n /\ Len(v[n]) \in Nat
    BY <1>3, <1>6
  <2> QED BY <1>5, <2>1 DEF Begins
<1>8. ASSUME NEW k \in Nat, k \in good PROVE k + 1 \in good
  <2> SUFFICES ASSUME n + (k + 1) <= Len(t) PROVE Begins(v[n], w[n + (k + 1)])
    OBVIOUS
  <2> DEFINE a == v[n]
             b == w[n + k]
             c == t[n + k + 1]
  <2>1. /\ n + (k + 1) = n + k + 1 /\ n + k <= Len(t) /\ n + k \in 0 .. Len(t)
        /\ n + k + 1 \in 1 .. Len(t) /\ (n + k + 1) - 1 = n + k
    BY <1>3
  <2>2. Begins(a, b)
    BY <1>8, <2>1
  <2>3. w[n + k + 1] = b \o c
    BY <1>2, <2>1 DEF JoinsUp
  <2>4. a \in Seq(S) /\ b \in Seq(S) /\ c \in Seq(S)
    BY <1>6, <2>1
  <2> HIDE DEF a, b, c
  <2>5. Len(a) \in Nat /\ Len(b) \in Nat /\ Len(c) \in Nat /\ Len(b \o c) = Len(b) + Len(c)
        /\ \A i \in 1 .. Len(b) : (b \o c)[i] = b[i]
    BY <2>4
  <2>6. \A i \in 1 .. Len(a) : i \in 1 .. Len(b)
    BY <2>2, <2>5 DEF Begins
  <2>7. Begins(a, b \o c)
    BY <2>2, <2>5, <2>6 DEF Begins
  <2> QED BY <2>1, <2>3, <2>7 DEF a
<1> HIDE DEF good
<1>9. Nat \subseteq good
  BY <1>7, <1>8, NumberInduction
<1>10. Len(t) - n \in good /\ n + (Len(t) - n) = Len(t)
  BY <1>3, <1>9
<1>11. Begins(v[n], w[Len(t)])
  BY <1>3, <1>10 DEF good
<1> QED BY <1>1, <1>2, <1>11

(* The rows of lines that others begin with are rows those begin with.     *)
LEMMA RowsBegin ==
  ASSUME NEW L, NEW s \in Seq(L), NEW t \in Seq(L), Begins(s, t), NEW rule
  PROVE  IsPrefix(FlattenSeq(RowsOfAll(s, rule)), FlattenSeq(RowsOfAll(t, rule)))
<1> DEFINE S == MadeOf(L, rule)
           u == RowsOfAll(s, rule)
           v == RowsOfAll(t, rule)
<1>1. u \in Seq(Seq(S)) /\ v \in Seq(Seq(S)) /\ Len(u) = Len(s) /\ Len(v) = Len(t)
  BY RowsAreLists
<1>2. \A i \in DOMAIN s : u[i] = Row(s[i], rule)
  BY DEF RowsOfAll
<1>3. \A i \in DOMAIN t : v[i] = Row(t[i], rule)
  BY DEF RowsOfAll
<1> HIDE DEF u, v, S
<1>4. /\ Len(s) \in Nat /\ Len(t) \in Nat /\ DOMAIN s = 1 .. Len(s) /\ DOMAIN t = 1 .. Len(t)
      /\ Len(s) <= Len(t) /\ \A i \in 1 .. Len(s) : t[i] = s[i]
  BY DEF Begins
<1>5. \A i \in 1 .. Len(s) : i \in 1 .. Len(t)
  BY <1>4
<1>6. Begins(u, v)
  BY <1>1, <1>2, <1>3, <1>4, <1>5 DEF Begins
<1>7. /\ FlattenSeq(u) \in Seq(S) /\ FlattenSeq(v) \in Seq(S)
      /\ Begins(FlattenSeq(u), FlattenSeq(v))
  BY <1>1, <1>6, FlattenIsList, FlattenBegins
<1>8. IsPrefix(FlattenSeq(u), FlattenSeq(v))
  BY <1>7, PrefixItems DEF Begins
<1> QED BY <1>8 DEF u, v

(* Present is what has a prefix that was present.                          *)
LEMMA PresentStays ==
  ASSUME NEW S, NEW s \in Seq(S), NEW T, NEW t \in Seq(T), IsPrefix(s, t), NEW at, NEW why,
         IsPresent(PresentOr(<<s>>, at, why))
  PROVE  /\ IsPresent(PresentOr(<<t>>, at, why))
         /\ IsPrefix(PresentOr(<<s>>, at, why).value, PresentOr(<<t>>, at, why).value)
<1>1. s # << >>
  BY OneOrNone, KindsOfValue DEF IsPresent
<1>2. t # << >>
  <2>1. Len(s) \in Nat /\ Len(s) # 0 /\ Len(s) <= Len(t)
    BY <1>1 DEF IsPrefix
  <2>2. Len(<< >>) = 0
    OBVIOUS
  <2> QED BY <2>1, <2>2
<1>3. PresentOr(<<s>>, at, why) = Present(s, at) /\ PresentOr(<<t>>, at, why) = Present(t, at)
  BY <1>1, <1>2, OneOrNone
<1> QED BY <1>3, KindsOfValue DEF IsPresent

(* The line of a place is the same, and so are the fields on it.           *)
LEMMA GrownLineOf ==
  ASSUME NEW h, NEW g, Grown(h, g), NEW o \in 0 .. Len(h) - 1
  PROVE  /\ LineSpan(g, o) = LineSpan(h, o)
         /\ Split(g, LineSpan(g, o)) = Split(h, LineSpan(h, o))
         /\ Bytes(g, LineSpan(g, o)) = Bytes(h, LineSpan(h, o))
<1> DEFINE from == LineStart(h, o)
           to == LineEnd(h, o)
<1>1. IsText(h) /\ Len(h) \in Nat /\ o \in 0 .. Len(h) /\ o \in Nat
  BY TextsHaveNewlines DEF Grown
<1>2. LineStart(g, o) = from /\ LineEnd(g, o) = to
  BY <1>1, GrownLineStart, GrownEnds
<1>3. from \in 0 .. o /\ to \in o .. Len(h)
  BY <1>1, LineStartOf, LineEndOf
<1>4. LineSpan(h, o) = <<from, to>> /\ LineSpan(g, o) = <<from, to>>
  BY <1>2 DEF LineSpan
<1> HIDE DEF from, to
<1>5. from \in Nat /\ to \in from .. Len(h)
  BY <1>1, <1>3
<1> QED BY <1>4, <1>5, GrownSplit, GrownBytes

(* The rows of a block that was begun stay, and others may follow.         *)
LEMMA GrownRows ==
  ASSUME NEW h, NEW g, Grown(h, g), NEW at \in 0 .. Len(h), NEW block, TypedBlock(block),
         NEW rule, TypedParse(rule), ColumnsUpward(rule), AdvanceLines(h, at, block.skip) < Len(h)
  PROVE  LET old == RowsOf(Filled(SplitLines(h, SpanOf(h, at, block))), rule)
             new == RowsOf(Filled(SplitLines(g, SpanOf(g, at, block))), rule)
         IN  \E S, T : \E s \in Seq(S), t \in Seq(T) :
               old = <<s>> /\ new = <<t>> /\ IsPrefix(s, t)
<1> DEFINE span == SpanOf(h, at, block)
           past == SpanOf(g, at, block)
           lines == SplitLines(h, span)
           more == SplitLines(g, past)
           L == FieldLists(h) \union FieldLists(g)
<1>1. /\ IsText(h) /\ IsText(g) /\ Len(h) \in Nat /\ Len(g) \in Nat /\ Len(h) <= Len(g)
      /\ at \in 0 .. Len(g) /\ block.skip \in Int
  BY TextsHaveNewlines DEF Grown, TypedBlock
<1>2. MaxLines(h, block) \in Int /\ MaxLines(g, block) \in Int /\ MaxLines(h, block) <= MaxLines(g, block)
  BY <1>1 DEF MaxLines, TypedBlock
<1>3. Begins(LinesOf(h, span), LinesOf(g, past))
  BY <1>1, <1>2, GrownBlock DEF SpanOf
<1>4. span[1] \in 0 .. Len(h) /\ span[2] \in 0 .. Len(h) /\ past[1] \in 0 .. Len(g) /\ past[2] \in 0 .. Len(g)
  BY <1>1, SpanLiesInText
<1>5. PICK s \in Seq(MadeOf(FieldLists(h), rule)) :
        SlowRows(h, span, rule) = <<s>> /\ RowsOf(Filled(lines), rule) = <<s>>
  BY <1>1, RowsOfBlock
<1>6. PICK t \in Seq(MadeOf(FieldLists(g), rule)) :
        SlowRows(g, past, rule) = <<t>> /\ RowsOf(Filled(more), rule) = <<t>>
  BY <1>1, RowsOfBlock
<1> HIDE DEF span, past
<1>7. lines \in Seq(FieldLists(h)) /\ Len(lines) = Len(LinesOf(h, span))
      /\ more \in Seq(FieldLists(g)) /\ Len(more) = Len(LinesOf(g, past))
  BY <1>1, <1>4, LinesAreSplit
<1>8. /\ \A fields \in FieldLists(h) : Len(fields) \in Nat /\ DOMAIN fields = 1 .. Len(fields)
      /\ \A fields \in FieldLists(g) : Len(fields) \in Nat /\ DOMAIN fields = 1 .. Len(fields)
  BY <1>1, LinesAreLists
<1>9. SlowRows(h, span, rule) = <<FlattenSeq(RowsOfAll(lines, rule))>>
  BY <1>7, <1>8, RowsAreMade DEF SlowRows
<1>10. SlowRows(g, past, rule) = <<FlattenSeq(RowsOfAll(more, rule))>>
  BY <1>7, <1>8, RowsAreMade DEF SlowRows
<1>11. LinesOf(h, span) \in Seq(LinesOfText(h))
  BY <1>1, <1>4, LinesInWindow DEF LinesOf
<1>12. /\ \A i \in DOMAIN LinesOf(h, span) : lines[i] = Split(h, LinesOf(h, span)[i])
       /\ \A i \in DOMAIN LinesOf(g, past) : more[i] = Split(g, LinesOf(g, past)[i])
  BY DEF SplitLines, SplitEach
<1> HIDE DEF lines, more
<1>13. Begins(lines, more)
  <2> DEFINE old == LinesOf(h, span)
             new == LinesOf(g, past)
  <2>1. /\ Len(old) <= Len(new) /\ \A i \in 1 .. Len(old) : new[i] = old[i]
        /\ Len(old) \in Nat /\ DOMAIN old = 1 .. Len(old)
    BY <1>3, <1>11 DEF Begins
  <2>2. DOMAIN new = 1 .. Len(new) /\ Len(new) \in Nat
    <3>1. new \in Seq(LinesOfText(g))
      BY <1>1, <1>4, LinesInWindow DEF LinesOf
    <3> QED BY <3>1
  <2>3. \A i \in 1 .. Len(old) : old[i] \in LinesOfText(h)
    BY <1>11
  <2> HIDE DEF old, new
  <2>4. ASSUME NEW i \in 1 .. Len(lines) PROVE more[i] = lines[i]
    <3>1. i \in 1 .. Len(old) /\ i \in 1 .. Len(new)
      BY <1>7, <2>1, <2>2, <2>4 DEF old
    <3> DEFINE line == old[i]
    <3>2. line \in LinesOfText(h) /\ new[i] = line
      BY <2>1, <2>3, <3>1
    <3> HIDE DEF line
    <3>3. line \in Nat \X Nat /\ line[2] \in line[1] .. Len(h)
      BY <1>1, <3>2, LinesAreTyped
    <3>4. line = <<line[1], line[2]>> /\ line[1] \in Nat
      BY <3>3
    <3>5. Split(g, <<line[1], line[2]>>) = Split(h, <<line[1], line[2]>>)
      BY <3>3, <3>4, GrownSplit
    <3>6. lines[i] = Split(h, line) /\ more[i] = Split(g, new[i])
      BY <1>12, <2>1, <2>2, <3>1 DEF old, new, line
    <3> QED BY <3>2, <3>4, <3>5, <3>6
  <2> QED BY <1>7, <2>1, <2>4 DEF Begins, old, new
<1>14. lines \in Seq(L) /\ more \in Seq(L)
  BY <1>7
<1> HIDE DEF L
<1>15. IsPrefix(FlattenSeq(RowsOfAll(lines, rule)), FlattenSeq(RowsOfAll(more, rule)))
  BY <1>13, <1>14, RowsBegin
<1>16. s = FlattenSeq(RowsOfAll(lines, rule)) /\ t = FlattenSeq(RowsOfAll(more, rule))
  BY <1>5, <1>6, <1>9, <1>10
<1>17. IsPrefix(s, t)
  BY <1>15, <1>16
<1> QED BY <1>5, <1>6, <1>17 DEF lines, more, span, past

(* What is read of lines that others begin with is what is first read of   *)
(* those.                                                                  *)
LEMMA ItemsBegin ==
  ASSUME NEW rule, TypedParse(rule), ColumnsUpward(rule), NEW L,
         NEW lines \in Seq(L), NEW more \in Seq(L), Begins(lines, more),
         \A fields \in L : Len(fields) \in Nat /\ DOMAIN fields = 1 .. Len(fields)
  PROVE  \E S : \E s \in Seq(S), t \in Seq(S) :
           ItemsOf(lines, rule) = <<s>> /\ ItemsOf(more, rule) = <<t>> /\ IsPrefix(s, t)
<1>1. CASE ReadsTable(rule)
  <2> DEFINE S == MadeOf(L, rule)
             s == FlattenSeq(RowsOfAll(lines, rule))
             t == FlattenSeq(RowsOfAll(more, rule))
  <2>1. RowsOfAll(lines, rule) \in Seq(Seq(S)) /\ RowsOfAll(more, rule) \in Seq(Seq(S))
    BY RowsAreLists
  <2>2. ItemsOf(lines, rule) = <<s>> /\ ItemsOf(more, rule) = <<t>>
    BY <1>1, RowsAreMade DEF ItemsOf
  <2>3. IsPrefix(s, t)
    BY RowsBegin
  <2> HIDE DEF S
  <2>4. s \in Seq(S) /\ t \in Seq(S)
    BY <2>1, FlattenIsList
  <2> HIDE DEF s, t
  <2> QED BY <2>2, <2>3, <2>4
<1>2. CASE ~ReadsTable(rule)
  <2> DEFINE text_(l) == IF rule.field = << >> THEN << >> ELSE Field(l, rule.field[1])
             value(l) == Convert(text_(l)[1], rule.type, rule.strip)
             item(l) == ItemOf(l, rule)
             S == {value(l)[1] : l \in L}
             all == [i \in DOMAIN lines |-> item(lines[i])]
             further == [i \in DOMAIN more |-> item(more[i])]
  <2>1. ASSUME NEW l \in L PROVE item(l) \in Seq(S)
    <3>1. item(l) = IF text_(l) = << >> THEN << >> ELSE value(l)
      BY DEF ItemOf
    <3>2. value(l) # << >> => value(l) = <<value(l)[1]>>
      BY ConvertsToOne DEF TypedParse
    <3> DEFINE v == value(l)[1]
    <3>3. v \in S
      OBVIOUS
    <3> HIDE DEF item, value, S
    <3>4. item(l) = << >> \/ item(l) = <<v>>
      BY <3>1, <3>2
    <3> HIDE DEF v
    <3>5. << >> \in Seq(S) /\ <<v>> \in Seq(S)
      BY <3>3
    <3>6. CASE item(l) = << >>
      BY <3>5, <3>6
    <3>7. CASE item(l) = <<v>>
      BY <3>5, <3>7
    <3> QED BY <3>4, <3>6, <3>7
  <2>2. ItemsOf(lines, rule) = <<FlattenSeq(all)>> /\ ItemsOf(more, rule) = <<FlattenSeq(further)>>
    BY <1>2 DEF ItemsOf
  <2> HIDE DEF item, S
  <2>3. /\ DOMAIN lines = 1 .. Len(lines) /\ Len(lines) \in Nat
        /\ \A i \in 1 .. Len(lines) : lines[i] \in L
        /\ DOMAIN more = 1 .. Len(more) /\ Len(more) \in Nat
        /\ \A i \in 1 .. Len(more) : more[i] \in L
    OBVIOUS
  <2>4. all \in Seq(Seq(S)) /\ Len(all) = Len(lines) /\ \A i \in 1 .. Len(lines) : all[i] = item(lines[i])
    <3>1. all = [i \in 1 .. Len(lines) |-> item(lines[i])]
      BY <2>3
    <3>2. \A i \in 1 .. Len(lines) : item(lines[i]) \in Seq(S)
      BY <2>1, <2>3
    <3> HIDE DEF all
    <3> QED BY <2>3, <3>1, <3>2
  <2>5. further \in Seq(Seq(S)) /\ Len(further) = Len(more)
        /\ \A i \in 1 .. Len(more) : further[i] = item(more[i])
    <3>1. further = [i \in 1 .. Len(more) |-> item(more[i])]
      BY <2>3
    <3>2. \A i \in 1 .. Len(more) : item(more[i]) \in Seq(S)
      BY <2>1, <2>3
    <3> HIDE DEF further
    <3> QED BY <2>3, <3>1, <3>2
  <2> HIDE DEF all, further
  <2>6. Begins(all, further)
    <3>1. Len(lines) <= Len(more) /\ \A i \in 1 .. Len(lines) : i \in 1 .. Len(more) /\ more[i] = lines[i]
      BY <2>3 DEF Begins
    <3> QED BY <2>4, <2>5, <3>1 DEF Begins
  <2> DEFINE s == FlattenSeq(all)
             t == FlattenSeq(further)
  <2>7. s \in Seq(S) /\ t \in Seq(S) /\ Begins(s, t)
    BY <2>4, <2>5, <2>6, FlattenIsList, FlattenBegins
  <2> HIDE DEF s, t
  <2>8. IsPrefix(s, t)
    BY <2>7, PrefixItems DEF Begins
  <2> QED BY <2>2, <2>7, <2>8 DEF s, t
<1> QED BY <1>1, <1>2

-----------------------------------------------------------------------------
(* Whatever is written behind whole lines, the text grows.                 *)
LEMMA TextsGrow ==
  ASSUME TextInv, Whole, NEW more \in Seq(Alphabet \union STRING)
  PROVE  Grown(text, text \o more) /\ IsText(text) /\ IsText(text \o more)
<1> DEFINE A == Alphabet \union STRING
           g == text \o more
<1>1. text \in Seq(A) /\ more \in Seq(A)
  BY DEF TextInv
<1> HIDE DEF A
<1>2. /\ g \in Seq(A) /\ Len(text) \in Nat /\ Len(more) \in Nat /\ Len(g) = Len(text) + Len(more)
      /\ \A i \in 1 .. Len(text) : g[i] = text[i]
  BY <1>1
<1> HIDE DEF g
<1>3. \A i \in 0 .. Len(text) - 1 : i + 1 \in 1 .. Len(text)
  BY <1>2
<1>4. text # << >> => Byte(text, Len(text) - 1) = "\n"
  <2>1. (Len(text) - 1) + 1 = Len(text)
    BY <1>2
  <2> QED BY <2>1 DEF Whole, Last, Byte
<1>5. IsText(text) /\ IsText(g)
  BY <1>1, <1>2 DEF IsText
<1>6. Grown(text, g)
  BY <1>2, <1>3, <1>4, <1>5 DEF Grown, Byte
<1> QED BY <1>5, <1>6 DEF g

(* Counted from the start, an anchor that was found is found there again,  *)
(* and so is every one of its hits.                                        *)
LEMMA GrownAnchor ==
  ASSUME TextInv, ~Unread, NEW more \in Seq(Alphabet \union STRING)
  PROVE  LET g == text \o more IN
         /\ FromTheStart /\ ~Repeats(q) /\ AnchorOffset(text, q) # NotFound =>
              AnchorOffset(g, q) = AnchorOffset(text, q)
         /\ Repeats(q) => IsPrefix(Hits, IterFind(g, q.anchor, 0, Len(g)))
                          /\ IterFind(g, q.anchor, 0, Len(g)) \in Seq(0 .. Len(g))
<1> DEFINE g == text \o more
           old == IterFind(text, q.anchor, 0, Len(text))
           new == IterFind(g, q.anchor, 0, Len(g))
<1>1. q.anchor = << >> => ~Repeats(q)
  BY LoadedIsValid DEF ValidQuantity, Readable, Toml
<1>2. CASE q.anchor = << >>
  BY <1>1, <1>2 DEF AnchorOffset
<1>3. CASE q.anchor # << >>
  <2> DEFINE A == Alphabet \union STRING
  <2>1. text \in Seq(A) /\ more \in Seq(A) /\ g \in Seq(A) /\ q.anchor \in Seq(A)
    <3>1. q.anchor \in Seq(STRING) /\ text \in Seq(A)
      BY LoadedIsTyped DEF TypedQuantity, TextInv
    <3> QED BY <3>1
  <2>2. Searchable(text, q.anchor) /\ Searchable(g, q.anchor)
    BY <1>3, <2>1 DEF Searchable
  <2>3. IsPrefix(old, new)
    BY <2>1, <2>2, IterFindGrows
  <2>4. /\ new \in Seq(Occurrences(g, q.anchor, 0, Len(g)))
        /\ old \in Seq(Occurrences(text, q.anchor, 0, Len(text)))
    <3>1. 0 \in Int
      OBVIOUS
    <3>2. /\ new \in Seq(Occurrences(g, q.anchor, 0, Len(g)))
          /\ FindNth(g, q.anchor, 0, 0, Len(g)) \in Occurrences(g, q.anchor, 0, Len(g)) \union {NotFound}
      BY <2>2, <3>1, HitsOccur
    <3>3. /\ old \in Seq(Occurrences(text, q.anchor, 0, Len(text)))
          /\ FindNth(text, q.anchor, 0, 0, Len(text))
               \in Occurrences(text, q.anchor, 0, Len(text)) \union {NotFound}
      BY <2>2, <3>1, HitsOccur
    <3> QED BY <3>2, <3>3
  <2>5. /\ Occurrences(g, q.anchor, 0, Len(g)) \subseteq 0 .. Len(g)
        /\ Occurrences(text, q.anchor, 0, Len(text)) \subseteq 0 .. Len(text)
    <3>1. Len(q.anchor) \in Nat /\ Len(g) \in Nat /\ Len(text) \in Nat
      BY <2>2, SearchableLengths
    <3> HIDE DEF g
    <3> QED BY <3>1 DEF Occurrences
  <2>6. new \in Seq(0 .. Len(g)) /\ old \in Seq(0 .. Len(text))
    BY <2>4, <2>5
  <2>7. ASSUME FromTheStart, ~Repeats(q), AnchorOffset(text, q) # NotFound
        PROVE  AnchorOffset(g, q) = AnchorOffset(text, q)
    <3>1. Nth(q) \in Int /\ Nth(q) >= 0
      <4>1. Nth(q) \in Int
        BY LoadedIsTyped DEF TypedQuantity
      <4>2. Nth(q) >= 0
        BY <1>3, <2>7 DEF FromTheStart, Nth, Toml
      <4> QED BY <4>1, <4>2
    <3> DEFINE i == Nth(q) + 1
    <3>2. /\ AnchorOffset(text, q) = IF i \in DOMAIN old THEN old[i] ELSE NotFound
          /\ AnchorOffset(g, q) = IF i \in DOMAIN new THEN new[i] ELSE NotFound
      BY <1>3, <3>1 DEF AnchorOffset, FindNth
    <3> HIDE DEF i, old, new, g
    <3>3. old \in Seq(Int) /\ new \in Seq(Int)
      BY <2>6
    <3>4. Len(old) <= Len(new) /\ \A k \in 1 .. Len(old) : old[k] = new[k]
      BY <2>3, <3>3, PrefixItems
    <3>5. /\ DOMAIN old = 1 .. Len(old) /\ Len(old) \in Nat
          /\ DOMAIN new = 1 .. Len(new) /\ Len(new) \in Nat
      BY <3>3
    <3>6. i \in DOMAIN old
      BY <2>7, <3>2
    <3>7. i \in DOMAIN new /\ old[i] = new[i]
      BY <3>4, <3>5, <3>6
    <3> QED BY <3>2, <3>6, <3>7
  <2> HIDE DEF old, new, g
  <2> QED BY <2>3, <2>6, <2>7 DEF old, new, g, Hits
<1> QED BY <1>2, <1>3

(* One occurrence: a scalar stays what it was, a table keeps its rows.     *)
LEMMA ReadingStays ==
  ASSUME TextInv, ~Unread, Upward, Whole, NEW more \in Seq(Alphabet \union STRING)
  PROVE  OneStays(Of(q, FALSE), ExtractQuantity(text \o more, q, FALSE))
<1> DEFINE g == text \o more
           at == AnchorOffset(text, q)
           before == Of(q, FALSE)
           after == ExtractQuantity(g, q, FALSE)
<1> SUFFICES ASSUME FromTheStart, ~Repeats(q), IsPresent(before), Reached(before.at)
             PROVE  IsPresent(after) /\ IF Scalar THEN after = before
                                        ELSE IsPrefix(before.value, after.value)
  BY DEF OneStays
<1>1. Grown(text, g) /\ IsText(text) /\ IsText(g) /\ Len(text) \in Nat
  BY TextsGrow, TextsHaveNewlines
<1>2. before = ValueAt(text, q, at)
  BY DEF Of, ExtractQuantity
<1>3. at # NotFound
  BY <1>2, KindsOfValue DEF ValueAt, IsPresent
<1>4. at \in 0 .. Len(text)
  BY <1>3, AnchorIsThere
<1>5. before.at = at
  <2>1. Answers(before, at)
    BY <1>3, AnswerHere
  <2> QED BY <2>1, AnswersAreThere
<1>6. ReadFrom(text, q, at) < Len(text)
  BY <1>5 DEF Reached
<1>7. after = ValueAt(g, q, at)
  <2>1. AnchorOffset(g, q) = at
    BY <1>3, GrownAnchor
  <2> QED BY <2>1 DEF ExtractQuantity
<1>8. TypedParse(q.parse) /\ ColumnsUpward(q.parse) /\ (q.block # << >> => TypedBlock(q.block[1]))
  BY LoadedIsTyped DEF TypedQuantity, Upward, ColumnsUpward
<1> HIDE DEF g, at
<1>9. CASE Scalar
  <2> DEFINE from == ReadFrom(text, q, at)
  <2>1. ReadFrom(g, q, at) = from /\ from \in 0 .. Len(text) - 1
    <3>1. CASE q.block = << >>
      <4>1. from = at /\ ReadFrom(g, q, at) = at
        BY <3>1 DEF ReadFrom
      <4> QED BY <1>1, <1>4, <1>6, <4>1
    <3>2. CASE q.block # << >>
      <4>1. /\ from = AdvanceLines(text, at, q.block[1].skip)
            /\ ReadFrom(g, q, at) = AdvanceLines(g, at, q.block[1].skip)
            /\ q.block[1].skip \in Int
        BY <1>8, <3>2 DEF ReadFrom, TypedBlock
      <4>2. AdvanceLines(g, at, q.block[1].skip) = from
        BY <1>1, <1>4, <1>6, <4>1, GrownAdvance
      <4>3. from \in 0 .. Len(text)
        BY <1>1, <1>4, <4>1, AdvanceReachesLine
      <4> HIDE DEF from
      <4>4. from < Len(text)
        BY <1>6 DEF from
      <4> QED BY <1>1, <4>1, <4>2, <4>3, <4>4
    <3> QED BY <3>1, <3>2
  <2>2. /\ LineSpan(g, from) = LineSpan(text, from)
        /\ Split(g, LineSpan(g, from)) = Split(text, LineSpan(text, from))
        /\ Bytes(g, LineSpan(g, from)) = Bytes(text, LineSpan(text, from))
    BY <1>1, <2>1, GrownLineOf
  <2> HIDE DEF from
  <2>3. Texts(g, q, LineSpan(g, from)) = Texts(text, q, LineSpan(text, from))
    BY <2>2 DEF Texts
  <2>4. ScalarValue(g, q, at) = ScalarValue(text, q, at)
    BY <2>1, <2>3 DEF ScalarValue, from
  <2>5. after = before
    BY <1>2, <1>3, <1>7, <1>9, <2>4 DEF ValueAt, Scalar
  <2> QED BY <1>9, <2>5
<1>10. CASE ~Scalar
  <2> DEFINE block == q.block[1]
             old == RowsOf(Filled(SplitLines(text, SpanOf(text, at, block))), q.parse)
             new == RowsOf(Filled(SplitLines(g, SpanOf(g, at, block))), q.parse)
  <2>1. q.block # << >>
    BY <1>10, LoadedIsValid DEF ValidQuantity, Readable, Toml, Scalar
  <2>2. before = PresentOr(old, at, "rows") /\ after = PresentOr(new, at, "rows")
    BY <1>2, <1>3, <1>7, <1>10, <2>1 DEF ValueAt, TableValue, Scalar
  <2>3. AdvanceLines(text, at, block.skip) < Len(text)
    BY <1>6, <2>1 DEF ReadFrom
  <2>4. \E S, T : \E s \in Seq(S), t \in Seq(T) : old = <<s>> /\ new = <<t>> /\ IsPrefix(s, t)
    BY <1>1, <1>4, <1>8, <2>1, <2>3, GrownRows
  <2> HIDE DEF old, new, before, after
  <2>5. PICK S, T : \E s \in Seq(S), t \in Seq(T) : old = <<s>> /\ new = <<t>> /\ IsPrefix(s, t)
    BY <2>4
  <2>6. PICK s \in Seq(S), t \in Seq(T) : old = <<s>> /\ new = <<t>> /\ IsPrefix(s, t)
    BY <2>5
  <2>7. IsPresent(after) /\ IsPrefix(before.value, after.value)
    BY <2>2, <2>6, PresentStays
  <2> QED BY <1>10, <2>7
<1> QED BY <1>9, <1>10

(* Every occurrence: what was read stays in front.                         *)
LEMMA ReadingsStay ==
  ASSUME TextInv, ~Unread, Upward, Whole, NEW more \in Seq(Alphabet \union STRING)
  PROVE  AllStay(Of(q, FALSE), ExtractQuantity(text \o more, q, FALSE))
<1> DEFINE g == text \o more
           before == Of(q, FALSE)
           after == ExtractQuantity(g, q, FALSE)
           old == Hits
           new == IterFind(g, q.anchor, 0, Len(g))
           oldLine(o) == Split(text, LineSpan(text, o))
           newLine(o) == Split(g, LineSpan(g, o))
           lines == [i \in DOMAIN old |-> oldLine(old[i])]
           further == [i \in DOMAIN new |-> newLine(new[i])]
           K == {oldLine(o) : o \in 0 .. Len(text)}
           M == {newLine(o) : o \in 0 .. Len(g)}
           L == K \union M
<1> SUFFICES ASSUME Repeats(q), q.block = << >>, IsPresent(before)
             PROVE  IsPresent(after) /\ IsPrefix(before.value, after.value)
  BY DEF AllStay
<1>1. Grown(text, g) /\ IsText(text) /\ IsText(g) /\ Len(text) \in Nat
  BY TextsGrow, TextsHaveNewlines
<1>2. TypedParse(q.parse) /\ ColumnsUpward(q.parse)
  BY LoadedIsTyped DEF TypedQuantity, Upward, ColumnsUpward
<1>3. IsPrefix(old, new) /\ old \in Seq(0 .. Len(text)) /\ new \in Seq(0 .. Len(g))
  BY AnchorIsThere, GrownAnchor
<1>4. \A i \in DOMAIN old : old[i] \in 0 .. Len(text) - 1
  <2>1. q.anchor # << >>
    BY LoadedIsValid DEF ValidQuantity, Readable, Toml
  <2> QED BY <2>1, AnchorIsThere DEF AtAnchor
<1>5. /\ before = RepeatedValue(text, q, old, FALSE) /\ after = RepeatedValue(g, q, new, FALSE)
  BY DEF Of, ExtractQuantity, Hits
<1>6. old # << >>
  BY <1>5, KindsOfValue DEF RepeatedValue, IsPresent
<1>7. /\ lines \in Seq(K) /\ Len(lines) = Len(old)
      /\ \A fields \in K : Len(fields) \in Nat /\ DOMAIN fields = 1 .. Len(fields)
  BY <1>1, <1>3, LinesOfHits
<1>8. /\ further \in Seq(M) /\ Len(further) = Len(new)
      /\ \A fields \in M : Len(fields) \in Nat /\ DOMAIN fields = 1 .. Len(fields)
  BY <1>1, <1>3, LinesOfHits
<1>9. /\ RepeatedLines(text, q, old) = PresentOr(ItemsOf(lines, q.parse), old[1], "nothing")
      /\ RepeatedLines(g, q, new) = PresentOr(ItemsOf(further, q.parse), new[1], "nothing")
  BY DEF RepeatedLines
<1>10. \A o \in 0 .. Len(text) - 1 : newLine(o) = oldLine(o)
  BY <1>1, GrownLineOf
<1> HIDE DEF oldLine, newLine, K, M, old, new, before, after, g
<1>11. /\ Len(old) \in Nat /\ Len(new) \in Nat /\ Len(old) <= Len(new)
       /\ DOMAIN old = 1 .. Len(old) /\ DOMAIN new = 1 .. Len(new)
       /\ \A i \in 1 .. Len(old) : old[i] = new[i]
  <2>1. old \in Seq(Int) /\ new \in Seq(Int)
    BY <1>3
  <2> QED BY <1>3, <2>1, PrefixItems
<1>12. new # << >> /\ old[1] = new[1]
  <2>1. Len(old) # 0
    BY <1>3, <1>6
  <2>2. Len(new) # 0 /\ 1 \in 1 .. Len(old)
    BY <1>11, <2>1
  <2> QED BY <1>11, <2>2
<1>13. before = RepeatedLines(text, q, old) /\ after = RepeatedLines(g, q, new)
  BY <1>5, <1>6, <1>12 DEF RepeatedValue
<1>14. /\ \A i \in 1 .. Len(old) : lines[i] = oldLine(old[i])
       /\ \A i \in 1 .. Len(new) : further[i] = newLine(new[i])
  BY <1>11
<1> HIDE DEF lines, further
<1>15. Begins(lines, further)
  <2>1. ASSUME NEW i \in 1 .. Len(old) PROVE further[i] = lines[i]
    <3>1. i \in 1 .. Len(new) /\ old[i] \in 0 .. Len(text) - 1 /\ old[i] = new[i]
      BY <1>4, <1>11
    <3> QED BY <1>10, <1>14, <3>1
  <2> QED BY <1>7, <1>8, <1>11, <2>1 DEF Begins
<1>16. lines \in Seq(L) /\ further \in Seq(L)
       /\ \A fields \in L : Len(fields) \in Nat /\ DOMAIN fields = 1 .. Len(fields)
  BY <1>7, <1>8
<1> HIDE DEF L
<1>17. PICK S : \E s \in Seq(S), t \in Seq(S) :
         ItemsOf(lines, q.parse) = <<s>> /\ ItemsOf(further, q.parse) = <<t>> /\ IsPrefix(s, t)
  BY <1>2, <1>15, <1>16, ItemsBegin
<1>18. PICK s \in Seq(S), t \in Seq(S) :
         ItemsOf(lines, q.parse) = <<s>> /\ ItemsOf(further, q.parse) = <<t>> /\ IsPrefix(s, t)
  BY <1>17
<1>19. before = PresentOr(<<s>>, old[1], "nothing") /\ after = PresentOr(<<t>>, old[1], "nothing")
  BY <1>9, <1>12, <1>13, <1>18
<1>20. IsPresent(after) /\ IsPrefix(before.value, after.value)
  <2>1. IsPresent(PresentOr(<<s>>, old[1], "nothing"))
    BY <1>19
  <2> QED BY <1>18, <1>19, <2>1, PresentStays
<1> QED BY <1>20

(* What a reader has read below whole lines it reads again when the file   *)
(* has grown: scalars as they were, tables with rows added to the end      *)
(* (watch.py re-extracts from a file that grew; Update says what it read). *)
THEOREM ReadingsAreKept == Spec => GrowthKeepsReadings
<1> DEFINE Kept == ~Unread /\ Upward /\ Whole =>
             /\ OneStays(Of(q, FALSE), ExtractQuantity(text', q, FALSE))
             /\ AllStay(Of(q, FALSE), ExtractQuantity(text', q, FALSE))
<1>1. ASSUME TextInv, Next PROVE Kept
  <2> SUFFICES ASSUME ~Unread, Upward, Whole
               PROVE  /\ OneStays(Of(q, FALSE), ExtractQuantity(text', q, FALSE))
                      /\ AllStay(Of(q, FALSE), ExtractQuantity(text', q, FALSE))
    OBVIOUS
  <2>1. PICK w \in Writes : Write(w)
    BY <1>1 DEF Next, Load, WriteCharacter
  <2>2. w \in Seq(STRING)
    BY TextAssumption
  <2>3. w \in Seq(Alphabet \union STRING) /\ text' = text \o w
    BY <2>1, <2>2 DEF Write
  <2>4. /\ OneStays(Of(q, FALSE), ExtractQuantity(text \o w, q, FALSE))
        /\ AllStay(Of(q, FALSE), ExtractQuantity(text \o w, q, FALSE))
    BY <1>1, <2>3, ReadingStays, ReadingsStay
  <2> QED BY <2>3, <2>4
<1>2. TextInv /\ [Next]_vars => [Kept]_vars
  BY <1>1
<1> QED BY <1>2, TextInvariant, PTL DEF Spec, GrowthKeepsReadings

-----------------------------------------------------------------------------
(* The row walk of the C engine: where a row ends, what it is, and where   *)
(* the next line starts.                                                   *)
StopAt(h, p, to) == Min({TolkLineEnd(h, p), to})
RowAt(h, p, to, cols) == RowOf(h, Fields(h, p, StopAt(h, p, to), FieldsMax), cols)
PastRow(h, p, to) == NextLine(h, FindIn(h, Newline, StopAt(h, p, to), Len(h)))
ScannedRows(h, to, cols) ==
  {ScanRow(h, Fields(h, p, StopAt(h, p, to), FieldsMax), cols) : p \in Nat}

ScanWalk(w, h, to, cols) ==
  w = [pos \in Nat |-> [left \in Nat |->
         IF pos > to \/ left = 0 THEN << >>
         ELSE RowAt(h, pos, to, cols) \o w[PastRow(h, pos, to)][left - Len(RowAt(h, pos, to, cols))]]]

(* A row ends where its line does, or with the window, and the walk goes   *)
(* on behind the newline.                                                  *)
LEMMA RowEndsInLine ==
  ASSUME NEW h, IsText(h), NEW to \in 0 .. Len(h), NEW p \in 0 .. to
  PROVE  /\ StopAt(h, p, to) \in p .. to /\ PastRow(h, p, to) \in p + 1 .. Len(h) + 1
         /\ Newlines(h, p, to) = {} => PastRow(h, p, to) > to
         /\ LineEnd(h, p) <= to =>
              StopAt(h, p, to) = LineEnd(h, p) /\ PastRow(h, p, to) = After(h, p)
<1> DEFINE stop == StopAt(h, p, to)
           nl == Find(h, Newline, stop, Len(h))
<1>1. /\ Len(h) \in Nat /\ p \in Nat /\ to \in Nat /\ p \in 0 .. Len(h) /\ p \in 0 .. Len(h) + 1
      /\ Len(h) \in 0 .. Len(h) /\ Searchable(h, Newline)
  BY TextsHaveNewlines
<1>2. TolkLineEnd(h, p) = LineEnd(h, p) /\ LineEnd(h, p) \in p .. Len(h)
  BY <1>1, LineEndAgrees, LineEndOf
<1>3. stop = IF LineEnd(h, p) <= to THEN LineEnd(h, p) ELSE to
  BY <1>1, <1>2, OfTwo DEF StopAt
<1>4. stop \in p .. to /\ stop \in Nat
  BY <1>1, <1>2, <1>3
<1> HIDE DEF stop
<1>5. FindIn(h, Newline, stop, Len(h)) = nl
  BY <1>1, <1>4, FindInIsFind
<1>6. /\ nl = NotFound <=> Newlines(h, stop, Len(h)) = {}
      /\ nl # NotFound => nl \in Newlines(h, stop, Len(h))
  BY <1>1, <1>4, FindNewline
<1> HIDE DEF nl
<1>7. nl # NotFound => nl \in stop .. Len(h) - 1 /\ Byte(h, nl) = "\n"
  BY <1>6 DEF Newlines
<1>8. PastRow(h, p, to) = IF nl = NotFound \/ nl + 1 >= Len(h) THEN Len(h) + 1 ELSE nl + 1
  BY <1>5 DEF PastRow, NextLine, stop
<1>9. PastRow(h, p, to) \in p + 1 .. Len(h) + 1
  BY <1>1, <1>4, <1>7, <1>8
<1>10. Newlines(h, p, to) = {} => PastRow(h, p, to) > to
  <2>1. nl # NotFound /\ nl < to => nl \in Newlines(h, p, to)
    BY <1>1, <1>4, <1>7 DEF Newlines
  <2> QED BY <1>1, <1>4, <1>7, <1>8, <2>1
<1>11. LineEnd(h, p) <= to => stop = LineEnd(h, p) /\ PastRow(h, p, to) = After(h, p)
  BY <1>3, <1>8 DEF After, NextLine, nl
<1> QED BY <1>4, <1>9, <1>10, <1>11 DEF stop

(* A line gives a row or none.                                             *)
LEMMA RowIsOneOrNone ==
  ASSUME NEW h, NEW p \in Nat, NEW to, NEW cols
  PROVE  /\ RowAt(h, p, to, cols) \in Seq(ScannedRows(h, to, cols))
         /\ Len(RowAt(h, p, to, cols)) = 0 \/ Len(RowAt(h, p, to, cols)) = 1
<1> DEFINE fields == Fields(h, p, StopAt(h, p, to), FieldsMax)
           row == ScanRow(h, fields, cols)
<1>1. row \in ScannedRows(h, to, cols)
  BY DEF ScannedRows
<1>2. RowAt(h, p, to, cols) = IF fields = << >> \/ cols = << >> THEN << >> ELSE <<row>>
  BY DEF RowAt, RowOf
<1> HIDE DEF fields, row
<1> QED BY <1>1, <1>2 DEF fields

(* The walk is defined, for every place and every number of rows.          *)
LEMMA ScanWalkExists ==
  ASSUME NEW h, IsText(h), NEW to \in 0 .. Len(h), NEW cols
  PROVE  \E w : ScanWalk(w, h, to, cols)
<1>0. \A k \in Nat : k # 0 => k - 0 \in Nat /\ k - 1 \in Nat
  OBVIOUS
<1> DEFINE S == ScannedRows(h, to, cols)
           V == [Nat -> Seq(S)]
           row(p) == RowAt(h, p, to, cols)
           past(p) == PastRow(h, p, to)
           rank == [p \in Nat |-> IF p > to THEN 0 ELSE to - p + 1]
           over == {p \in Nat : p > to}
           next == [p \in Nat \ over |-> past(p)]
           base == [p \in over |-> [left \in Nat |-> << >>]]
           step == [p \in Nat \ over |-> [v \in V |-> [left \in Nat |->
                      IF left = 0 THEN << >> ELSE row(p) \o v[left - Len(row(p))]]]]
<1>1. Len(h) \in Nat /\ to \in Nat
  BY TextsHaveNewlines
<1>2. \A p \in Nat : row(p) \in Seq(S) /\ (Len(row(p)) = 0 \/ Len(row(p)) = 1)
  BY RowIsOneOrNone
<1>3. \A p \in Nat \ over : past(p) \in Nat /\ past(p) > p
  <2>1. ASSUME NEW p \in Nat \ over PROVE past(p) \in Nat /\ past(p) > p
    <3>1. p \in 0 .. to
      BY <1>1
    <3>2. past(p) \in p + 1 .. Len(h) + 1
      BY <3>1, RowEndsInLine
    <3> HIDE DEF past
    <3> QED BY <1>1, <3>1, <3>2
  <2> QED BY <2>1
<1> HIDE DEF row, past
<1>4. Descends(Nat, rank, over, next)
  <2>1. rank \in [Nat -> Nat]
    BY <1>1
  <2>2. ASSUME NEW p \in Nat \ over PROVE next[p] \in Nat /\ rank[next[p]] < rank[p]
    BY <1>1, <1>3
  <2> QED BY <2>1, <2>2 DEF Descends
<1>5. base \in [over -> V]
  OBVIOUS
<1>6. ASSUME NEW p \in Nat \ over, NEW v \in V
      PROVE  step[p][v] = [left \in Nat |-> IF left = 0 THEN << >> ELSE row(p) \o v[left - Len(row(p))]]
             /\ step[p][v] \in V
  <2> DEFINE f == [left \in Nat |-> IF left = 0 THEN << >> ELSE row(p) \o v[left - Len(row(p))]]
  <2>1. step[p][v] = f
    OBVIOUS
  <2>2. ASSUME NEW left \in Nat
        PROVE  (IF left = 0 THEN << >> ELSE row(p) \o v[left - Len(row(p))]) \in Seq(S)
    <3>1. CASE left = 0
      BY <3>1
    <3>2. CASE left # 0
      <4> HIDE DEF S
      <4>1. row(p) \in Seq(S) /\ (Len(row(p)) = 0 \/ Len(row(p)) = 1)
        BY <1>2
      <4>3. left - Len(row(p)) \in Nat
        BY <1>0, <3>2, <4>1, Zenon
      <4>2. v[left - Len(row(p))] \in Seq(S)
        BY <4>3
      <4> QED BY <3>2, <4>1, <4>2
    <3> QED BY <3>1, <3>2
  <2>3. f \in V
    BY <2>2
  <2> QED BY <2>1, <2>3
<1>7. /\ \A p \in Nat : p \in over <=> p > to
      /\ \A p \in Nat \ over : next[p] = past(p)
      /\ \A p \in over : base[p] = [left \in Nat |-> << >>]
  OBVIOUS
<1> HIDE DEF rank, over, next, base, step, V, S
<1>8. PICK w \in [Nat -> V] : \A p \in Nat : Continues(w, p, over, base, next, step)
  BY <1>4, <1>5, <1>6, RecursionExists
<1> DEFINE line(p) == [left \in Nat |->
             IF p > to \/ left = 0 THEN << >> ELSE row(p) \o w[past(p)][left - Len(row(p))]]
<1>9. ASSUME NEW p \in Nat PROVE w[p] = line(p)
  <2>1. Continues(w, p, over, base, next, step)
    BY <1>8
  <2>2. CASE p > to
    <3>1. p \in over
      BY <1>7, <2>2
    <3>2. w[p] = base[p]
      BY <2>1, <3>1 DEF Continues
    <3>3. w[p] = [left \in Nat |-> << >>]
      BY <1>7, <3>1, <3>2
    <3> QED BY <2>2, <3>3
  <2>3. CASE ~(p > to)
    <3>1. p \in Nat \ over
      BY <1>7, <2>3
    <3>2. next[p] = past(p) /\ w[past(p)] \in V
      BY <1>3, <1>7, <1>8, <3>1
    <3>3. w[p] = step[p][w[past(p)]]
      BY <2>1, <3>1, <3>2 DEF Continues
    <3>4. w[p] = [left \in Nat |-> IF left = 0 THEN << >> ELSE row(p) \o w[past(p)][left - Len(row(p))]]
      BY <1>6, <3>1, <3>2, <3>3
    <3> QED BY <2>3, <3>4
  <2> QED BY <2>2, <2>3
<1> HIDE DEF line
<1>10. w = [p \in Nat |-> line(p)]
  BY <1>8, <1>9
<1> QED BY <1>10 DEF ScanWalk, line, row, past

(* What tolk_scan_columns walks, from any place.                           *)
RowScan(h, to, cols) == CHOOSE w : ScanWalk(w, h, to, cols)

(* It goes line by line, and gives lists of rows.                          *)
LEMMA ScanUnfolds ==
  ASSUME NEW h, IsText(h), NEW to \in 0 .. Len(h), NEW cols
  PROVE  \A p \in Nat, left \in Nat :
           /\ RowScan(h, to, cols)[p][left]
                = IF p > to \/ left = 0 THEN << >>
                  ELSE RowAt(h, p, to, cols)
                         \o RowScan(h, to, cols)[PastRow(h, p, to)][left - Len(RowAt(h, p, to, cols))]
           /\ RowScan(h, to, cols)[p][left] \in Seq(ScannedRows(h, to, cols))
<1> DEFINE w == RowScan(h, to, cols)
           S == ScannedRows(h, to, cols)
           row(p) == RowAt(h, p, to, cols)
           past(p) == PastRow(h, p, to)
           rank == [p \in Nat |-> IF p > to THEN 0 ELSE to - p + 1]
           good == {p \in Nat : \A left \in Nat : w[p][left] \in Seq(S)}
<1>1. Len(h) \in Nat /\ to \in Nat
  BY TextsHaveNewlines
<1>2. ScanWalk(w, h, to, cols)
  BY ScanWalkExists DEF RowScan
<1> HIDE DEF w
<1>3. \A p \in Nat, left \in Nat :
        w[p][left] = IF p > to \/ left = 0 THEN << >> ELSE row(p) \o w[past(p)][left - Len(row(p))]
  <2> HIDE DEF row, past
  <2>1. w = [pos \in Nat |-> [left \in Nat |->
               IF pos > to \/ left = 0 THEN << >> ELSE row(pos) \o w[past(pos)][left - Len(row(pos))]]]
    BY <1>2 DEF ScanWalk, row, past
  <2>2. ASSUME NEW p \in Nat
        PROVE  w[p] = [left \in Nat |->
               IF p > to \/ left = 0 THEN << >> ELSE row(p) \o w[past(p)][left - Len(row(p))]]
    BY <2>1
  <2> QED BY <2>2
<1>4. \A p \in Nat : row(p) \in Seq(S) /\ (Len(row(p)) = 0 \/ Len(row(p)) = 1)
  BY RowIsOneOrNone
<1> HIDE DEF row, S
<1>5. ASSUME NEW p \in Nat, \A r \in Nat : rank[r] < rank[p] => r \in good
      PROVE  p \in good
  <2> SUFFICES ASSUME NEW left \in Nat PROVE w[p][left] \in Seq(S)
    OBVIOUS
  <2>1. CASE p > to \/ left = 0
    <3>1. w[p][left] = << >>
      BY <1>3, <2>1
    <3> QED BY <3>1
  <2>2. CASE ~(p > to \/ left = 0)
    <3>1. p \in 0 .. to
      BY <1>1, <2>2
    <3>2. past(p) \in p + 1 .. Len(h) + 1
      BY <3>1, RowEndsInLine
    <3> HIDE DEF past
    <3>3. past(p) \in Nat /\ rank[past(p)] < rank[p]
      BY <1>1, <3>1, <3>2
    <3>4. left - Len(row(p)) \in Nat
      <4> DEFINE n == Len(row(p))
      <4>1. n = 0 \/ n = 1
        BY <1>4
      <4> HIDE DEF n
      <4>2. left - n \in Nat
        BY <2>2, <4>1
      <4> QED BY <4>2 DEF n
    <3>5. w[past(p)][left - Len(row(p))] \in Seq(S)
      BY <1>5, <3>3, <3>4
    <3>6. w[p][left] = row(p) \o w[past(p)][left - Len(row(p))]
      BY <1>3, <2>2
    <3> QED BY <1>4, <3>5, <3>6
  <2> QED BY <2>1, <2>2
<1>6. rank \in [Nat -> Nat]
  BY <1>1
<1> HIDE DEF rank, good
<1>7. Nat \subseteq good
  BY <1>5, <1>6, RankInduction
<1> QED BY <1>3, <1>7 DEF good, w, S, row

(* tolk_scan_columns starts it in the line of the first byte of the window.*)
LEMMA ScanStarts ==
  ASSUME NEW h, IsText(h), NEW to \in 0 .. Len(h), NEW from \in Nat, NEW cols, NEW max
  PROVE  LET at == IF from < to THEN from ELSE to IN
         /\ TolkScanColumns(h, from, to, cols, max) = RowScan(h, to, cols)[LineStart(h, at)][max]
         /\ at \in 0 .. to /\ LineStart(h, at) \in 0 .. at
<1> DEFINE at == IF from < to THEN from ELSE to
           c == Clamped(h, from, to)
<1>1. Len(h) \in Nat /\ to \in Nat
  BY TextsHaveNewlines
<1>2. c = <<at, to>>
  BY <1>1, WindowsAreKept
<1>3. at \in 0 .. to /\ at \in 0 .. Len(h) /\ at \in 0 .. Len(h) + 1
  BY <1>1
<1>4. TolkLineStart(h, at) = LineStart(h, at) /\ LineStart(h, at) \in 0 .. at
  BY <1>3, LineStartAgrees, LineStartOf
<1>5. TolkScanColumns(h, from, to, cols, max) = RowScan(h, c[2], cols)[TolkLineStart(h, c[1])][max]
  BY DEF TolkScanColumns, RowScan, ScanWalk, StopAt, RowAt, PastRow
<1> QED BY <1>2, <1>3, <1>4, <1>5

-----------------------------------------------------------------------------
(* Where a batch is resumed: behind so many lines that are not empty.      *)
NextNewline(h, at) == FindIn(h, Newline, TolkLineEnd(h, at), Len(h))
ResumeWalk(w, h) ==
  w = [at \in Nat |-> [left \in Nat |->
         IF left = 0 THEN at
         ELSE IF NextNewline(h, at) = NotFound THEN Len(h)
         ELSE w[NextNewline(h, at) + 1][IF TolkLineEnd(h, at) > at THEN left - 1 ELSE left]]]

(* The next newline is not behind, and there is none behind the text.      *)
LEMMA NewlineAhead ==
  ASSUME NEW h, IsText(h), NEW at \in Nat
  PROVE  NextNewline(h, at) # NotFound =>
           at <= Len(h) /\ NextNewline(h, at) \in at .. Len(h) - 1
<1>1. Len(h) \in Nat /\ Len(h) \in 0 .. Len(h) /\ Searchable(h, Newline)
  BY TextsHaveNewlines
<1>2. CASE at <= Len(h)
  <2>1. at \in 0 .. Len(h) /\ at \in 0 .. Len(h) + 1
    BY <1>1, <1>2
  <2>2. TolkLineEnd(h, at) = LineEnd(h, at) /\ LineEnd(h, at) \in at .. Len(h)
    BY <2>1, LineEndAgrees, LineEndOf
  <2> DEFINE stop == LineEnd(h, at)
             nl == Find(h, Newline, stop, Len(h))
  <2>3. stop \in Nat /\ stop >= at
    BY <2>1, <2>2
  <2> HIDE DEF stop
  <2>4. NextNewline(h, at) = nl
    BY <1>1, <2>2, <2>3, FindInIsFind DEF NextNewline, stop
  <2>5. nl # NotFound => nl \in Newlines(h, stop, Len(h))
    BY <1>1, <2>3, FindNewline
  <2> HIDE DEF nl
  <2>6. nl # NotFound => nl \in at .. Len(h) - 1
    BY <1>1, <2>3, <2>5 DEF Newlines
  <2> QED BY <1>2, <2>4, <2>6
<1>3. CASE ~(at <= Len(h))
  <2>1. Max({at, 0}) = at
    BY <1>1 DEF Max
  <2>2. FindIn(h, Newline, at, Len(h)) = NotFound
    <3>1. FindIn(h, Newline, at, Len(h)) = Find(h, Newline, at, Len(h))
      BY <1>1, FindInIsFind
    <3>2. Newlines(h, at, Len(h)) = {}
      BY <1>1, <1>3 DEF Newlines
    <3> QED BY <1>1, <3>1, <3>2, FindNewline
  <2>3. TolkLineEnd(h, at) = Len(h)
    <3>1. ~(Len(h) > at)
      BY <1>1, <1>3
    <3> QED BY <2>1, <2>2, <3>1 DEF TolkLineEnd, OrEnd, DropReturn
  <2>4. FindIn(h, Newline, Len(h), Len(h)) = NotFound
    <3>1. FindIn(h, Newline, Len(h), Len(h)) = Find(h, Newline, Len(h), Len(h))
      BY <1>1, FindInIsFind
    <3>2. Newlines(h, Len(h), Len(h)) = {}
      BY <1>1 DEF Newlines
    <3> QED BY <1>1, <3>1, <3>2, FindNewline
  <2> QED BY <2>3, <2>4 DEF NextNewline
<1> QED BY <1>2, <1>3

(* The walk of _resume is defined.                                         *)
LEMMA ResumeWalkExists ==
  ASSUME NEW h, IsText(h)
  PROVE  \E w : ResumeWalk(w, h)
<1> DEFINE V == [Nat -> Nat]
           nl(at) == NextNewline(h, at)
           fewer(at, left) == IF TolkLineEnd(h, at) > at THEN left - 1 ELSE left
           rank == [p \in Nat |-> IF p > Len(h) THEN 0 ELSE Len(h) - p + 1]
           over == {p \in Nat : nl(p) = NotFound}
           next == [p \in Nat \ over |-> nl(p) + 1]
           base == [p \in over |-> [left \in Nat |-> IF left = 0 THEN p ELSE Len(h)]]
           step == [p \in Nat \ over |-> [v \in V |-> [left \in Nat |->
                      IF left = 0 THEN p ELSE v[fewer(p, left)]]]]
<1>1. Len(h) \in Nat
  BY TextsHaveNewlines
<1>2. ASSUME NEW p \in Nat, nl(p) # NotFound
      PROVE  nl(p) + 1 \in Nat /\ nl(p) + 1 > p /\ p <= Len(h)
  <2>1. p <= Len(h) /\ nl(p) \in p .. Len(h) - 1
    BY <1>2, NewlineAhead
  <2> HIDE DEF nl
  <2> QED BY <1>1, <2>1
<1> HIDE DEF nl
<1>3. \A p \in Nat, left \in Nat \ {0} : fewer(p, left) \in Nat
  OBVIOUS
<1> HIDE DEF fewer
<1>4. Descends(Nat, rank, over, next)
  <2>1. rank \in [Nat -> Nat]
    BY <1>1
  <2>2. ASSUME NEW p \in Nat \ over PROVE next[p] \in Nat /\ rank[next[p]] < rank[p]
    <3>1. nl(p) + 1 \in Nat /\ nl(p) + 1 > p /\ p <= Len(h)
      BY <1>2
    <3> QED BY <1>1, <3>1
  <2> QED BY <2>1, <2>2 DEF Descends
<1>5. base \in [over -> V]
  BY <1>1
<1>6. ASSUME NEW p \in Nat \ over, NEW v \in V
      PROVE  step[p][v] = [left \in Nat |-> IF left = 0 THEN p ELSE v[fewer(p, left)]]
             /\ step[p][v] \in V
  BY <1>3
<1>7. /\ \A p \in Nat : p \in over <=> nl(p) = NotFound
      /\ \A p \in Nat \ over : next[p] = nl(p) + 1
      /\ \A p \in over : base[p] = [left \in Nat |-> IF left = 0 THEN p ELSE Len(h)]
  OBVIOUS
<1> HIDE DEF rank, over, next, base, step, V
<1>8. PICK w \in [Nat -> V] : \A p \in Nat : Continues(w, p, over, base, next, step)
  BY <1>4, <1>5, <1>6, RecursionExists
<1> DEFINE line(p) == [left \in Nat |->
             IF left = 0 THEN p ELSE IF nl(p) = NotFound THEN Len(h) ELSE w[nl(p) + 1][fewer(p, left)]]
<1>9. ASSUME NEW p \in Nat PROVE w[p] = line(p)
  <2>1. Continues(w, p, over, base, next, step)
    BY <1>8
  <2>2. CASE nl(p) = NotFound
    <3>1. p \in over
      BY <1>7, <2>2
    <3>2. w[p] = [left \in Nat |-> IF left = 0 THEN p ELSE Len(h)]
      BY <1>7, <2>1, <3>1 DEF Continues
    <3> QED BY <2>2, <3>2
  <2>3. CASE nl(p) # NotFound
    <3>1. p \in Nat \ over
      BY <1>7, <2>3
    <3>2. next[p] = nl(p) + 1 /\ w[nl(p) + 1] \in V
      BY <1>2, <1>7, <1>8, <2>3, <3>1
    <3>3. w[p] = step[p][w[nl(p) + 1]]
      BY <2>1, <3>1, <3>2 DEF Continues
    <3>4. w[p] = [left \in Nat |-> IF left = 0 THEN p ELSE w[nl(p) + 1][fewer(p, left)]]
      BY <1>6, <3>1, <3>2, <3>3
    <3> QED BY <2>3, <3>4
  <2> QED BY <2>2, <2>3
<1> HIDE DEF line
<1>10. w = [p \in Nat |-> line(p)]
  BY <1>8, <1>9
<1> QED BY <1>10 DEF ResumeWalk, line, nl, fewer

(* What is resumed goes on in the text.                                    *)
LEMMA ResumeGoesOn ==
  ASSUME NEW h, IsText(h), NEW p \in Nat, p < Len(h), NEW rows \in Nat \ {0}
  PROVE  ResumeAt(h, p, rows) \in p + 1 .. Len(h)
<1> DEFINE w == CHOOSE v : ResumeWalk(v, h)
           nl(at) == NextNewline(h, at)
           fewer(at, left) == IF TolkLineEnd(h, at) > at THEN left - 1 ELSE left
           D == 0 .. Len(h)
           rank == [at \in D |-> Len(h) - at]
           good == {at \in D : \A left \in Nat : w[at][left] \in at .. Len(h)}
<1>1. Len(h) \in Nat
  BY TextsHaveNewlines
<1>2. ResumeWalk(w, h)
  BY ResumeWalkExists
<1>3. ResumeAt(h, p, rows) = w[p][rows]
  BY DEF ResumeAt, ResumeWalk, NextNewline
<1> HIDE DEF w
<1>4. \A at \in Nat, left \in Nat :
        w[at][left] = IF left = 0 THEN at ELSE IF nl(at) = NotFound THEN Len(h)
                      ELSE w[nl(at) + 1][fewer(at, left)]
  <2> HIDE DEF nl, fewer
  <2>1. w = [at \in Nat |-> [left \in Nat |->
               IF left = 0 THEN at ELSE IF nl(at) = NotFound THEN Len(h)
               ELSE w[nl(at) + 1][fewer(at, left)]]]
    BY <1>2 DEF ResumeWalk, nl, fewer
  <2>2. ASSUME NEW at \in Nat
        PROVE  w[at] = [left \in Nat |->
               IF left = 0 THEN at ELSE IF nl(at) = NotFound THEN Len(h)
               ELSE w[nl(at) + 1][fewer(at, left)]]
    BY <2>1
  <2>3. ASSUME NEW at \in Nat, NEW left \in Nat
        PROVE  w[at][left] = IF left = 0 THEN at ELSE IF nl(at) = NotFound THEN Len(h)
                             ELSE w[nl(at) + 1][fewer(at, left)]
    BY <2>2
  <2> QED BY <2>3
<1>5. \A at \in Nat : nl(at) # NotFound => nl(at) \in at .. Len(h) - 1
  BY NewlineAhead
<1>6. \A at \in Nat, left \in Nat \ {0} : fewer(at, left) \in Nat
  OBVIOUS
<1> HIDE DEF nl, fewer
<1>7. ASSUME NEW at \in D, \A r \in D : rank[r] < rank[at] => r \in good
      PROVE  at \in good
  <2> SUFFICES ASSUME NEW left \in Nat PROVE w[at][left] \in at .. Len(h)
    OBVIOUS
  <2>1. at \in Nat /\ at <= Len(h)
    BY <1>1
  <2>2. CASE left = 0 \/ nl(at) = NotFound
    BY <1>1, <1>4, <2>1, <2>2
  <2>3. CASE ~(left = 0 \/ nl(at) = NotFound)
    <3>1. nl(at) + 1 \in D /\ rank[nl(at) + 1] < rank[at] /\ nl(at) + 1 >= at
      BY <1>1, <1>5, <2>1, <2>3
    <3>2. fewer(at, left) \in Nat
      BY <1>6, <2>3
    <3>3. w[nl(at) + 1][fewer(at, left)] \in nl(at) + 1 .. Len(h)
      BY <1>7, <3>1, <3>2
    <3>4. w[at][left] = w[nl(at) + 1][fewer(at, left)]
      BY <1>4, <2>1, <2>3
    <3> QED BY <1>1, <2>1, <3>1, <3>3, <3>4
  <2> QED BY <2>2, <2>3
<1>8. rank \in [D -> Nat]
  BY <1>1
<1> HIDE DEF rank, good, D
<1>9. D \subseteq good
  BY <1>7, <1>8, RankInduction
<1> USE DEF D
<1>10. CASE nl(p) = NotFound
  <2>1. w[p][rows] = Len(h)
    BY <1>4, <1>10
  <2> QED BY <1>1, <1>3, <2>1
<1>11. CASE nl(p) # NotFound
  <2>1. nl(p) \in p .. Len(h) - 1 /\ nl(p) + 1 \in D
    BY <1>1, <1>5, <1>11
  <2>2. w[p][rows] = w[nl(p) + 1][fewer(p, rows)] /\ fewer(p, rows) \in Nat
    BY <1>4, <1>6, <1>11
  <2>3. w[nl(p) + 1][fewer(p, rows)] \in nl(p) + 1 .. Len(h)
    BY <1>9, <2>1, <2>2 DEF good
  <2> QED BY <1>1, <1>3, <2>1, <2>2, <2>3
<1> QED BY <1>10, <1>11

-----------------------------------------------------------------------------
(* A batch that is full started inside the text: behind it there is one    *)
(* line to scan, and a batch has more than one.                            *)
LEMMA FullBatchIsInside ==
  ASSUME NEW h, IsText(h), NEW to \in 0 .. Len(h), NEW cols, NEW p \in Nat,
         ~(Len(TolkScanColumns(h, p, to, cols, RowBatch)) < RowBatch)
  PROVE  p < Len(h)
<1> SUFFICES ASSUME ~(p < Len(h)) PROVE FALSE
  OBVIOUS
<1> DEFINE s == LineStart(h, to)
           w == RowScan(h, to, cols)
           S == ScannedRows(h, to, cols)
           row == RowAt(h, s, to, cols)
           past == PastRow(h, s, to)
<1>1. Len(h) \in Nat /\ to \in Nat /\ to \in 0 .. Len(h) /\ RowBatch \in Nat /\ RowBatch >= 2
  BY TextsHaveNewlines, CEngineAssumption
<1>2. ~(p < to)
  BY <1>1
<1>3. TolkScanColumns(h, p, to, cols, RowBatch) = w[s][RowBatch]
  BY <1>2, ScanStarts
<1>4. s \in 0 .. to /\ Newlines(h, s, to) = {}
  BY <1>1, LineStartOf
<1> HIDE DEF s
<1>5. past \in s + 1 .. Len(h) + 1 /\ past > to
  BY <1>1, <1>4, RowEndsInLine
<1>6. row \in Seq(S) /\ (Len(row) = 0 \/ Len(row) = 1)
  BY <1>1, <1>4, RowIsOneOrNone
<1> HIDE DEF past
<1>7. s \in Nat /\ past \in Nat /\ ~(s > to \/ RowBatch = 0)
  BY <1>1, <1>4, <1>5
<1>8. w[s][RowBatch] = row \o w[past][RowBatch - Len(row)]
  BY <1>1, <1>7, ScanUnfolds DEF past
<1> HIDE DEF w, row, S
<1>9. RowBatch - Len(row) \in Nat
  <2> DEFINE n == Len(row)
  <2>1. n = 0 \/ n = 1
    BY <1>6
  <2> HIDE DEF n
  <2>2. RowBatch - n \in Nat
    BY <1>1, <2>1
  <2> QED BY <2>2 DEF n
<1>10. w[past][RowBatch - Len(row)] = << >>
  <2>1. \A left \in Nat : RowScan(h, to, cols)[past][left]
          = IF past > to \/ left = 0 THEN << >>
            ELSE RowAt(h, past, to, cols)
                   \o RowScan(h, to, cols)[PastRow(h, past, to)][left - Len(RowAt(h, past, to, cols))]
    BY <1>1, <1>7, ScanUnfolds
  <2>2. past > to
    BY <1>5
  <2>3. \A left \in Nat : w[past][left] = << >>
    BY <2>1, <2>2 DEF w
  <2> QED BY <1>9, <2>3
<1>11. Len(w[s][RowBatch]) <= 1
  <2>1. row \o << >> = row
    BY <1>6
  <2>2. w[s][RowBatch] = row
    BY <1>8, <1>10, <2>1
  <2>3. Len(row) <= 1
    <3> DEFINE n == Len(row)
    <3>1. n = 0 \/ n = 1
      BY <1>6
    <3> HIDE DEF n
    <3>2. n <= 1
      BY <3>1
    <3> QED BY <3>2 DEF n
  <2> QED BY <2>2, <2>3
<1> QED BY <1>1, <1>3, <1>11

(* The walk over the batches.                                              *)
RowsWalk(w, h, to, cols) ==
  w = [pos \in Nat |->
         Batched(TolkScanColumns(h, pos, to, cols, RowBatch), w[ResumeAt(h, pos, RowBatch)])]

(* It is defined, so that what fits into one batch is what C gives for it  *)
(* (_cengine.scan_columns).                                                *)
LEMMA OneBatch ==
  ASSUME NEW h, IsText(h), NEW to \in 0 .. Len(h), NEW cols, NEW from \in Nat,
         Len(TolkScanColumns(h, from, to, cols, RowBatch)) < RowBatch
  PROVE  ScanColumns(h, from, to, cols) = TolkScanColumns(h, from, to, cols, RowBatch)
<1> DEFINE V == Seq(ScannedRows(h, to, cols))
           out(p) == TolkScanColumns(h, p, to, cols, RowBatch)
           resume(p) == ResumeAt(h, p, RowBatch)
           rank == [p \in Nat |-> IF p > Len(h) THEN 0 ELSE Len(h) - p]
           over == {p \in Nat : Len(out(p)) < RowBatch}
           next == [p \in Nat \ over |-> resume(p)]
           base == [p \in over |-> out(p)]
           step == [p \in Nat \ over |-> [v \in V |-> out(p) \o v]]
           walk == CHOOSE w : RowsWalk(w, h, to, cols)
<1>1. Len(h) \in Nat /\ to \in Nat /\ RowBatch \in Nat /\ RowBatch \in Nat \ {0}
  BY TextsHaveNewlines, CEngineAssumption
<1>2. \A p \in Nat : out(p) \in V
  <2>1. ASSUME NEW p \in Nat PROVE out(p) \in V
    <3> DEFINE at == IF p < to THEN p ELSE to
               s == LineStart(h, at)
    <3>1. out(p) = RowScan(h, to, cols)[s][RowBatch] /\ at \in 0 .. to /\ s \in 0 .. at
      BY ScanStarts
    <3> HIDE DEF at, s
    <3>2. s \in Nat
      BY <1>1, <3>1
    <3>3. RowScan(h, to, cols)[s][RowBatch] \in V
      BY <1>1, <3>2, ScanUnfolds
    <3> QED BY <3>1, <3>3
  <2> QED BY <2>1
<1>3. ASSUME NEW p \in Nat, ~(Len(out(p)) < RowBatch)
      PROVE  p < Len(h) /\ resume(p) \in p + 1 .. Len(h)
  <2>1. p < Len(h)
    BY <1>3, FullBatchIsInside
  <2> QED BY <1>1, <2>1, ResumeGoesOn
<1> HIDE DEF out, resume
<1>4. Descends(Nat, rank, over, next)
  <2>1. rank \in [Nat -> Nat]
    BY <1>1
  <2>2. ASSUME NEW p \in Nat \ over PROVE next[p] \in Nat /\ rank[next[p]] < rank[p]
    <3>1. p < Len(h) /\ resume(p) \in p + 1 .. Len(h)
      BY <1>3
    <3> QED BY <1>1, <3>1
  <2> QED BY <2>1, <2>2 DEF Descends
<1>5. base \in [over -> V] /\ \A p \in over : base[p] = out(p)
  BY <1>2
<1>6. \A p \in Nat \ over, v \in V : step[p][v] = out(p) \o v /\ step[p][v] \in V
  <2>1. ASSUME NEW p \in Nat \ over, NEW v \in V PROVE out(p) \o v \in V
    BY <1>2
  <2> HIDE DEF V, over
  <2>2. \A p \in Nat \ over, v \in V : step[p][v] = out(p) \o v
    OBVIOUS
  <2> QED BY <2>1, <2>2
<1>7. /\ \A p \in Nat : p \in over <=> Len(out(p)) < RowBatch
      /\ \A p \in Nat \ over : next[p] = resume(p)
  OBVIOUS
<1> HIDE DEF rank, over, next, base, step, V
<1>8. PICK w \in [Nat -> V] : \A p \in Nat : Continues(w, p, over, base, next, step)
  BY <1>4, <1>5, <1>6, RecursionExists
<1> DEFINE rows(p) == Batched(out(p), w[resume(p)])
<1>9. ASSUME NEW p \in Nat PROVE w[p] = rows(p)
  <2>1. Continues(w, p, over, base, next, step)
    BY <1>8
  <2>2. CASE Len(out(p)) < RowBatch
    BY <1>5, <1>7, <2>1, <2>2 DEF Continues, Batched
  <2>3. CASE ~(Len(out(p)) < RowBatch)
    <3>1. p \in Nat \ over
      BY <1>7, <2>3
    <3>2. next[p] = resume(p) /\ next[p] \in Nat
      BY <1>4, <1>7, <3>1 DEF Descends
    <3>3. w[resume(p)] \in V
      BY <1>8, <3>2
    <3>4. w[p] = step[p][w[resume(p)]]
      BY <2>1, <3>1, <3>2 DEF Continues
    <3> QED BY <1>6, <2>3, <3>1, <3>3, <3>4 DEF Batched
  <2> QED BY <2>2, <2>3
<1> HIDE DEF rows
<1>10. w = [p \in Nat |-> rows(p)]
  BY <1>8, <1>9
<1>11. RowsWalk(walk, h, to, cols)
  <2>1. RowsWalk(w, h, to, cols)
    BY <1>10 DEF RowsWalk, rows, out, resume
  <2> QED BY <2>1
<1>12. ScanColumns(h, from, to, cols) = walk[from]
  BY DEF ScanColumns, RowsWalk
<1> HIDE DEF walk
<1>13. walk[from] = Batched(out(from), walk[resume(from)])
  BY <1>11 DEF RowsWalk, out, resume
<1> QED BY <1>12, <1>13 DEF Batched, out

-----------------------------------------------------------------------------
(* In a window that ends where a line does, no line ends behind it.        *)
LEMMA LinesEndInWindow ==
  ASSUME NEW h, IsText(h), NEW s \in 0 .. Len(h), StartsLine(h, s),
         NEW p \in 0 .. LineEnd(h, s), StartsLine(h, p)
  PROVE  LineEnd(h, p) <= LineEnd(h, s)
<1> DEFINE to == LineEnd(h, s)
           over == EndsAt(h, s)
           stop == LineEnd(h, p)
           past == EndsAt(h, p)
<1>1. Len(h) \in Nat /\ s \in Nat
  BY TextsHaveNewlines
<1>2. /\ over \in s .. Len(h) /\ Newlines(h, s, over) = {}
      /\ to \in s .. Len(h) /\ (to = over \/ to = over - 1)
  BY LineEndOf
<1>3. p \in 0 .. Len(h) /\ p \in Nat
  BY <1>1, <1>2
<1>4. /\ past \in p .. Len(h) /\ Newlines(h, p, past) = {}
      /\ stop \in p .. Len(h) /\ (stop = past \/ stop = past - 1)
  BY <1>3, LineEndOf
<1>5. p \in 0 .. to
  OBVIOUS
<1> HIDE DEF to, over, stop, past
<1>6. ~(s < p)
  <2>1. s < p => p - 1 \in Newlines(h, s, over)
    BY <1>1, <1>2, <1>3, <1>5 DEF StartsLine, Newlines
  <2> QED BY <1>2, <2>1
<1>7. CASE p = s
  BY <1>1, <1>2, <1>7 DEF to, stop
<1>8. CASE p < s
  <2>1. ~(past >= s)
    <3>1. past >= s => s - 1 \in Newlines(h, p, past)
      BY <1>1, <1>3, <1>4, <1>8 DEF StartsLine, Newlines
    <3> QED BY <1>4, <3>1
  <2>2. stop <= to
    BY <1>1, <1>2, <1>3, <1>4, <2>1
  <2> QED BY <2>2 DEF stop, to
<1> QED BY <1>1, <1>3, <1>6, <1>7, <1>8

(* A list put in front is flattened to the front.                          *)
LEMMA FlattenPrepends ==
  ASSUME NEW S, NEW lists \in Seq(Seq(S)), NEW x \in Seq(S)
  PROVE  FlattenSeq(<<x>> \o lists) = x \o FlattenSeq(lists)
<1> DEFINE more == <<x>> \o lists
           n == Len(lists)
<1>1. n \in Nat
  OBVIOUS
<1>2. more \in Seq(Seq(S)) /\ Len(more) = n + 1
  OBVIOUS
<1>3. more[1] = x /\ \A k \in 1 .. n : more[k + 1] = lists[k]
  OBVIOUS
<1> HIDE DEF more
<1>4. PICK v \in [0 .. Len(lists) -> Seq(S)] : JoinsUp(v, lists) /\ FlattenSeq(lists) = v[Len(lists)]
  BY FlattenJoinsUp
<1>5. PICK w \in [0 .. Len(more) -> Seq(S)] : JoinsUp(w, more) /\ FlattenSeq(more) = w[Len(more)]
  BY <1>2, FlattenJoinsUp
<1> HIDE DEF n
<1>6. v \in [0 .. n -> Seq(S)] /\ v[0] = << >> /\ \A k \in 1 .. n : v[k] = v[k - 1] \o lists[k]
  BY <1>4 DEF JoinsUp, n
<1>7. w[0] = << >> /\ \A k \in 1 .. n + 1 : w[k] = w[k - 1] \o more[k]
  BY <1>2, <1>5 DEF JoinsUp
<1> DEFINE front == [k \in 0 .. n |-> x \o v[k]]
           back == [k \in 0 .. n |-> w[k + 1]]
<1>8. front[0] = back[0]
  <2>1. 0 \in 0 .. n /\ 1 \in 1 .. n + 1 /\ 1 - 1 = 0
    BY <1>1
  <2>2. w[1] = w[0] \o x
    BY <1>3, <1>7, <2>1
  <2>3. w[1] = x /\ x \o v[0] = x
    BY <1>6, <1>7, <2>2
  <2> QED BY <2>1, <2>3
<1>9. \A k \in 1 .. n : front[k - 1] = back[k - 1] => front[k] = back[k]
  <2> SUFFICES ASSUME NEW k \in 1 .. n, front[k - 1] = back[k - 1] PROVE front[k] = back[k]
    OBVIOUS
  <2>1. /\ k \in 0 .. n /\ k - 1 \in 0 .. n /\ k + 1 \in 1 .. n + 1 /\ (k + 1) - 1 = k /\ (k - 1) + 1 = k
        /\ k \in 1 .. Len(lists)
    BY <1>1 DEF n
  <2>2. x \o v[k - 1] = w[k]
    BY <2>1
  <2>3. w[k + 1] = w[k] \o lists[k] /\ v[k] = v[k - 1] \o lists[k]
    BY <1>3, <1>6, <1>7, <2>1
  <2> DEFINE a == v[k - 1]
             b == lists[k]
  <2>4. a \in Seq(S)
    BY <1>6, <2>1
  <2>5. b \in Seq(S)
    BY <2>1
  <2> HIDE DEF a, b
  <2>7. (x \o a) \o b = x \o (a \o b)
    BY <2>4, <2>5
  <2>6. w[k + 1] = x \o v[k]
    BY <2>2, <2>3, <2>7 DEF a, b
  <2> QED BY <2>1, <2>6
<1>10. x \o v[n] = w[n + 1]
  <2>1. n \in 0 .. n
    BY <1>1
  <2> HIDE DEF front, back
  <2>2. front[n] = back[n]
    BY <1>1, <1>8, <1>9, SameJoins
  <2> QED BY <2>1, <2>2 DEF front, back
<1> QED BY <1>2, <1>4, <1>5, <1>10 DEF more, n

(* The columns of a rule, in whatever order, are all of them.              *)
LEMMA NamesAreAll ==
  ASSUME NEW S, IsFiniteSet(S)
  PROVE  LET names == SetToSeq(S) IN
         \E n \in Nat :
           /\ DOMAIN names = 1 .. n /\ (n = 0 <=> S = {})
           /\ \A k \in 1 .. n : names[k] \in S
           /\ \A c \in S : \E k \in 1 .. n : names[k] = c
<1> DEFINE names == SetToSeq(S)
           n == Cardinality(S)
           D == 1 .. n
<1>1. n \in Nat /\ ExistsBijection(D, S) /\ (n = 0 <=> S = {})
  BY FS_CardinalityType, FS_EmptySet
<1>2. Cardinality(D) = n /\ IsFiniteSet(D)
  BY <1>1, FS_Interval
<1>3. \E f \in [D -> S] : IsInjective(f)
  BY <1>1 DEF ExistsBijection, Bijection, Injection, IsInjective
<1>4. names = CHOOSE f \in [D -> S] : IsInjective(f)
  BY DEF SetToSeq
<1> HIDE DEF names, n, D
<1>5. names \in [D -> S] /\ IsInjective(names)
  BY <1>3, <1>4
<1>6. names \in Surjection(D, S)
  <2>1. names \in Injection(D, S)
    BY <1>5 DEF Injection
  <2> QED BY <1>2, <2>1, FS_Injection DEF n
<1>7. \A c \in S : \E k \in D : names[k] = c
  BY <1>6 DEF Surjection
<1>8. DOMAIN names = D /\ \A k \in D : names[k] \in S
  BY <1>5
<1> QED BY <1>1, <1>7, <1>8 DEF names, D

(* What C and Python see of the fields of a line is the same as far as C   *)
(* looks.                                                                  *)
LEMMA FieldsShared ==
  ASSUME NEW h, NEW from \in Int, NEW to \in Int, NEW limit \in Nat, NEW bound \in Nat,
         from <= to, to - from <= bound
  PROVE  LET some == Fields(h, from, to, limit)
             all == Fields(h, from, to, bound)
         IN  /\ Len(all) \in Nat /\ DOMAIN all = 1 .. Len(all)
             /\ Len(some) = IF limit <= Len(all) THEN limit ELSE Len(all)
             /\ DOMAIN some = 1 .. Len(some)
             /\ \A k \in DOMAIN some : some[k] = all[k]
             /\ Len(some) = 0 => some = << >>
<1> DEFINE starts == FieldStarts(h, from, to)
           count == Cardinality(starts)
           field(k) == <<FieldAt(starts, k), FieldEnd(h, FieldAt(starts, k), to)>>
           some == Fields(h, from, to, limit)
           all == Fields(h, from, to, bound)
<1>1. count \in Nat /\ count <= to - from
  BY FieldsAreFew
<1>2. /\ some = [k \in 1 .. Min({limit, count}) |-> field(k)]
      /\ all = [k \in 1 .. Min({bound, count}) |-> field(k)]
  BY DEF Fields, FieldAt
<1> HIDE DEF count, field, some, all
<1>3. Min({bound, count}) = count /\ Min({limit, count}) = IF limit <= count THEN limit ELSE count
  BY <1>1, OfTwo
<1>4. all = [k \in 1 .. count |-> field(k)] /\ Len(all) = count /\ DOMAIN all = 1 .. count
  BY <1>1, <1>2, <1>3
<1> DEFINE m == Min({limit, count})
<1>5. m \in Nat /\ m <= count
  BY <1>1, <1>3
<1> HIDE DEF m
<1>6. some = [k \in 1 .. m |-> field(k)] /\ Len(some) = m /\ DOMAIN some = 1 .. m
  BY <1>2, <1>5 DEF m
<1>7. \A k \in 1 .. m : some[k] = all[k]
  BY <1>1, <1>4, <1>5, <1>6
<1>8. m = 0 => some = << >>
  BY <1>6
<1> QED BY <1>1, <1>3, <1>4, <1>6, <1>7, <1>8 DEF some, all, m

-----------------------------------------------------------------------------
(* A row of C with the names of its columns, if it has a number; and what  *)
(* becomes of rows in turn.                                                *)
KeptRow(r, rule) ==
  IF Legible(NamedRow(r, rule)) THEN <<NamedRow(r, rule)>> ELSE << >>
KeptRows(rows, rule) == [i \in DOMAIN rows |-> KeptRow(rows[i], rule)]
Read(rows, rule) == LegibleOf(Named(rows, rule))

(* A row is kept or not.                                                   *)
LEMMA KeptIsList ==
  ASSUME NEW S, NEW r \in S, NEW rule
  PROVE  KeptRow(r, rule) \in Seq({NamedRow(s, rule) : s \in S})
<1> DEFINE T == {NamedRow(s, rule) : s \in S}
           x == NamedRow(r, rule)
<1>1. x \in T
  OBVIOUS
<1> HIDE DEF x, T
<1>2. <<x>> \in Seq(T) /\ << >> \in Seq(T)
  BY <1>1
<1> QED BY <1>2 DEF KeptRow, x, T

(* Rows are read one by one.                                               *)
LEMMA ReadIsRowByRow ==
  ASSUME NEW S, NEW rows \in Seq(S), NEW rule
  PROVE  /\ Read(rows, rule) = FlattenSeq(KeptRows(rows, rule))
         /\ KeptRows(rows, rule) \in Seq(Seq({NamedRow(r, rule) : r \in S}))
<1> DEFINE T == {NamedRow(r, rule) : r \in S}
           kept(r) == KeptRow(r, rule)
           named == Named(rows, rule)
<1>1. Len(rows) \in Nat /\ DOMAIN rows = 1 .. Len(rows)
  OBVIOUS
<1>2. named = [i \in DOMAIN rows |-> NamedRow(rows[i], rule)]
  BY DEF Named
<1>3. LegibleOf(named)
        = FlattenSeq([i \in DOMAIN named |-> IF Legible(named[i]) THEN <<named[i]>> ELSE << >>])
  BY DEF LegibleOf
<1> HIDE DEF named
<1>4. [i \in DOMAIN named |-> IF Legible(named[i]) THEN <<named[i]>> ELSE << >>]
        = KeptRows(rows, rule)
  <2>1. DOMAIN named = DOMAIN rows /\ \A i \in DOMAIN rows : named[i] = NamedRow(rows[i], rule)
    BY <1>2
  <2> QED BY <2>1 DEF KeptRows, KeptRow
<1>5. \A r \in S : kept(r) \in Seq(T)
  BY KeptIsList
<1>6. KeptRows(rows, rule) = [i \in 1 .. Len(rows) |-> kept(rows[i])]
  BY <1>1 DEF KeptRows
<1> HIDE DEF kept, T
<1>7. \A i \in 1 .. Len(rows) : kept(rows[i]) \in Seq(T)
  BY <1>5
<1>8. KeptRows(rows, rule) \in Seq(Seq(T))
  BY <1>1, <1>6, <1>7
<1> QED BY <1>3, <1>4, <1>8 DEF Read, named, T

(* A row in front is read in front.                                        *)
LEMMA ReadPrepends ==
  ASSUME NEW S, NEW rows \in Seq(S), NEW more \in Seq(S), NEW rule,
         Len(more) = Len(rows) + 1, \A i \in 1 .. Len(rows) : more[i + 1] = rows[i]
  PROVE  Read(more, rule) = KeptRow(more[1], rule) \o Read(rows, rule)
<1> DEFINE T == {NamedRow(s, rule) : s \in S}
           kept == KeptRows(rows, rule)
           r == more[1]
           one == KeptRow(r, rule)
           n == Len(rows)
<1>1. kept \in Seq(Seq(T)) /\ Read(rows, rule) = FlattenSeq(kept)
  BY ReadIsRowByRow
<1>2. Len(more) = n + 1 /\ r \in S /\ n \in Nat /\ \A i \in 1 .. n : more[i + 1] = rows[i]
  OBVIOUS
<1>3. DOMAIN kept = 1 .. n /\ \A i \in 1 .. n : kept[i] = KeptRow(rows[i], rule)
  BY DEF KeptRows
<1>4. Len(kept) = n
  <2> HIDE DEF kept
  <2> QED BY <1>1, <1>2, <1>3
<1>5. one \in Seq(T)
  BY <1>2, KeptIsList
<1> HIDE DEF kept, one, T
<1>6. Read(more, rule) = FlattenSeq(KeptRows(more, rule))
  BY <1>2, ReadIsRowByRow
<1>7. KeptRows(more, rule) = <<one>> \o kept
  <2> DEFINE both == <<one>> \o kept
             item(i) == KeptRow(more[i], rule)
  <2>1. both \in Seq(Seq(T)) /\ Len(both) = n + 1 /\ both[1] = one
        /\ \A i \in 1 .. n : both[i + 1] = kept[i]
    BY <1>1, <1>4, <1>5
  <2>2. KeptRows(more, rule) = [i \in 1 .. n + 1 |-> item(i)]
    BY <1>2 DEF KeptRows
  <2>3. item(1) = one /\ \A i \in 1 .. n : item(i + 1) = kept[i]
    BY <1>2, <1>3 DEF one
  <2> HIDE DEF both, item
  <2>4. \A i \in 1 .. n + 1 : both[i] = item(i)
    <3> SUFFICES ASSUME NEW i \in 1 .. n + 1 PROVE both[i] = item(i)
      OBVIOUS
    <3>1. CASE i = 1
      BY <2>1, <2>3, <3>1
    <3>2. CASE i # 1
      <4>1. i - 1 \in 1 .. n /\ (i - 1) + 1 = i
        BY <1>2, <3>2
      <4> QED BY <2>1, <2>3, <4>1
    <3> QED BY <3>1, <3>2
  <2>5. both = [i \in 1 .. n + 1 |-> both[i]]
    BY <1>2, <2>1
  <2>6. both = [i \in 1 .. n + 1 |-> item(i)]
    BY <2>4, <2>5
  <2> QED BY <2>2, <2>6 DEF both
<1>8. Read(more, rule) = one \o Read(rows, rule)
  BY <1>1, <1>5, <1>6, <1>7, FlattenPrepends
<1> QED BY <1>8 DEF one

(* So is a list of one row, or none.                                       *)
LEMMA ReadJoins ==
  ASSUME NEW S, NEW rows \in Seq(S), NEW row \in Seq(S), Len(row) = 0 \/ Len(row) = 1, NEW rule
  PROVE  /\ Read(row \o rows, rule) = Read(row, rule) \o Read(rows, rule)
         /\ Read(<< >>, rule) = << >>
<1>1. Read(<< >>, rule) = << >>
  <2>1. KeptRows(<< >>, rule) = << >>
    BY DEF KeptRows
  <2>2. FlattenSeq(<< >>) = << >>
    BY DEF FlattenSeq
  <2>3. << >> \in Seq(S)
    OBVIOUS
  <2> QED BY <2>1, <2>2, <2>3, ReadIsRowByRow
<1>2. CASE Len(row) = 0
  <2>1. row = << >> /\ row \o rows = rows
    BY <1>2
  <2> DEFINE kept == KeptRows(rows, rule)
             T == {NamedRow(s, rule) : s \in S}
  <2>2. kept \in Seq(Seq(T)) /\ Read(rows, rule) = FlattenSeq(kept)
    BY ReadIsRowByRow
  <2> HIDE DEF kept, T
  <2>3. Read(rows, rule) \in Seq(T)
    BY <2>2, FlattenIsList
  <2>4. << >> \o Read(rows, rule) = Read(rows, rule)
    BY <2>3
  <2> QED BY <1>1, <2>1, <2>4
<1>3. CASE Len(row) = 1
  <2> DEFINE r == row[1]
             one == KeptRow(r, rule)
             both == row \o rows
             T == {NamedRow(s, rule) : s \in S}
  <2>1. both \in Seq(S) /\ Len(both) = Len(rows) + 1 /\ both[1] = r
        /\ \A i \in 1 .. Len(rows) : both[i + 1] = rows[i]
    <3>1. both \in Seq(S) /\ Len(both) = Len(row) + Len(rows) /\ Len(rows) \in Nat
      OBVIOUS
    <3>2. /\ 1 \in 1 .. Len(row) /\ Len(rows) \in Nat
          /\ Len(both) = Len(rows) + 1 /\ both \in Seq(S)
      <4> HIDE DEF both
      <4> QED BY <1>3, <3>1
    <3>3. both[1] = r
      BY <3>2
    <3>4. ASSUME NEW i \in 1 .. Len(rows) PROVE both[i + 1] = rows[i]
      <4>1. i + 1 \in 1 .. Len(row) + Len(rows) /\ i + 1 > Len(row) /\ (i + 1) - Len(row) = i
        BY <1>3, <3>2
      <4> QED BY <4>1
    <3> HIDE DEF both, r
    <3> QED BY <3>2, <3>3, <3>4
  <2>2. << >> \in Seq(S) /\ Len(row) = Len(<< >>) + 1 /\ \A i \in 1 .. Len(<< >>) : FALSE
    BY <1>3
  <2> HIDE DEF both
  <2>3. Read(both, rule) = one \o Read(rows, rule)
    BY <2>1, ReadPrepends
  <2> DEFINE none == << >>
  <2>4. none \in Seq(S) /\ Len(row) = Len(none) + 1 /\ \A i \in 1 .. Len(none) : row[i + 1] = none[i]
    BY <2>2
  <2>5. Read(none, rule) = << >>
    BY <1>1
  <2> HIDE DEF none
  <2>6. Read(row, rule) = one \o << >>
    <3>1. Read(row, rule) = one \o Read(none, rule)
      BY <2>4, ReadPrepends
    <3> QED BY <2>5, <3>1
  <2>7. one \in Seq(T)
    <3>1. r \in S
      BY <1>3
    <3> QED BY <3>1, KeptIsList
  <2> HIDE DEF one
  <2>8. one \o << >> = one
    BY <2>7
  <2> QED BY <1>1, <2>3, <2>6, <2>8 DEF both
<1> QED BY <1>2, <1>3

(* The rows of lines, and those of a line and the lines below it.          *)
LineRows(h, lines, rule) == FlattenSeq(RowsOfAll(SplitEach(h, lines), rule))
RowsFrom(h, line, lines, rule) == Row(Split(h, line), rule) \o LineRows(h, lines, rule)

(* The rows of a line in front are in front.                               *)
LEMMA RowsPrepend ==
  ASSUME NEW L, NEW h, NEW rule, NEW lines \in Seq(L), NEW line \in L
  PROVE  LineRows(h, <<line>> \o lines, rule) = RowsFrom(h, line, lines, rule)
<1> DEFINE F == {Split(h, l) : l \in L}
           S == MadeOf(F, rule)
           row(l) == Row(Split(h, l), rule)
           more == <<line>> \o lines
           n == Len(lines)
           rest == RowsOfAll(SplitEach(h, lines), rule)
           all == RowsOfAll(SplitEach(h, more), rule)
<1>1. n \in Nat /\ DOMAIN lines = 1 .. n /\ \A i \in 1 .. n : lines[i] \in L
  OBVIOUS
<1>2. /\ more[1] = line /\ DOMAIN more = 1 .. n + 1
      /\ \A i \in 1 .. n : more[i + 1] = lines[i]
  OBVIOUS
<1> HIDE DEF more
<1>3. ASSUME NEW l \in L PROVE row(l) \in Seq(S)
  <2>1. Split(h, l) \in F /\ << >> \in Seq(F)
    OBVIOUS
  <2> HIDE DEF F
  <2> QED BY <2>1, RowsAreLists
<1>4. rest = [i \in 1 .. n |-> row(lines[i])]
  BY <1>1 DEF RowsOfAll, SplitEach
<1>5. all = [i \in 1 .. n + 1 |-> row(more[i])]
  BY <1>2 DEF RowsOfAll, SplitEach
<1> HIDE DEF S, F, row, rest, all
<1>6. rest \in Seq(Seq(S)) /\ Len(rest) = n /\ \A i \in 1 .. n : rest[i] = row(lines[i])
  <2>1. \A i \in 1 .. n : row(lines[i]) \in Seq(S)
    BY <1>1, <1>3
  <2> QED BY <1>1, <1>4, <2>1
<1> DEFINE x == row(line)
<1>7. x \in Seq(S)
  BY <1>2, <1>3
<1>8. all[1] = x /\ \A i \in 1 .. n : all[i + 1] = rest[i]
  <2>1. 1 \in 1 .. n + 1 /\ \A i \in 1 .. n : i + 1 \in 1 .. n + 1
    BY <1>1
  <2>2. all[1] = row(more[1]) /\ \A i \in 1 .. n : all[i + 1] = row(more[i + 1])
    BY <1>5, <2>1
  <2> QED BY <1>2, <1>6, <2>2
<1> HIDE DEF x
<1>9. all = <<x>> \o rest
  <2> DEFINE both == <<x>> \o rest
  <2>1. both \in Seq(Seq(S)) /\ Len(both) = n + 1 /\ both[1] = x
        /\ \A i \in 1 .. n : both[i + 1] = rest[i]
    BY <1>6, <1>7
  <2> HIDE DEF both
  <2>2. \A i \in 1 .. n + 1 : both[i] = all[i]
    <3> SUFFICES ASSUME NEW i \in 1 .. n + 1 PROVE both[i] = all[i]
      OBVIOUS
    <3>1. CASE i = 1
      BY <1>8, <2>1, <3>1
    <3>2. CASE i # 1
      <4>1. i - 1 \in 1 .. n /\ (i - 1) + 1 = i
        BY <1>1, <3>2
      <4> QED BY <1>8, <2>1, <4>1
    <3> QED BY <3>1, <3>2
  <2>3. both = [i \in 1 .. n + 1 |-> both[i]] /\ all = [i \in 1 .. n + 1 |-> all[i]]
    BY <1>1, <1>5, <2>1
  <2>4. both = all
    BY <2>2, <2>3
  <2> QED BY <2>4 DEF both
<1>10. FlattenSeq(all) = x \o FlattenSeq(rest)
  BY <1>6, <1>7, <1>9, FlattenPrepends
<1> QED BY <1>10 DEF all, rest, x, row, more, LineRows, RowsFrom

(* With nothing to strip, a field is what it is.                           *)
LEMMA TrimNothing ==
  ASSUME NEW S, NEW s \in Seq(S)
  PROVE  Trim(s, ToSet(<< >>)) = s
<1> DEFINE ink == {i \in DOMAIN s : s[i] \notin ToSet(<< >>)}
           n == Len(s)
<1>1. ToSet(<< >>) = {}
  BY DEF ToSet
<1>2. ink = 1 .. n /\ n \in Nat
  BY <1>1
<1>3. Trim(s, ToSet(<< >>)) = IF ink = {} THEN << >> ELSE SubSeq(s, Min(ink), Max(ink))
  BY DEF Trim
<1> HIDE DEF ink
<1>4. CASE n = 0
  BY <1>2, <1>3, <1>4
<1>5. CASE n # 0
  <2>1. 1 \in ink /\ n \in ink /\ \A i \in ink : 1 <= i /\ i <= n /\ i \in Int
    BY <1>2, <1>5
  <2>2. Min(ink) = 1
    <3>1. Min(ink) \in ink /\ \A y \in ink : Min(ink) <= y
      BY <2>1 DEF Min
    <3> QED BY <2>1, <3>1
  <2>3. Max(ink) = n
    <3>1. Max(ink) \in ink /\ \A y \in ink : Max(ink) >= y
      BY <2>1 DEF Max
    <3> QED BY <1>2, <2>1, <3>1
  <2>4. ink # {} /\ SubSeq(s, 1, n) = s
    BY <2>1, SubSeqFull
  <2> QED BY <1>3, <2>2, <2>3, <2>4
<1> QED BY <1>4, <1>5

-----------------------------------------------------------------------------
(* A rule that C may be given: numbers from columns it looks at.           *)
GivenToC(rule) ==
  /\ TypedParse(rule) /\ ColumnsUpward(rule) /\ Bulk(rule)
  /\ \A c \in DOMAIN rule.columns : rule.columns[c] < FieldsMax

(* What is read of a field, and what becomes of it in a column.            *)
ReadAs(field, rule, c) == Convert(field, ColumnType(rule, c), rule.strip)

(* strtod and Python's conversions agree on what both take for a number,   *)
(* and what C makes of it in the column is no infinite integer.            *)
LEMMA NumbersAgree ==
  ASSUME NEW Chars, NEW s \in Seq(Chars), NEW type \in {IntType, FloatType}, TakenAlike(s, type)
  PROVE  /\ OfDouble(ParseDouble(s), type) = Parsed(s, type)
         /\ type = IntType => Parsed(s, type) # <<Infinity>>
<1>1. /\ IntType # FloatType /\ IntType # StrType /\ FloatType # StrType
  BY DEF IntType, FloatType, StrType
<1>2. ToSet(s) = {s[i] : i \in DOMAIN s} /\ Len(s) \in Nat /\ DOMAIN s = 1 .. Len(s)
  BY DEF ToSet
<1>3. Len(s) <= FieldMax /\ "_" \notin ToSet(s) /\ "nan" \notin ToSet(s) /\ "0x1" \notin ToSet(s)
  BY DEF TakenAlike
<1>4. ParseDouble(s) = Strtod(s)
  <2>1. FieldMax \in Nat
    BY CEngineAssumption
  <2>2. Len(s) \in Nat /\ Len(s) <= FieldMax
    BY <1>2, <1>3
  <2>3. ~(Len(s) > FieldMax)
    BY <2>1, <2>2
  <2> QED BY <2>3 DEF ParseDouble
<1>5. s # NotANumber /\ s # Hexadecimal /\ (s = Infinity => "inf" \in ToSet(s))
  <2>1. \A x : s = <<x>> => x \in ToSet(s)
    BY <1>2
  <2> QED BY <1>3, <2>1 DEF NotANumber, Hexadecimal, Infinity
<1>6. Decimal(s) => "." \in ToSet(s)
  <2> SUFFICES ASSUME Decimal(s) PROVE "." \in ToSet(s)
    OBVIOUS
  <2>1. s # << >> /\ s[Len(s)] = "."
    BY DEF Decimal, Last
  <2>2. Len(s) \in DOMAIN s
    BY <1>2, <2>1
  <2> QED BY <1>2, <2>1, <2>2
<1>7. /\ Numeral(s) => ~Decimal(s) /\ s # Infinity
      /\ s = Infinity => ~Decimal(s)
  <2>1. Numeral(s) => ~Decimal(s) /\ s # Infinity
    BY <1>5, <1>6, DigitsAssumption DEF Numeral
  <2>2. \A x : s = <<x>> => Last(s) = x
    BY DEF Last
  <2>3. s = Infinity => Last(s) # "."
    BY <2>2 DEF Infinity
  <2>4. s = Infinity => ~Decimal(s)
    BY <2>3 DEF Decimal
  <2> QED BY <2>1, <2>4
<1>8. ~Underscored(s)
  BY <1>3 DEF Underscored
<1>9. PyInt(s) = IF Numeral(s) THEN <<s>> ELSE << >>
  BY <1>8 DEF PyInt
<1>10. Strtod(s) = IF Numeral(s) \/ s = Infinity THEN <<s>>
                   ELSE IF Decimal(s) THEN <<Front(s)>> ELSE << >>
  BY <1>5, <1>7 DEF Strtod, NaN
<1>11. CASE type = FloatType
  <2>1. Parsed(s, type) = PyFloat(s) /\ OfDouble(Strtod(s), type) = Strtod(s)
    BY <1>1, <1>11 DEF Parsed, OfDouble
  <2>2. PyFloat(s) = IF s = Infinity THEN <<s>> ELSE IF Decimal(s) THEN <<Front(s)>> ELSE PyInt(s)
    BY <1>5, <1>7 DEF PyFloat
  <2> QED BY <1>1, <1>4, <1>7, <1>9, <1>10, <1>11, <2>1, <2>2
<1>12. CASE type = IntType
  <2>1. Parsed(s, type) = PyInt(s)
    BY <1>1, <1>12 DEF Parsed
  <2>2. Len(s) <= ExactDigits /\ "." \notin ToSet(s) /\ "inf" \notin ToSet(s)
    BY <1>12 DEF TakenAlike
  <2>3. Nearest(s) = s
    <3>1. ExactDigits \in Nat
      BY ExtractAssumption
    <3>2. ~(Len(s) > ExactDigits)
      BY <2>2, <3>1
    <3> QED BY <3>2 DEF Nearest
  <2>4. Strtod(s) = IF Numeral(s) THEN <<s>> ELSE << >>
    BY <1>5, <1>6, <1>10, <2>2
  <2>5. OfDouble(Strtod(s), type) = PyInt(s)
    <3>1. CASE Numeral(s)
      <4>1. Strtod(s) = <<s>> /\ <<s>> # << >>
        BY <2>4, <3>1
      <4>2. OfDouble(<<s>>, type) = <<Nearest(s)>>
        BY <1>12 DEF OfDouble, NaN
      <4> QED BY <1>9, <2>3, <3>1, <4>1, <4>2
    <3>2. CASE ~Numeral(s)
      BY <1>9, <2>4, <3>2 DEF OfDouble, NaN
    <3> QED BY <3>1, <3>2
  <2>6. PyInt(s) # <<Infinity>>
    <3>1. s # Infinity
      BY <1>5, <2>2
    <3> QED BY <1>9, <3>1
  <2> QED BY <1>4, <2>1, <2>5, <2>6
<1> QED BY <1>11, <1>12

(* The fields of a line are strings, and with nothing to strip are what    *)
(* they are.                                                               *)
LEMMA FieldsAreStrings ==
  ASSUME NEW h, IsText(h), NEW line \in LinesOfText(h), NEW i \in DOMAIN Split(h, line)
  PROVE  /\ \E Chars : Split(h, line)[i] \in Seq(Chars)
         /\ Trim(Split(h, line)[i], ToSet(<< >>)) = Split(h, line)[i]
<1> DEFINE all == Fields(h, line[1], line[2], Len(h))
           split == Split(h, line)
<1>1. /\ line[1] \in Int /\ line[2] \in Int /\ Len(h) \in Nat
      /\ line[1] <= line[2] /\ line[2] - line[1] <= Len(h)
  BY LinesAreTyped, TextsHaveNewlines
<1>2. split = [k \in DOMAIN all |-> Bytes(h, all[k])]
  BY DEF Split
<1>3. PICK m \in Nat :
        LET starts == FieldStarts(h, line[1], line[2]) IN
        /\ all = [k \in 1 .. m |-> <<FieldAt(starts, k), FieldEnd(h, FieldAt(starts, k), line[2])>>]
        /\ \A k \in 1 .. m :
             /\ FieldAt(starts, k) \in line[1] .. line[2] - 1
             /\ FieldEnd(h, FieldAt(starts, k), line[2]) \in FieldAt(starts, k) .. line[2]
  BY <1>1, FieldsLieInPiece DEF all
<1> HIDE DEF all
<1>4. i \in 1 .. m /\ i \in DOMAIN all
  BY <1>2, <1>3
<1>5. PICK Chars : h \in Seq(Chars)
  BY DEF IsText
<1> DEFINE f == all[i]
           s == SubSeq(h, f[1] + 1, f[2])
<1>6. split[i] = s
  BY <1>2, <1>4 DEF Bytes
<1>7. f[1] + 1 \in Int /\ f[2] \in Int /\ f[1] + 1 >= 1 /\ f[2] <= Len(h)
  <2> DEFINE starts == FieldStarts(h, line[1], line[2])
             from == FieldAt(starts, i)
             to == FieldEnd(h, from, line[2])
  <2>1. f = <<from, to>> /\ from \in line[1] .. line[2] - 1 /\ to \in from .. line[2]
    BY <1>3, <1>4
  <2>2. line[1] \in 0 .. Len(h) /\ line[2] \in line[1] .. Len(h)
    BY LinesAreTyped
  <2> HIDE DEF f, from, to
  <2> QED BY <1>1, <2>1, <2>2
<1> HIDE DEF f
<1>8. s \in Seq(Chars)
  BY <1>5, <1>7
<1> HIDE DEF s
<1> QED BY <1>6, <1>8, TrimNothing

(* In a regular line with fields every column has one, and what it reads   *)
(* is no infinite integer.                                                 *)
LEMMA RegularHasColumns ==
  ASSUME NEW h, IsText(h), NEW line \in LinesOfText(h), NEW rule, GivenToC(rule),
         Regular(Split(h, line), rule), Len(Split(h, line)) # 0, NEW c \in DOMAIN rule.columns
  PROVE  LET split == Split(h, line)
             k == rule.columns[c]
         IN  /\ k \in Nat /\ k < Len(split) /\ k + 1 \in DOMAIN split
             /\ Field(split, k)[1] = split[k + 1]
             /\ OfDouble(ParseDouble(split[k + 1]), ColumnType(rule, c)) = ReadAs(split[k + 1], rule, c)
             /\ ColumnType(rule, c) = IntType => ReadAs(split[k + 1], rule, c) # <<Infinity>>
<1> DEFINE split == Split(h, line)
           k == rule.columns[c]
           type == ColumnType(rule, c)
<1>1. line[1] \in Int /\ line[2] \in Int /\ Len(h) \in Nat
  BY LinesAreTyped, TextsHaveNewlines
<1>2. Len(split) \in Nat /\ DOMAIN split = 1 .. Len(split)
  BY <1>1, SplitIsList
<1>3. Wanted(rule) \in Int /\ k \in Int /\ k >= 0 /\ Wanted(rule) >= k
  BY WantedIsGreatest DEF GivenToC
<1>4. Len(split) \notin 1 .. Wanted(rule) /\ (k < Len(split) => TakenAlike(split[k + 1], type))
  BY DEF Regular
<1>5. type \in {IntType, FloatType} /\ rule.strip = << >>
  <2>1. type \in ScalarTypes /\ type # StrType
    BY DEF GivenToC, Bulk, TypedParse, ColumnType
  <2> QED BY <2>1 DEF GivenToC, Bulk, ScalarTypes, StrType, IntType, FloatType
<1> HIDE DEF split, k, type
<1>6. k \in Nat /\ k < Len(split) /\ k + 1 \in DOMAIN split
  BY <1>2, <1>3, <1>4 DEF split
<1>7. Field(split, k)[1] = split[k + 1]
  <2>1. Index(split, k) = k + 1
    BY <1>3 DEF Index
  <2> QED BY <1>6, <2>1 DEF Field
<1>8. PICK Chars : split[k + 1] \in Seq(Chars)
  BY <1>6, FieldsAreStrings DEF split
<1>9. Trim(split[k + 1], ToSet(<< >>)) = split[k + 1]
  BY <1>6, FieldsAreStrings DEF split
<1>10. ReadAs(split[k + 1], rule, c) = Parsed(split[k + 1], type)
  BY <1>5, <1>9 DEF ReadAs, Convert, type
<1>11. /\ OfDouble(ParseDouble(split[k + 1]), type) = Parsed(split[k + 1], type)
       /\ type = IntType => Parsed(split[k + 1], type) # <<Infinity>>
  BY <1>4, <1>5, <1>6, <1>8, NumbersAgree
<1> QED BY <1>6, <1>7, <1>10, <1>11 DEF split, k, type

(* C sees of a field it looks at what Python sees of it.                   *)
LEMMA FieldAgrees ==
  ASSUME NEW h, IsText(h), NEW line \in LinesOfText(h), NEW k \in Nat, k < FieldsMax,
         k < Len(Split(h, line))
  PROVE  LET fields == Fields(h, line[1], line[2], FieldsMax) IN
         /\ k \in 0 .. Len(fields) - 1 /\ Len(fields) \in Nat
         /\ ParseField(h, fields[k + 1]) = ParseDouble(Split(h, line)[k + 1])
<1> DEFINE fields == Fields(h, line[1], line[2], FieldsMax)
           all == Fields(h, line[1], line[2], Len(h))
           split == Split(h, line)
<1>1. /\ line[1] \in Int /\ line[2] \in Int /\ Len(h) \in Nat /\ FieldsMax \in Nat
      /\ line[1] <= line[2] /\ line[2] - line[1] <= Len(h)
  BY LinesAreTyped, TextsHaveNewlines, CEngineAssumption
<1>2. /\ Len(all) \in Nat /\ DOMAIN all = 1 .. Len(all)
      /\ Len(fields) = IF FieldsMax <= Len(all) THEN FieldsMax ELSE Len(all)
      /\ DOMAIN fields = 1 .. Len(fields)
      /\ \A i \in DOMAIN fields : fields[i] = all[i]
  BY <1>1, FieldsShared
<1>3. split = [i \in DOMAIN all |-> Bytes(h, all[i])]
  BY DEF Split
<1> HIDE DEF fields, all, split
<1>4. DOMAIN split = 1 .. Len(all) /\ Len(split) = Len(all)
  BY <1>2, <1>3
<1>5. k < Len(all)
  BY <1>4 DEF split
<1>6. k \in 0 .. Len(fields) - 1 /\ k + 1 \in DOMAIN fields /\ k + 1 \in DOMAIN all
  BY <1>1, <1>2, <1>5
<1>7. split[k + 1] = Bytes(h, fields[k + 1])
  BY <1>2, <1>3, <1>6
<1> QED BY <1>1, <1>2, <1>6, <1>7 DEF ParseField, fields, split

-----------------------------------------------------------------------------
(* A regular line gives the same row, or none, in C and in Python, once    *)
(* the columns have their names.                                           *)
LEMMA LineAgrees ==
  ASSUME NEW h, IsText(h), NEW line \in LinesOfText(h), NEW rule, GivenToC(rule),
         Regular(Split(h, line), rule)
  PROVE  Read(RowOf(h, Fields(h, line[1], line[2], FieldsMax), Places(rule)), rule)
           = Row(Split(h, line), rule)
<1> DEFINE fields == Fields(h, line[1], line[2], FieldsMax)
           split == Split(h, line)
           names == Names(rule)
           places == Places(rule)
           D == DOMAIN rule.columns
           scanned == ScanRow(h, fields, places)
           made == [c \in D |->
                      Convert(Field(split, rule.columns[c])[1], ColumnType(rule, c), rule.strip)]
           named == NamedRow(scanned, rule)
           value(c) == Convert(Field(split, rule.columns[c])[1], ColumnType(rule, c), rule.strip)
<1>1. /\ TypedParse(rule) /\ ColumnsUpward(rule) /\ IsFiniteSet(D)
      /\ \A c \in D : rule.columns[c] < FieldsMax
  BY DEF GivenToC, TypedParse
<1>2. PICK n \in Nat :
        /\ DOMAIN names = 1 .. n /\ (n = 0 <=> D = {})
        /\ \A k \in 1 .. n : names[k] \in D
        /\ \A c \in D : \E k \in 1 .. n : names[k] = c
  BY <1>1, NamesAreAll DEF Names
<1>3. /\ Len(split) \in Nat /\ DOMAIN split = 1 .. Len(split)
      /\ FieldsMax \in Nat /\ FieldsMax # 0
      /\ line[1] \in Int /\ line[2] \in Int /\ Len(h) \in Nat
      /\ line[1] <= line[2] /\ line[2] - line[1] <= Len(h)
  <2>1. line[1] \in Int /\ line[2] \in Int /\ Len(h) \in Nat
        /\ line[1] <= line[2] /\ line[2] - line[1] <= Len(h)
    BY LinesAreTyped, TextsHaveNewlines
  <2> QED BY <2>1, SplitIsList, CEngineAssumption
<1> HIDE DEF fields, split, names, places, scanned, made, named
<1>4. places = [i \in 1 .. n |-> rule.columns[names[i]]] /\ (places = << >> <=> D = {})
  <2>1. places = [i \in 1 .. n |-> rule.columns[names[i]]]
    BY <1>2 DEF Places, places, names
  <2>2. places = << >> <=> n = 0
    BY <2>1
  <2> QED BY <1>2, <2>1, <2>2
<1>5. ASSUME RowOf(h, fields, places) = << >>
      PROVE  Read(RowOf(h, fields, places), rule) = << >>
  <2>1. << >> \in Seq({0}) /\ Len(<< >>) = 0
    OBVIOUS
  <2>2. Read(<< >>, rule) = << >>
    BY <2>1, ReadJoins
  <2> QED BY <1>5, <2>2
<1>6. CASE fields = << >>
  <2>1. split = << >>
    <3> DEFINE all == Fields(h, line[1], line[2], Len(h))
    <3>1. /\ Len(all) \in Nat /\ Len(fields) = IF FieldsMax <= Len(all) THEN FieldsMax ELSE Len(all)
          /\ DOMAIN all = 1 .. Len(all)
      BY <1>3, FieldsShared DEF fields
    <3>2. Len(fields) = 0
      BY <1>6
    <3>3. split = [i \in DOMAIN all |-> Bytes(h, all[i])]
      BY DEF Split, split
    <3> HIDE DEF all
    <3>4. DOMAIN all = {}
      BY <1>3, <3>1, <3>2
    <3> QED BY <3>3, <3>4
  <2>2. Row(split, rule) = << >>
    BY <1>1, <2>1, NoRowRaises
  <2>3. RowOf(h, fields, places) = << >>
    BY <1>6 DEF RowOf
  <2> QED BY <1>5, <2>2, <2>3 DEF fields, split, places
<1>7. CASE fields # << >> /\ D = {}
  <2>1. RowOf(h, fields, places) = << >>
    BY <1>4, <1>7 DEF RowOf
  <2>2. ~Legible(made)
    BY <1>7 DEF Legible, made
  <2>3. Row(split, rule) = << >>
    BY <2>2 DEF Row, made, D
  <2> QED BY <1>5, <2>1, <2>3 DEF fields, split, places
<1>8. CASE fields # << >> /\ D # {}
  <2>0. Len(split) # 0
    <3> DEFINE all == Fields(h, line[1], line[2], Len(h))
    <3>1. /\ Len(all) \in Nat /\ Len(fields) = IF FieldsMax <= Len(all) THEN FieldsMax ELSE Len(all)
          /\ DOMAIN all = 1 .. Len(all) /\ (Len(fields) = 0 => fields = << >>)
      BY <1>3, FieldsShared DEF fields
    <3>2. split = [i \in DOMAIN all |-> Bytes(h, all[i])]
      BY DEF Split, split
    <3> HIDE DEF all
    <3>3. DOMAIN split = 1 .. Len(all)
      BY <3>1, <3>2
    <3>4. Len(all) # 0
      BY <1>3, <1>8, <3>1
    <3> QED BY <3>1, <3>3, <3>4, <1>3
  <2>1. ASSUME NEW c \in D
        PROVE  /\ rule.columns[c] \in 0 .. Len(fields) - 1 /\ rule.columns[c] < Len(split)
               /\ OfDouble(ParseField(h, fields[rule.columns[c] + 1]), ColumnType(rule, c)) = value(c)
    <3> DEFINE k == rule.columns[c]
    <3>1. /\ k \in Nat /\ k < Len(split) /\ Field(split, k)[1] = split[k + 1]
          /\ OfDouble(ParseDouble(split[k + 1]), ColumnType(rule, c)) = ReadAs(split[k + 1], rule, c)
      BY <2>0, RegularHasColumns DEF split
    <3>2. k < FieldsMax
      BY <1>1
    <3> HIDE DEF k
    <3>3. k \in 0 .. Len(fields) - 1 /\ ParseField(h, fields[k + 1]) = ParseDouble(split[k + 1])
      BY <3>1, <3>2, FieldAgrees DEF fields, split
    <3>4. value(c) = ReadAs(split[k + 1], rule, c)
      BY <3>1 DEF ReadAs, k
    <3> HIDE DEF value
    <3> QED BY <3>1, <3>3, <3>4 DEF k
  <2> HIDE DEF value
  <2>2. made = [c \in D |-> value(c)]
    BY DEF made, value
  <2>3. named = [c \in D |-> value(c)]
    <3>1. ASSUME NEW k \in 1 .. n
          PROVE  OfDouble(scanned[k], ColumnType(rule, names[k])) = value(names[k])
      <4> DEFINE place == places[k]
                 at == IF place < 0 THEN place + Len(fields) ELSE place
      <4>1. place = rule.columns[names[k]] /\ DOMAIN places = 1 .. n /\ names[k] \in D
        BY <1>2, <1>4
      <4>2. scanned = [i \in DOMAIN places |->
              IF (IF places[i] < 0 THEN places[i] + Len(fields) ELSE places[i]) \in 0 .. Len(fields) - 1
              THEN ParseField(h, fields[(IF places[i] < 0 THEN places[i] + Len(fields) ELSE places[i]) + 1])
              ELSE NaN]
        BY DEF ScanRow, scanned
      <4>3. scanned[k] = IF at \in 0 .. Len(fields) - 1 THEN ParseField(h, fields[at + 1]) ELSE NaN
        BY <4>1, <4>2
      <4> HIDE DEF place
      <4>4. place \in 0 .. Len(fields) - 1 /\ place \in Nat
            /\ OfDouble(ParseField(h, fields[place + 1]), ColumnType(rule, names[k])) = value(names[k])
        <5>1. place \in 0 .. Len(fields) - 1
              /\ OfDouble(ParseField(h, fields[place + 1]), ColumnType(rule, names[k])) = value(names[k])
          BY <2>1, <4>1
        <5>2. rule.columns[names[k]] \in Int /\ rule.columns[names[k]] >= 0
          BY <1>1, <4>1, WantedIsGreatest
        <5> QED BY <4>1, <5>1, <5>2
      <4>5. at = place
        BY <4>4
      <4> QED BY <4>3, <4>4, <4>5
    <3> DEFINE picked(c) == CHOOSE k \in 1 .. n : names[k] = c
               item(c) == OfDouble(scanned[picked(c)], ColumnType(rule, c))
    <3>2. named = [c \in D |-> item(c)]
      BY <1>2 DEF NamedRow, named, names
    <3>3. \A c \in D : picked(c) \in 1 .. n /\ names[picked(c)] = c
      BY <1>2
    <3> HIDE DEF picked
    <3>4. \A c \in D : item(c) = value(c)
      BY <3>1, <3>3
    <3> HIDE DEF item
    <3> QED BY <3>2, <3>4
  <2>4. ~TooShort(split, rule)
    <3>1. PICK c \in D : TRUE
      BY <1>8
    <3>2. Wanted(rule) \in Int
          /\ (Wanted(rule) = -1 \/ \E d \in D : Wanted(rule) = rule.columns[d])
      BY <1>1, WantedIsGreatest
    <3> QED BY <1>3, <2>1, <3>1, <3>2 DEF TooShort
  <2>5. Row(split, rule) = IF ~Legible(made) THEN << >> ELSE <<made>>
    BY <2>4 DEF Row, made, D
  <2>6. Read(RowOf(h, fields, places), rule) = KeptRow(scanned, rule)
    <3>1. RowOf(h, fields, places) = <<scanned>>
      BY <1>4, <1>8 DEF RowOf, scanned
    <3> DEFINE S == {scanned}
               none == << >>
               one == <<scanned>>
    <3>2. none \in Seq(S) /\ one \in Seq(S) /\ Len(one) = Len(none) + 1 /\ one[1] = scanned
          /\ \A i \in 1 .. Len(none) : one[i + 1] = none[i]
      OBVIOUS
    <3>3. Read(none, rule) = << >>
      BY ReadJoins, <3>2
    <3> HIDE DEF none, one
    <3>4. Read(one, rule) = KeptRow(scanned, rule) \o << >>
      BY <3>2, <3>3, ReadPrepends
    <3>5. KeptRow(scanned, rule) \o << >> = KeptRow(scanned, rule)
      <4> DEFINE x == NamedRow(scanned, rule)
      <4> HIDE DEF x
      <4>1. <<x>> \o << >> = <<x>> /\ << >> \o << >> = << >>
        OBVIOUS
      <4> QED BY <4>1 DEF KeptRow, x
    <3> QED BY <3>1, <3>4, <3>5 DEF one
  <2>7. KeptRow(scanned, rule) = IF Legible(named) THEN <<named>> ELSE << >>
    BY DEF KeptRow, named
  <2>8. named = made
    BY <2>2, <2>3
  <2> QED BY <2>5, <2>6, <2>7, <2>8 DEF fields, split, places
<1> QED BY <1>6, <1>7, <1>8

-----------------------------------------------------------------------------
(* Whatever of the lines up to the end of a line C has room for, it reads  *)
(* as Python does.                                                         *)
LEMMA ScanReadsLines ==
  ASSUME NEW h, IsText(h), h # << >>, NEW rule, GivenToC(rule),
         NEW s \in 0 .. Len(h), StartsLine(h, s)
  PROVE  LET to == LineEnd(h, s) IN
         \A p \in 0 .. Len(h), left \in Nat :
           LET lines == LineSpans(h, p, to)
               rows == RowScan(h, to, Places(rule))[p][left]
           IN  StartsLine(h, p) /\ Len(rows) < left /\ (\A i \in DOMAIN lines : Regular(Split(h, lines[i]), rule))
                 => Read(rows, rule) = LineRows(h, lines, rule)
<1> DEFINE to == LineEnd(h, s)
           places == Places(rule)
           w == RowScan(h, to, places)
           S == ScannedRows(h, to, places)
           D == 0 .. Len(h)
           rank == [p \in D |-> Len(h) - p]
           lines(p) == LineSpans(h, p, to)
           regular(p) == \A i \in DOMAIN lines(p) : Regular(Split(h, lines(p)[i]), rule)
           made(p) == LineRows(h, lines(p), rule)
           good == {p \in D : \A left \in Nat :
                      StartsLine(h, p) /\ Len(w[p][left]) < left /\ regular(p)
                        => Read(w[p][left], rule) = made(p)}
<1>1. Len(h) \in Nat /\ to \in 0 .. Len(h) /\ to \in Nat
  <2>1. to \in s .. Len(h) /\ Len(h) \in Nat
    BY LineEndOf, TextsHaveNewlines
  <2> HIDE DEF to
  <2> QED BY <2>1
<1>2. ASSUME NEW p \in Nat, NEW left \in Nat
      PROVE  /\ w[p][left] = IF p > to \/ left = 0 THEN << >>
                 ELSE RowAt(h, p, to, places)
                        \o w[PastRow(h, p, to)][left - Len(RowAt(h, p, to, places))]
             /\ w[p][left] \in Seq(S)
  <2> HIDE DEF to, places
  <2> QED BY <1>1, ScanUnfolds
<1> HIDE DEF w
<1>3. Read(<< >>, rule) = << >> /\ LineRows(h, << >>, rule) = << >>
  <2>1. RowsOfAll(SplitEach(h, << >>), rule) = << >>
    BY DEF RowsOfAll, SplitEach
  <2>2. FlattenSeq(<< >>) = << >>
    BY DEF FlattenSeq
  <2>3. << >> \in Seq({0}) /\ Len(<< >>) = 0
    OBVIOUS
  <2> QED BY <2>1, <2>2, <2>3, ReadJoins DEF LineRows
<1>4. ASSUME NEW p \in D, \A r \in D : rank[r] < rank[p] => r \in good
      PROVE  p \in good
  <2> SUFFICES ASSUME NEW left \in Nat, StartsLine(h, p), Len(w[p][left]) < left, regular(p)
               PROVE  Read(w[p][left], rule) = made(p)
    OBVIOUS
  <2> DEFINE over == EndsAt(h, p)
             line == <<p, LineEnd(h, p)>>
             rest == IF over + 1 >= Len(h) THEN << >> ELSE lines(over + 1)
             row == RowAt(h, p, to, places)
             past == PastRow(h, p, to)
             fewer == left - Len(row)
  <2>1. p \in Nat /\ lines(p) = IF p > to THEN << >> ELSE <<line>> \o rest
    BY <1>1, LineSpansUnfold
  <2>2. w[p][left] = (IF p > to \/ left = 0 THEN << >> ELSE row \o w[past][fewer])
        /\ w[p][left] \in Seq(S)
    BY <1>2, <2>1
  <2>3. CASE p > to
    <3>1. w[p][left] = << >> /\ lines(p) = << >>
      BY <2>1, <2>2, <2>3
    <3> QED BY <1>3, <3>1
  <2>4. CASE ~(p > to)
    <3>1. p \in 0 .. to
      BY <1>1, <2>1, <2>4
    <3>2. LineEnd(h, p) <= to /\ LineEnd(h, p) \in Nat /\ over \in p .. Len(h)
          /\ (over < Len(h) => Byte(h, over) = "\n")
      BY <1>1, <3>1, LinesEndInWindow, LineEndOf
    <3>3. StopAt(h, p, to) = LineEnd(h, p) /\ past = After(h, p) /\ past \in p + 1 .. Len(h) + 1
      BY <1>1, <3>1, <3>2, RowEndsInLine
    <3>4. After(h, p) = IF over + 1 >= Len(h) THEN Len(h) + 1 ELSE over + 1
      BY AfterIsNext
    <3>5. row \in Seq(S) /\ (Len(row) = 0 \/ Len(row) = 1)
      BY <2>1, RowIsOneOrNone
    <3>6. row = RowOf(h, Fields(h, line[1], line[2], FieldsMax), places)
      BY <3>3 DEF RowAt
    <3>7. line \in LinesOfText(h)
      BY DEF LinesOfText
    <3>8. rest \in Seq(LinesOfText(h))
      <4> SUFFICES ASSUME ~(over + 1 >= Len(h)) PROVE lines(over + 1) \in Seq(LinesOfText(h))
        OBVIOUS
      <4>1. over + 1 \in 0 .. Len(h)
        BY <1>1, <2>1, <3>2
      <4> HIDE DEF over, to
      <4> QED BY <1>1, <4>1, LinesInWindow
    <3> HIDE DEF row, past, over, rest, line, to
    <3>9. lines(p) = <<line>> \o rest
      BY <2>1, <2>4
    <3>10. Regular(Split(h, line), rule) /\ \A i \in DOMAIN rest : Regular(Split(h, rest[i]), rule)
      <4> DEFINE all == <<line>> \o rest
      <4>1. \A i \in DOMAIN all : Regular(Split(h, all[i]), rule)
        BY <3>9
      <4>2. /\ 1 \in DOMAIN all /\ all[1] = line
            /\ \A i \in DOMAIN rest : i + 1 \in DOMAIN all /\ all[i + 1] = rest[i]
        BY <3>8
      <4> HIDE DEF all
      <4> QED BY <4>1, <4>2
    <3>11. left # 0 /\ w[p][left] = row \o w[past][fewer]
      <4>1. left # 0
        BY <2>2
      <4> QED BY <2>2, <2>4, <4>1
    <3>12. fewer \in Nat
      <4> DEFINE n == Len(row)
      <4>1. n = 0 \/ n = 1
        BY <3>5
      <4> HIDE DEF n
      <4>2. left - n \in Nat
        BY <3>11, <4>1
      <4> QED BY <4>2 DEF n
    <3>13. past \in Nat
      BY <1>1, <2>1, <3>3
    <3> DEFINE later == w[past][fewer]
    <3>14. later \in Seq(S)
      BY <1>2, <3>12, <3>13
    <3>15. Len(later) < fewer
      <4> DEFINE n == Len(row)
                 m == Len(later)
      <4>1. Len(row \o later) = Len(row) + Len(later)
        BY <3>5, <3>14
      <4>2. n + m < left /\ n \in Nat /\ m \in Nat
        BY <3>5, <3>11, <3>14, <4>1
      <4> HIDE DEF n, m
      <4>3. m < left - n
        BY <4>2
      <4> QED BY <4>3 DEF n, m
    <3>16. Read(later, rule) = LineRows(h, rest, rule)
      <4>1. CASE over + 1 >= Len(h)
        <5>1. past = Len(h) + 1 /\ past > to
          BY <1>1, <3>3, <3>4, <4>1
        <5>2. w[past][fewer] = << >>
          BY <1>2, <3>12, <3>13, <5>1
        <5>3. rest = << >>
          BY <4>1 DEF rest
        <5> QED BY <1>3, <5>2, <5>3
      <4>2. CASE ~(over + 1 >= Len(h))
        <5>1. past = over + 1 /\ past \in D /\ past > p /\ past - 1 = over /\ over < Len(h)
          BY <1>1, <2>1, <3>2, <3>3, <3>4, <4>2
        <5>2. StartsLine(h, past)
          BY <3>2, <5>1 DEF StartsLine
        <5>3. rank[past] < rank[p]
          BY <1>1, <2>1, <5>1
        <5>4. past \in good
          BY <1>4, <5>1, <5>3
        <5>5. rest = lines(past)
          BY <4>2, <5>1 DEF rest
        <5>6. regular(past)
          BY <3>10, <5>5
        <5>7. Read(w[past][fewer], rule) = made(past)
          BY <3>12, <3>15, <5>2, <5>4, <5>6
        <5> QED BY <5>5, <5>7
      <4> QED BY <4>1, <4>2
    <3> HIDE DEF later
    <3>17. Read(row, rule) = Row(Split(h, line), rule)
      BY <3>6, <3>7, <3>10, LineAgrees
    <3>18. Read(row \o later, rule) = Read(row, rule) \o Read(later, rule)
      BY <3>5, <3>14, ReadJoins
    <3>19. LineRows(h, <<line>> \o rest, rule)
             = Row(Split(h, line), rule) \o LineRows(h, rest, rule)
      <4>1. LineRows(h, <<line>> \o rest, rule) = RowsFrom(h, line, rest, rule)
        BY <3>7, <3>8, RowsPrepend
      <4> QED BY <4>1 DEF RowsFrom
    <3> QED BY <3>9, <3>11, <3>16, <3>17, <3>18, <3>19 DEF later
  <2> QED BY <2>3, <2>4
<1>5. rank \in [D -> Nat]
  BY <1>1
<1> HIDE DEF good, rank, D
<1>6. D \subseteq good
  BY <1>4, <1>5, RankInduction
<1> QED BY <1>6 DEF good, D, w

-----------------------------------------------------------------------------
(* A block that has a line goes from the start of a line to the end of one.*)
LEMMA OpenedEndsWithLine ==
  ASSUME IsText(text), NEW at \in 0 .. Len(text), NEW skip \in Int, NEW until, NEW max \in Int,
         Opens(AdvanceLines(text, at, skip), until, max)
  PROVE  LET span == BlockSpan(text, at, skip, until, max) IN
         /\ span[1] \in 0 .. Len(text) /\ StartsLine(text, span[1]) /\ text # << >>
         /\ span[2] \in span[1] .. Len(text)
         /\ \E s \in 0 .. Len(text) : StartsLine(text, s) /\ span[2] = LineEnd(text, s)
<1> DEFINE from == AdvanceLines(text, at, skip)
           lines == LineSpans(text, from, Len(text))
           span == BlockSpan(text, at, skip, until, max)
<1>1. Len(text) \in Nat
  BY TextsHaveNewlines
<1>2. from < Len(text) /\ ~Stops(text, lines[1], until) /\ max \in Nat \ {0}
  BY DEF Opens
<1>3. from \in 0 .. Len(text) /\ (StartsLine(text, from) \/ from = Len(text))
  BY AdvanceReachesLine
<1>4. span[2] \in from .. Len(text)
  BY BlockLiesInText
<1>5. span = BlockAt(text, from, until, max)
  BY DEF BlockSpan
<1> HIDE DEF from, span
<1>6. from \in 0 .. Len(text) - 1 /\ StartsLine(text, from) /\ text # << >>
  BY <1>1, <1>2, <1>3
<1> HIDE DEF lines
<1>7. lines \in Seq(Nat \X Nat) /\ lines # << >>
  BY <1>6, LinesFromCover DEF LinesCover, lines
<1>8. lines \in Seq(LinesOfText(text))
  <2>1. from \in 0 .. Len(text) /\ Len(text) \in 0 .. Len(text)
    BY <1>1, <1>6
  <2> QED BY <2>1, LinesInWindow DEF lines
<1>9. PICK m \in DOMAIN lines :
        /\ UpTo(text, lines, until, max) = SubSeq(lines, 1, m)
        /\ m <= max
        /\ \A i \in 1 .. m : ~Stops(text, lines[i], until)
        /\ m < Len(lines) => m = max \/ Stops(text, lines[m + 1], until)
  BY <1>2, <1>7, TakenLines
<1> DEFINE read == SubSeq(lines, 1, m)
<1>10. m \in 1 .. Len(lines) /\ Len(read) = m /\ read[m] = lines[m] /\ lines[m] \in LinesOfText(text)
  BY <1>7, <1>8
<1>11. span = <<from, lines[m][2]>>
  <2>1. Taken(text, from, until, max) = read
    BY <1>9 DEF Taken, lines
  <2>2. ~(from >= Len(text))
    BY <1>1, <1>6
  <2>3. span = Around(from, read)
    BY <1>5, <2>1, <2>2 DEF BlockAt
  <2>4. read # << >> /\ Last(read) = lines[m]
    BY <1>10 DEF Last
  <2> QED BY <2>3, <2>4 DEF Around
<1>12. PICK s \in 0 .. Len(text) : StartsLine(text, s) /\ lines[m] = <<s, LineEnd(text, s)>>
  BY <1>10 DEF LinesOfText
<1>13. span[1] = from /\ span[2] = LineEnd(text, s)
  BY <1>11, <1>12
<1> QED BY <1>3, <1>4, <1>6, <1>12, <1>13 DEF span

(* No row that regular lines make has an infinite integer.                 *)
LEMMA NoInfinityIsRead ==
  ASSUME NEW h, IsText(h), NEW lines \in Seq(LinesOfText(h)), NEW rule, GivenToC(rule),
         \A i \in DOMAIN lines : Regular(Split(h, lines[i]), rule)
  PROVE  NoInfiniteInt(LineRows(h, lines, rule), rule) = <<LineRows(h, lines, rule)>>
<1> DEFINE finite(row) == \A c \in DOMAIN rule.columns :
                            ColumnType(rule, c) = IntType => row[c] # <<Infinity>>
           F == {row \in MadeOf(FieldLists(h), rule) : finite(row)}
           made(l) == [c \in DOMAIN rule.columns |-> ReadAs(Field(l, rule.columns[c])[1], rule, c)]
           row(i) == Row(Split(h, lines[i]), rule)
<1>1. /\ TypedParse(rule) /\ ColumnsUpward(rule)
  BY DEF GivenToC
<1>2. ASSUME NEW i \in DOMAIN lines PROVE row(i) \in Seq(F)
  <2> DEFINE split == Split(h, lines[i])
             x == made(split)
  <2>1. lines[i] \in LinesOfText(h) /\ Regular(split, rule)
    OBVIOUS
  <2>2. Len(split) \in Nat /\ DOMAIN split = 1 .. Len(split) /\ split \in FieldLists(h)
    BY <2>1, LinesAreLists DEF FieldLists
  <2>3. row(i) = IF TooShort(split, rule) \/ ~Legible(x) THEN << >> ELSE <<x>>
    BY DEF Row, ReadAs
  <2>4. x \in MadeOf(FieldLists(h), rule)
    <3> HIDE DEF split
    <3> QED BY <2>2 DEF MadeOf, ReadAs
  <2>5. CASE Len(split) = 0
    <3>1. split = << >>
      <4> HIDE DEF split
      <4> QED BY <2>5, <2>2
    <3>2. row(i) = << >>
      BY <1>1, <3>1, NoRowRaises
    <3> HIDE DEF F, row
    <3> QED BY <3>2
  <2>6. CASE Len(split) # 0
    <3>1. ASSUME NEW c \in DOMAIN rule.columns, ColumnType(rule, c) = IntType
          PROVE  x[c] # <<Infinity>>
      <4>1. /\ Field(split, rule.columns[c])[1] = split[rule.columns[c] + 1]
            /\ ReadAs(split[rule.columns[c] + 1], rule, c) # <<Infinity>>
        BY <2>1, <2>6, <3>1, RegularHasColumns
      <4> HIDE DEF split
      <4>2. x[c] = ReadAs(Field(split, rule.columns[c])[1], rule, c)
        OBVIOUS
      <4> QED BY <4>1, <4>2
    <3> HIDE DEF x
    <3>2. x \in F
      BY <2>4, <3>1
    <3> HIDE DEF F, row
    <3> QED BY <2>3, <3>2
  <2> QED BY <2>2, <2>5, <2>6
<1> DEFINE all == RowsOfAll(SplitEach(h, lines), rule)
           rows == FlattenSeq(all)
<1>3. rows \in Seq(F)
  <2>1. all = [i \in 1 .. Len(lines) |-> row(i)] /\ DOMAIN lines = 1 .. Len(lines) /\ Len(lines) \in Nat
    BY DEF RowsOfAll, SplitEach
  <2> HIDE DEF row, F, all
  <2>2. all \in Seq(Seq(F))
    BY <1>2, <2>1
  <2> QED BY <2>2, FlattenIsList
<1> HIDE DEF rows
<1>4. \A i \in DOMAIN rows : finite(rows[i])
  <2>1. \A i \in DOMAIN rows : rows[i] \in F
    BY <1>3
  <2> HIDE DEF finite
  <2> QED BY <2>1
<1>5. NoInfiniteInt(rows, rule) = <<rows>>
  BY <1>4 DEF NoInfiniteInt
<1> QED BY <1>5 DEF rows, LineRows

(* Of such lines, if they fit into one batch, the bulk parser makes the    *)
(* rows that splitting does.                                               *)
LEMMA FastIsSlow ==
  ASSUME NEW h, IsText(h), h # << >>, NEW s \in 0 .. Len(h), StartsLine(h, s),
         NEW span, span[2] = LineEnd(h, s), span[1] \in 0 .. LineEnd(h, s), StartsLine(h, span[1]),
         NEW rule, GivenToC(rule),
         \A i \in DOMAIN LinesOf(h, span) : Regular(Split(h, LinesOf(h, span)[i]), rule),
         Len(TolkScanColumns(h, span[1], span[2], Places(rule), RowBatch)) < RowBatch
  PROVE  FastRows(h, span, rule) = SlowRows(h, span, rule)
<1> DEFINE from == span[1]
           to == span[2]
           places == Places(rule)
           lines == LineSpans(h, from, to)
           parsed == TolkScanColumns(h, from, to, places, RowBatch)
<1>1. /\ Len(h) \in Nat /\ to \in 0 .. Len(h) /\ from \in 0 .. to /\ from \in 0 .. Len(h)
      /\ from \in Nat /\ RowBatch \in Nat
  <2>1. LineEnd(h, s) \in s .. Len(h) /\ Len(h) \in Nat
    BY LineEndOf, TextsHaveNewlines
  <2>2. from \in 0 .. to
    OBVIOUS
  <2> QED BY <2>1, <2>2, CEngineAssumption
<1>2. TypedParse(rule) /\ ColumnsUpward(rule)
  BY DEF GivenToC
<1>3. Len(parsed) < RowBatch
  OBVIOUS
<1>4. ScanColumns(h, from, to, places) = parsed
  <2> HIDE DEF places
  <2> QED BY <1>1, <1>3, OneBatch
<1>5. parsed = RowScan(h, to, places)[from][RowBatch]
  <2> DEFINE at == IF from < to THEN from ELSE to
  <2>1. parsed = RowScan(h, to, places)[LineStart(h, at)][RowBatch]
    <3> HIDE DEF places
    <3> QED BY <1>1, ScanStarts
  <2>2. at = from
    BY <1>1
  <2>3. LineStart(h, from) = from
    <3>1. Newlines(h, from, from) = {} /\ from \in 0 .. from
      BY <1>1 DEF Newlines
    <3> QED BY <1>1, <3>1, LineStartUnique
  <2> QED BY <2>1, <2>2, <2>3
<1>6. \A i \in DOMAIN lines : Regular(Split(h, lines[i]), rule)
  BY DEF LinesOf
<1>7. Read(parsed, rule) = LineRows(h, lines, rule)
  <2> DEFINE rows == RowScan(h, to, places)[from][RowBatch]
  <2>1. Len(rows) < RowBatch
    BY <1>3, <1>5
  <2>2. Read(rows, rule) = LineRows(h, lines, rule)
    BY <1>1, <1>6, <2>1, ScanReadsLines, ZenonT(60)
  <2> QED BY <1>5, <2>2
<1>8. FastRows(h, span, rule) = <<LineRows(h, lines, rule)>>
  <2>1. FastRows(h, span, rule) = NoInfiniteInt(Read(parsed, rule), rule)
    <3> HIDE DEF parsed
    <3> QED BY <1>4 DEF FastRows, Read
  <2>2. lines \in Seq(LinesOfText(h))
    BY <1>1, LinesInWindow
  <2> HIDE DEF parsed, lines
  <2>3. NoInfiniteInt(LineRows(h, lines, rule), rule) = <<LineRows(h, lines, rule)>>
    BY <1>6, <2>2, NoInfinityIsRead
  <2> QED BY <1>7, <2>1, <2>3
<1>9. SlowRows(h, span, rule) = <<LineRows(h, lines, rule)>>
  <2>1. SplitLines(h, span) \in Seq(FieldLists(h))
    BY <1>1, LinesAreSplit
  <2>2. SplitLines(h, span) = SplitEach(h, lines)
    BY DEF SplitLines, LinesOf
  <2>3. \A fields \in FieldLists(h) : Len(fields) \in Nat /\ DOMAIN fields = 1 .. Len(fields)
    BY LinesAreLists
  <2> HIDE DEF lines
  <2>4. RowsOf(SplitLines(h, span), rule) = <<FlattenSeq(RowsOfAll(SplitLines(h, span), rule))>>
    BY <1>2, <2>1, <2>3, RowsAreMade
  <2> QED BY <2>2, <2>4 DEF SlowRows, LineRows
<1> QED BY <1>8, <1>9

(* So it is for every rule that goes to C, in every regular block.         *)
LEMMA RegularBlockAgrees ==
  ASSUME TextInv, ~Unread, q.block # << >>, Bulk(q.parse), Upward, Narrow,
         NEW at \in 0 .. Len(text), RegularBlock(at)
  PROVE  FastRows(text, BlockAtHit(at), q.parse) = SlowRows(text, BlockAtHit(at), q.parse)
<1> DEFINE block == q.block[1]
           until == Until(block)
           max == MaxLines(text, block)
           span == BlockAtHit(at)
<1>1. IsText(text) /\ Len(text) \in Nat
  BY TextsHaveNewlines DEF TextInv, IsText
<1>2. TypedParse(q.parse) /\ TypedBlock(block)
  BY LoadedIsTyped DEF TypedQuantity
<1>3. GivenToC(q.parse)
  BY <1>2 DEF GivenToC, Upward, ColumnsUpward, Narrow
<1>4. block.skip \in Int /\ max \in Int
  BY <1>1, <1>2 DEF TypedBlock, MaxLines
<1>5. Opens(AdvanceLines(text, at, block.skip), until, max)
  BY DEF RegularBlock, ReadFrom
<1>6. span = BlockSpan(text, at, block.skip, until, max)
  BY DEF BlockAtHit, SpanOf
<1>7. /\ \A i \in DOMAIN SplitLines(text, span) : Regular(SplitLines(text, span)[i], q.parse)
      /\ FewRows(span, q.parse)
  BY DEF RegularBlock
<1> HIDE DEF block, until, max, span
<1>8. /\ span[1] \in 0 .. Len(text) /\ StartsLine(text, span[1]) /\ text # << >>
      /\ span[2] \in span[1] .. Len(text)
      /\ \E s \in 0 .. Len(text) : StartsLine(text, s) /\ span[2] = LineEnd(text, s)
  BY <1>1, <1>4, <1>5, <1>6, OpenedEndsWithLine
<1>9. PICK s \in 0 .. Len(text) : StartsLine(text, s) /\ span[2] = LineEnd(text, s)
  BY <1>8
<1>10. span[1] \in 0 .. LineEnd(text, s)
  BY <1>1, <1>8, <1>9
<1>11. \A i \in DOMAIN LinesOf(text, span) : Regular(Split(text, LinesOf(text, span)[i]), q.parse)
  BY <1>7 DEF SplitLines, SplitEach
<1>12. Len(TolkScanColumns(text, span[1], span[2], Places(q.parse), RowBatch)) < RowBatch
  BY <1>7 DEF FewRows
<1>13. FastRows(text, span, q.parse) = SlowRows(text, span, q.parse)
  BY <1>1, <1>3, <1>8, <1>9, <1>10, <1>11, <1>12, FastIsSlow
<1> QED BY <1>13 DEF span

(* On every regular block, wherever it begins, the bulk parser gives the   *)
(* rows that splitting in Python gives (extract.py _fast_rows and          *)
(* _slow_rows, csrc/tolk.c).                                               *)
THEOREM BulkParserAgrees == Spec => []FastRowsMatchSlow
<1>1. TextInv => FastRowsMatchSlow
  BY RegularBlockAgrees DEF FastRowsMatchSlow
<1> QED BY <1>1, TextInvariant, PTL

-----------------------------------------------------------------------------
(* The same quantity, but for which of its occurrences it reads.           *)
Turned(i) == [q EXCEPT !.occurrence = Toml("int", i)]
RegularIn(compiled) == InBulk(compiled) => Narrow /\ \A i \in DOMAIN Hits : RegularBlock(Hits[i])

(* Turned to a hit, the quantity is no longer repeated, is found at that   *)
(* hit, and is parsed as before.                                           *)
LEMMA OccurrenceInTurn ==
  ASSUME TextInv, ~Unread, Repeats(q), NEW i \in DOMAIN Hits
  PROVE  /\ ~Repeats(Turned(i - 1)) /\ AnchorOffset(text, Turned(i - 1)) = Hits[i]
         /\ Hits[i] \in 0 .. Len(text) /\ Hits[i] # NotFound
         /\ Turned(i - 1).parse = q.parse /\ Turned(i - 1).block = q.block
<1>1. /\ DOMAIN q = {"anchor", "occurrence", "block", "parse"}
      /\ q.anchor # << >>
  BY LoadedIsValid DEF ValidQuantity, Readable, QuantityOf, Toml
<1>2. /\ Turned(i - 1).occurrence = Toml("int", i - 1) /\ Turned(i - 1).anchor = q.anchor
      /\ Turned(i - 1).parse = q.parse /\ Turned(i - 1).block = q.block
  BY <1>1 DEF Turned
<1>3. Hits \in Seq(0 .. Len(text))
  BY AnchorIsThere
<1>4. Hits[i] \in 0 .. Len(text) /\ i \in Nat /\ i >= 1 /\ Len(text) \in Nat
  BY <1>3 DEF TextInv
<1>5. ~Repeats(Turned(i - 1)) /\ Nth(Turned(i - 1)) = i - 1
  BY <1>2 DEF Repeats, Nth, Toml, AsInt
<1>6. FindNth(text, q.anchor, i - 1, 0, Len(text)) = Hits[i]
  BY <1>4 DEF FindNth, Hits
<1> QED BY <1>1, <1>2, <1>4, <1>5, <1>6 DEF AnchorOffset, NotFound

(* A scalar: what is on the line of the anchor is an item of all.          *)
LEMMA ScalarInTurn ==
  ASSUME TextInv, ~Unread, Repeats(q), Scalar, q.block = << >>, ~q.parse.wholeLine,
         NEW i \in DOMAIN Hits, NEW compiled \in BOOLEAN
  PROVE  Parts(InTurn(i - 1, compiled), i - 1) = ItemOf(Split(text, LineSpan(text, Hits[i])), q.parse)
<1> DEFINE one == Turned(i - 1)
           fields == Split(text, LineSpan(text, Hits[i]))
           texts == IF q.parse.field = << >> THEN << >> ELSE Field(fields, q.parse.field[1])
           value == Convert(texts[1], q.parse.type, q.parse.strip)
<1>1. /\ ~Repeats(one) /\ AnchorOffset(text, one) = Hits[i] /\ Hits[i] # NotFound
      /\ one.parse = q.parse /\ one.block = q.block
  BY OccurrenceInTurn
<1>2. InTurn(i - 1, compiled) = ExtractQuantity(text, one, compiled)
  BY DEF InTurn, Of, Turned
<1> HIDE DEF one
<1>3. InTurn(i - 1, compiled) = ScalarValue(text, one, Hits[i])
  BY <1>1, <1>2 DEF ExtractQuantity, ValueAt, Scalar
<1>4. InTurn(i - 1, compiled) = ValueOf(Texts(text, one, LineSpan(text, Hits[i])), q.parse, Hits[i])
  BY <1>1, <1>3 DEF ScalarValue, ReadFrom
<1>5. Texts(text, one, LineSpan(text, Hits[i])) = texts
  BY <1>1 DEF Texts
<1>6. ItemOf(fields, q.parse) = IF texts = << >> THEN << >> ELSE value
  BY DEF ItemOf
<1>7. q.parse.type \in ScalarTypes
  BY LoadedIsTyped DEF TypedQuantity, TypedParse
<1> HIDE DEF fields, texts
<1>8. value # << >> => value = <<value[1]>>
  BY <1>7, ConvertsToOne
<1> HIDE DEF value
<1>9. InTurn(i - 1, compiled) = IF texts = << >> THEN Missing(IF q.parse.field = << >> THEN "rule" ELSE "field")
                      ELSE IF value = << >> THEN Missing("number") ELSE Present(value[1], Hits[i])
  BY <1>4, <1>5 DEF ValueOf, Converted, value
<1> QED BY <1>6, <1>8, <1>9 DEF Parts, IsPresent, Missing, Present, fields

(* A block: the rows below the anchor are those of all, with its number.   *)
LEMMA BlockInTurn ==
  ASSUME TextInv, ~Unread, Upward, Repeats(q), ~Scalar, q.block # << >>, NEW i \in DOMAIN Hits,
         NEW compiled \in BOOLEAN, RegularIn(compiled)
  PROVE  \E rows : /\ BlockRows(text, q, Hits[i], compiled) = <<rows>>
                   /\ Parts(InTurn(i - 1, compiled), i - 1) = [k \in DOMAIN rows |-> Stepped(rows[k], i - 1)]
<1> DEFINE one == Turned(i - 1)
           span == SpanOf(text, Hits[i], q.block[1])
           lines == SplitLines(text, span)
<1>1. /\ ~Repeats(one) /\ AnchorOffset(text, one) = Hits[i] /\ Hits[i] # NotFound
      /\ one.parse = q.parse /\ one.block = q.block /\ Hits[i] \in 0 .. Len(text)
  BY OccurrenceInTurn
<1>2. InTurn(i - 1, compiled) = ExtractQuantity(text, one, compiled)
  BY DEF InTurn, Of, Turned
<1> HIDE DEF one
<1>3. InTurn(i - 1, compiled) = PresentOr(RowsOf(Filled(lines), q.parse), Hits[i], "rows")
  BY <1>1, <1>2 DEF ExtractQuantity, ValueAt, Scalar, TableValue
<1>4. TypedParse(q.parse) /\ ColumnsUpward(q.parse) /\ TypedBlock(q.block[1])
  BY LoadedIsTyped DEF TypedQuantity, Upward, ColumnsUpward
<1>5. IsText(text)
  BY DEF TextInv, IsText
<1>6. BlockRows(text, q, Hits[i], compiled) = SlowRows(text, span, q.parse)
  <2>1. BlockRows(text, q, Hits[i], compiled)
          = IF compiled /\ Bulk(q.parse) THEN FastRows(text, span, q.parse)
            ELSE SlowRows(text, span, q.parse)
    BY DEF BlockRows, RowsIn
  <2>2. CASE compiled /\ Bulk(q.parse)
    <3>1. Narrow /\ RegularBlock(Hits[i])
      BY <2>2 DEF RegularIn, InBulk
    <3>2. FastRows(text, BlockAtHit(Hits[i]), q.parse) = SlowRows(text, BlockAtHit(Hits[i]), q.parse)
      BY <1>1, <2>2, <3>1, RegularBlockAgrees
    <3> QED BY <2>1, <2>2, <3>2 DEF BlockAtHit
  <2> QED BY <2>1, <2>2
<1>7. PICK rows : SlowRows(text, span, q.parse) = <<rows>> /\ RowsOf(Filled(lines), q.parse) = <<rows>>
  BY <1>1, <1>4, <1>5, RowsOfBlock
<1> HIDE DEF span, lines
<1>8. InTurn(i - 1, compiled) = IF rows = << >> THEN Missing("rows") ELSE Present(rows, Hits[i])
  BY <1>3, <1>7, OneOrNone
<1>9. Parts(InTurn(i - 1, compiled), i - 1) = [k \in DOMAIN rows |-> Stepped(rows[k], i - 1)]
  BY <1>8, KindsOfValue DEF Parts, IsPresent, Scalar
<1> QED BY <1>6, <1>7, <1>9

(* Rows that are there are all the items, or there are none.               *)
LEMMA PresentAreAll ==
  ASSUME NEW items, NEW at, NEW why
  PROVE  AreAll(PresentOr(<<items>>, at, why), items)
BY OneOrNone, KindsOfValue DEF AreAll, IsPresent

(* Reading all occurrences gives what reading each of them in turn gives,  *)
(* one list behind the other: none where an occurrence has none, and no    *)
(* occurrence twice.                                                       *)
LEMMA AllInTurn ==
  ASSUME TextInv, ~Unread, Repeats(q), Upward, Scalar <=> q.block = << >>,
         Scalar => ~q.parse.wholeLine, NEW compiled \in BOOLEAN, RegularIn(compiled)
  PROVE  AreAll(Of(q, compiled), FlattenSeq([i \in DOMAIN Hits |-> Parts(InTurn(i - 1, compiled), i - 1)]))
<1> DEFINE each == [i \in DOMAIN Hits |-> Parts(InTurn(i - 1, compiled), i - 1)]
<1>1. CASE Hits = << >>
  <2>1. Of(q, compiled) = Missing("anchor")
    BY <1>1 DEF Of, ExtractQuantity, RepeatedValue, Hits
  <2>2. each = << >>
    BY <1>1
  <2>3. FlattenSeq(<< >>) = << >>
    BY DEF FlattenSeq
  <2> HIDE DEF each
  <2>4. AreAll(Missing("anchor"), << >>)
    BY DEF AreAll, IsPresent, Missing
  <2>5. FlattenSeq(each) = << >>
    BY <2>2, <2>3
  <2> QED BY <2>1, <2>4, <2>5 DEF each
<1>2. CASE Hits # << >> /\ Scalar
  <2> DEFINE lines == [i \in DOMAIN Hits |-> Split(text, LineSpan(text, Hits[i]))]
             items == [i \in DOMAIN lines |-> ItemOf(lines[i], q.parse)]
  <2>1. Of(q, compiled) = PresentOr(<<FlattenSeq(items)>>, Hits[1], "nothing")
    BY <1>2 DEF Of, ExtractQuantity, RepeatedValue, RepeatedLines, ItemsOf, Hits, Scalar
  <2>2. \A i \in DOMAIN Hits : Parts(InTurn(i - 1, compiled), i - 1) = items[i]
    BY <1>2, ScalarInTurn
  <2>3. each = items
    BY <2>2
  <2> HIDE DEF each, items
  <2> QED BY <2>1, <2>3, PresentAreAll DEF each
<1>3. CASE Hits # << >> /\ ~Scalar
  <2> DEFINE blocks == [i \in DOMAIN Hits |-> BlockRows(text, q, Hits[i], compiled)]
             rows == [i \in DOMAIN blocks |->
                        [k \in DOMAIN blocks[i][1] |-> Stepped(blocks[i][1][k], i - 1)]]
  <2>1. Of(q, compiled) = PresentOr(StepThrough(blocks), Hits[1], "rows")
    BY <1>3 DEF Of, ExtractQuantity, RepeatedValue, RepeatedBlocks, Hits, Scalar
  <2>2. ASSUME NEW i \in DOMAIN Hits
        PROVE  blocks[i] # << >> /\ Parts(InTurn(i - 1, compiled), i - 1) = rows[i]
    <3>1. PICK made : /\ BlockRows(text, q, Hits[i], compiled) = <<made>>
                      /\ Parts(InTurn(i - 1, compiled), i - 1) = [k \in DOMAIN made |-> Stepped(made[k], i - 1)]
      BY <1>3, BlockInTurn
    <3>2. blocks[i] = <<made>> /\ i \in DOMAIN blocks
      BY <3>1
    <3> HIDE DEF blocks
    <3> QED BY <3>1, <3>2
  <2>3. StepThrough(blocks) = <<FlattenSeq(rows)>>
    <3>1. \A i \in DOMAIN blocks : blocks[i] # << >>
      BY <2>2
    <3> HIDE DEF blocks
    <3> QED BY <3>1 DEF StepThrough
  <2>4. each = rows
    BY <2>2
  <2> HIDE DEF each, rows, blocks
  <2> QED BY <2>1, <2>3, <2>4, PresentAreAll DEF each
<1> QED BY <1>1, <1>2, <1>3

(* occurrence = "all" reads what occurrence = 0, 1, 2 ... would read, each *)
(* in its turn and none twice, also where C parses the blocks of "all",    *)
(* which are regular then, and Python those of a single occurrence         *)
(* (extract.py:131-138, 246, 325).                                         *)
THEOREM AllReadsEachInTurn == Spec => []AllIsEachInTurn
<1>1. TextInv => AllIsEachInTurn
  BY AllInTurn DEF AllIsEachInTurn, RegularIn
<1> QED BY <1>1, TextInvariant, PTL

-----------------------------------------------------------------------------
(* Nothing, however often, is nothing.                                     *)
LEMMA FlattenNothing ==
  ASSUME NEW n \in Nat
  PROVE  FlattenSeq([i \in 1 .. n |-> << >>]) = << >>
<1> DEFINE lists == [i \in 1 .. n |-> << >>]
           none == FlattenSeq(lists)
<1>1. lists \in Seq(Seq({}))
  OBVIOUS
<1> HIDE DEF lists
<1>2. none \in Seq({})
  BY <1>1, FlattenIsList
<1> HIDE DEF none
<1>3. none = << >>
  BY <1>2
<1> QED BY <1>3 DEF none, lists

(* Without columns lines make no rows.                                     *)
LEMMA NoColumnsNoRows ==
  ASSUME NEW rule, DOMAIN rule.columns = {}, NEW L, NEW lines \in Seq(L)
  PROVE  RowsOf(lines, rule) = <<<< >>>>
<1>1. \A fields : Row(fields, rule) = << >> /\ ~RowRaises(fields, rule)
  BY DEF Row, Legible, RowRaises
<1>2. [i \in DOMAIN lines |-> Row(lines[i], rule)] = [i \in 1 .. Len(lines) |-> << >>]
  <2>1. DOMAIN lines = 1 .. Len(lines)
    OBVIOUS
  <2> QED BY <1>1, <2>1
<1>3. FlattenSeq([i \in 1 .. Len(lines) |-> << >>]) = << >>
  BY FlattenNothing
<1> QED BY <1>1, <1>2, <1>3 DEF RowsOf

(* Nor does C make any.                                                    *)
LEMMA NoColumnsToScan ==
  ASSUME NEW h, IsText(h), NEW from \in Nat, NEW to \in 0 .. Len(h)
  PROVE  ScanColumns(h, from, to, << >>) = << >>
<1> DEFINE w == RowScan(h, to, << >>)
           D == Nat
           rank == [p \in D |-> IF p > to THEN 0 ELSE to - p + 1]
           good == {p \in Nat : \A left \in Nat : w[p][left] = << >>}
<1>1. Len(h) \in Nat /\ to \in Nat /\ RowBatch \in Nat /\ RowBatch > 0
  BY TextsHaveNewlines, CEngineAssumption
<1>2. \A p \in Nat : RowAt(h, p, to, << >>) = << >>
  BY DEF RowAt, RowOf
<1>3. ASSUME NEW p \in Nat, NEW left \in Nat
      PROVE  w[p][left] = IF p > to \/ left = 0 THEN << >>
                          ELSE << >> \o w[PastRow(h, p, to)][left - Len(<< >>)]
  <2>1. w[p][left] = IF p > to \/ left = 0 THEN << >>
                     ELSE RowAt(h, p, to, << >>)
                            \o w[PastRow(h, p, to)][left - Len(RowAt(h, p, to, << >>))]
    BY ScanUnfolds
  <2> HIDE DEF w
  <2> QED BY <1>2, <2>1
<1> HIDE DEF w
<1>4. ASSUME NEW p \in D, \A r \in D : rank[r] < rank[p] => r \in good
      PROVE  p \in good
  <2> SUFFICES ASSUME NEW left \in Nat PROVE w[p][left] = << >>
    OBVIOUS
  <2>1. CASE p > to \/ left = 0
    BY <1>3, <2>1
  <2>2. CASE ~(p > to \/ left = 0)
    <3> DEFINE past == PastRow(h, p, to)
    <3>1. past \in p + 1 .. Len(h) + 1
      <4>1. p \in 0 .. to
        BY <1>1, <2>2
      <4> QED BY <4>1, RowEndsInLine
    <3>2. w[p][left] = << >> \o w[past][left - Len(<< >>)]
      BY <1>3, <2>2
    <3> HIDE DEF past
    <3>3. past \in Nat /\ rank[past] < rank[p]
      BY <1>1, <2>2, <3>1
    <3>4. left - Len(<< >>) = left
      OBVIOUS
    <3>5. w[past][left] = << >>
      BY <1>4, <3>3
    <3> QED BY <3>2, <3>4, <3>5
  <2> QED BY <2>1, <2>2
<1>5. rank \in [D -> Nat]
  BY <1>1
<1> HIDE DEF good, rank, D
<1>6. D \subseteq good
  BY <1>4, <1>5, RankInduction
<1> DEFINE at == IF from < to THEN from ELSE to
           out == TolkScanColumns(h, from, to, << >>, RowBatch)
<1>7. out = w[LineStart(h, at)][RowBatch] /\ at \in 0 .. to /\ LineStart(h, at) \in 0 .. at
  BY ScanStarts DEF w
<1>8. LineStart(h, at) \in Nat
  BY <1>7
<1> HIDE DEF at, out
<1>9. out = << >>
  BY <1>1, <1>6, <1>7, <1>8 DEF good, D
<1>10. Len(out) < RowBatch
  BY <1>1, <1>9
<1>11. ScanColumns(h, from, to, << >>) = out
  BY <1>10, OneBatch DEF out
<1> QED BY <1>9, <1>11

(* So a block has no rows, whoever parses it.                              *)
LEMMA NoColumnsInBlock ==
  ASSUME NEW h, IsText(h), NEW rule, DOMAIN rule.columns = {}, NEW compiled \in BOOLEAN,
         NEW span, span[1] \in 0 .. Len(h), span[2] \in 0 .. Len(h)
  PROVE  RowsIn(h, span, rule, compiled) = <<<< >>>>
<1>1. SlowRows(h, span, rule) = <<<< >>>>
  <2>1. SplitLines(h, span) \in Seq(FieldLists(h))
    BY LinesAreSplit
  <2> QED BY <2>1, NoColumnsNoRows DEF SlowRows
<1>2. FastRows(h, span, rule) = <<<< >>>>
  <2>1. Places(rule) = << >>
    <3>1. IsFiniteSet({})
      BY FS_EmptySet
    <3>2. PICK n \in Nat : DOMAIN SetToSeq({}) = 1 .. n /\ (n = 0 <=> {} = {})
      BY <3>1, NamesAreAll
    <3>3. DOMAIN Names(rule) = {}
      BY <3>2 DEF Names
    <3> QED BY <3>3 DEF Places
  <2>2. span[1] \in Nat
    BY TextsHaveNewlines
  <2>3. ScanColumns(h, span[1], span[2], Places(rule)) = << >>
    BY <2>1, <2>2, NoColumnsToScan
  <2>4. Named(<< >>, rule) = << >> /\ DOMAIN << >> = {}
    BY DEF Named
  <2>5. LegibleOf(<< >>) = << >>
    <3>1. FlattenSeq(<< >>) = << >>
      BY DEF FlattenSeq
    <3>2. [i \in DOMAIN << >> |-> IF Legible(<< >>[i]) THEN <<<< >>[i]>> ELSE << >>] = << >>
      OBVIOUS
    <3> QED BY <3>1, <3>2 DEF LegibleOf
  <2>6. NoInfiniteInt(<< >>, rule) = <<<< >>>>
    BY <2>4 DEF NoInfiniteInt
  <2> QED BY <2>3, <2>4, <2>5, <2>6 DEF FastRows
<1> QED BY <1>1, <1>2 DEF RowsIn

(* Blocks without rows make no table.                                      *)
LEMMA EmptyBlocks ==
  ASSUME NEW n \in Nat, NEW blocks, blocks = [i \in 1 .. n |-> <<<< >>>>]
  PROVE  StepThrough(blocks) = <<<< >>>>
<1> DEFINE rows == [i \in DOMAIN blocks |->
                      [k \in DOMAIN blocks[i][1] |-> Stepped(blocks[i][1][k], i - 1)]]
<1>1. DOMAIN blocks = 1 .. n /\ \A i \in 1 .. n : blocks[i] = <<<< >>>> /\ blocks[i][1] = << >>
  OBVIOUS
<1>2. \A i \in DOMAIN blocks : blocks[i] # << >>
  BY <1>1
<1>3. StepThrough(blocks) = <<FlattenSeq(rows)>>
  BY <1>2 DEF StepThrough
<1>4. rows = [i \in 1 .. n |-> << >>]
  <2>1. \A i \in 1 .. n : [k \in DOMAIN blocks[i][1] |-> Stepped(blocks[i][1][k], i - 1)] = << >>
    BY <1>1
  <2> QED BY <1>1, <2>1
<1> HIDE DEF rows
<1>5. FlattenSeq(rows) = << >>
  BY <1>4, FlattenNothing
<1> QED BY <1>3, <1>5

(* What has nothing to read reads nothing, of whatever text.               *)
LEMMA BarrenIsMissing ==
  ASSUME TextInv, ~Unread, Barren(q), NEW compiled \in BOOLEAN
  PROVE  ~IsPresent(Of(q, compiled))
<1> DEFINE at == AnchorOffset(text, q)
           rule == q.parse
<1>1. IsText(text) /\ Len(text) \in Nat
  BY DEF TextInv, IsText
<1>2. TypedParse(rule) /\ (q.block # << >> => TypedBlock(q.block[1]))
  BY LoadedIsTyped DEF TypedQuantity
<1>3. /\ at # NotFound => at \in 0 .. Len(text)
      /\ Repeats(q) => Hits \in Seq(0 .. Len(text))
  BY AnchorIsThere
<1>4. \A why : ~IsPresent(Missing(why))
  BY KindsOfValue DEF IsPresent
<1>5. \A offset, why : ~IsPresent(PresentOr(<<<< >>>>, offset, why))
  BY <1>4, OneOrNone
<1>6. ReadsTable(rule) => DOMAIN rule.columns = {} /\ ColumnsUpward(rule)
  BY DEF Barren, ColumnsUpward
<1>7. CASE Repeats(q) /\ Hits = << >>
  BY <1>4, <1>7 DEF Of, ExtractQuantity, RepeatedValue, Hits
<1>8. CASE Repeats(q) /\ Hits # << >> /\ q.block # << >> /\ ReadsTable(rule)
  <2> DEFINE blocks == [i \in DOMAIN Hits |-> BlockRows(text, q, Hits[i], compiled)]
  <2>1. Of(q, compiled) = PresentOr(StepThrough(blocks), Hits[1], "rows")
    BY <1>8 DEF Of, ExtractQuantity, RepeatedValue, RepeatedBlocks, Hits
  <2>2. DOMAIN Hits = 1 .. Len(Hits) /\ Len(Hits) \in Nat
    BY <1>3, <1>8
  <2>3. ASSUME NEW i \in DOMAIN Hits PROVE BlockRows(text, q, Hits[i], compiled) = <<<< >>>>
    <3> DEFINE span == SpanOf(text, Hits[i], q.block[1])
    <3>1. Hits[i] \in 0 .. Len(text)
      BY <1>3, <1>8
    <3>2. span[1] \in 0 .. Len(text) /\ span[2] \in 0 .. Len(text)
      BY <1>1, <1>2, <1>8, <3>1, SpanLiesInText
    <3> HIDE DEF span
    <3>3. RowsIn(text, span, rule, compiled) = <<<< >>>>
      BY <1>1, <1>6, <1>8, <3>2, NoColumnsInBlock
    <3> QED BY <3>3 DEF BlockRows, span
  <2>4. blocks = [i \in 1 .. Len(Hits) |-> <<<< >>>>]
    BY <2>2, <2>3
  <2> HIDE DEF blocks
  <2>5. StepThrough(blocks) = <<<< >>>>
    BY <2>2, <2>4, EmptyBlocks
  <2> QED BY <1>5, <2>1, <2>5
<1>9. CASE Repeats(q) /\ Hits # << >> /\ ~(q.block # << >> /\ ReadsTable(rule))
  <2> DEFINE lines == [i \in DOMAIN Hits |-> Split(text, LineSpan(text, Hits[i]))]
             L == {Split(text, LineSpan(text, o)) : o \in 0 .. Len(text)}
             items == [i \in DOMAIN lines |-> ItemOf(lines[i], rule)]
  <2>1. Of(q, compiled) = PresentOr(ItemsOf(lines, rule), Hits[1], "nothing")
    BY <1>9 DEF Of, ExtractQuantity, RepeatedValue, RepeatedLines, Hits
  <2>2. lines \in Seq(L)
    BY <1>1, <1>3, <1>9, LinesOfHits
  <2> HIDE DEF lines, L
  <2>3. CASE ReadsTable(rule)
    <3>1. ItemsOf(lines, rule) = RowsOf(lines, rule)
      BY <2>3 DEF ItemsOf
    <3>2. RowsOf(lines, rule) = <<<< >>>>
      BY <1>6, <2>2, <2>3, NoColumnsNoRows
    <3> QED BY <1>5, <2>1, <3>1, <3>2
  <2>4. CASE ~ReadsTable(rule)
    <3>1. ItemsOf(lines, rule) = <<FlattenSeq(items)>>
      BY <2>4 DEF ItemsOf
    <3>2. \A fields : ItemOf(fields, rule) = << >>
      BY <2>4 DEF Barren, ItemOf
    <3>3. DOMAIN lines = 1 .. Len(lines) /\ Len(lines) \in Nat
      BY <2>2
    <3>4. items = [i \in 1 .. Len(lines) |-> << >>]
      BY <3>2, <3>3
    <3> HIDE DEF items
    <3>5. FlattenSeq(items) = << >>
      BY <3>3, <3>4, FlattenNothing
    <3> QED BY <1>5, <2>1, <3>1, <3>5
  <2> QED BY <2>3, <2>4
<1>10. CASE ~Repeats(q)
  <2>1. ReadsTable(rule)
    BY <1>10 DEF Barren
  <2>2. Of(q, compiled) = IF at = NotFound THEN Missing("anchor") ELSE TableValue(text, q, at)
    BY <1>10, <2>1 DEF Of, ExtractQuantity, ValueAt
  <2> HIDE DEF at
  <2>3. ASSUME at # NotFound, q.block # << >> PROVE ~IsPresent(TableValue(text, q, at))
    <3> DEFINE span == SpanOf(text, at, q.block[1])
               lines == SplitLines(text, span)
    <3>1. span[1] \in 0 .. Len(text) /\ span[2] \in 0 .. Len(text)
      BY <1>1, <1>2, <1>3, <2>3, SpanLiesInText
    <3> HIDE DEF span
    <3>2. lines \in Seq(FieldLists(text))
      BY <1>1, <3>1, LinesAreSplit
    <3> HIDE DEF lines
    <3>3. Row(<< >>, rule) = << >>
      BY <1>2, <1>6, <2>1, NoRowRaises
    <3>4. Filled(lines) \in Seq(FieldLists(text))
      BY <3>2, <3>3, FilledMakeTheRows
    <3>5. RowsOf(Filled(lines), rule) = <<<< >>>>
      BY <1>6, <2>1, <3>4, NoColumnsNoRows
    <3>6. TableValue(text, q, at) = PresentOr(RowsOf(Filled(lines), rule), at, "rows")
      BY <2>3 DEF TableValue, lines, span
    <3> QED BY <1>5, <3>5, <3>6
  <2>4. q.block = << >> => TableValue(text, q, at) = Missing("rule")
    BY DEF TableValue
  <2> QED BY <1>4, <2>2, <2>3, <2>4
<1> QED BY <1>7, <1>8, <1>9, <1>10

(* A table without columns, and every occurrence of a line of which no     *)
(* field is named, are accepted when a spec is loaded and read nothing of  *)
(* any text, whichever engine there is (extract.py:131-172, 245-260).      *)
THEOREM WhatIsBarrenReadsNothing == Spec => []BarrenReadsNothing
<1>1. TextInv => BarrenReadsNothing
  BY BarrenIsMissing DEF BarrenReadsNothing
<1> QED BY <1>1, TextInvariant, PTL
=============================================================================
