----------------------------- MODULE GrowingText -----------------------------
(***************************************************************************)
(* A file that a program writes and tolk reads: character by character     *)
(* while only the engine looks at it, and once a spec is loaded by as much *)
(* as the program writes at a time.  What the engine answers on every such *)
(* text is stated here, what a spec reads out of it in Reading.            *)
(***************************************************************************)
EXTENDS Explain

CONSTANTS
  Alphabet,      \* the characters a program writes
  MaxLength,     \* bound: length of a text written by characters
  Needles,       \* the anchors looked for
  Tables,        \* the column lists asked for
  Documents,     \* the bodies of a [quantity] that a spec file may have
  Writes,        \* what a program writes at a time
  Samples,       \* texts that have something of everything
  MaxText        \* bound: length of a text written by writes

ASSUME TextAssumption ==
  /\ MaxLength \in Nat /\ MaxText \in Nat
  /\ Needles \subseteq Seq(Alphabet) \ {<< >>}
  /\ Writes \subseteq Seq(STRING)

(* What tomllib makes of a file: whole numbers, strings of characters, and *)
(* tables with finitely many keys, as deep as the loader looks.            *)
IsToml(v) ==
  /\ v.is = "int" => v.v \in Int
  /\ v.is = "bool" => v.v \in BOOLEAN
  /\ v.is = "string" => v.v \in Seq(STRING)
  /\ v.is = "table" => IsFiniteSet(DOMAIN v.v)
Inside(v) == IF v.is = "table" THEN {v.v[key] : key \in DOMAIN v.v} ELSE {}
ASSUME DocumentsAssumption ==
  \A body \in Documents : \A v \in Inside(Toml("table", body)) :
    IsToml(v) /\ \A w \in Inside(v) : IsToml(w) /\ \A x \in Inside(w) : IsToml(x)

VARIABLES
  text,
  loaded         \* the quantity of the spec in a sequence of one, or none

vars == <<text, loaded>>
Unread == loaded = << >>

Init == text = << >> /\ loaded = << >>

(* load: a spec whose quantity is refused is not there.                    *)
SpecOf(body) ==
  Loads([format |-> Toml("string", <<"f">>),
         quantity |-> Toml("table", [q |-> Toml("table", body)])])
Load(body) ==
  /\ text = << >> /\ Unread
  /\ SpecOf(body).error = "none"
  /\ loaded' = <<SpecOf(body).quantities.q>>
  /\ UNCHANGED text

WriteCharacter(c) ==
  /\ Unread
  /\ Len(text) < MaxLength
  /\ text' = Append(text, c)
  /\ UNCHANGED loaded
Write(w) ==
  /\ ~Unread
  /\ Len(text) + Len(w) <= MaxText
  /\ text' = text \o w
  /\ UNCHANGED loaded

Next ==
  \/ \E body \in Documents : Load(body)
  \/ \E c \in Alphabet : WriteCharacter(c)
  \/ \E w \in Writes : Write(w)
Spec == Init /\ [][Next]_vars

-----------------------------------------------------------------------------
(* The text is made of characters, and what is loaded has been through the *)
(* loader.  TextProofs shows that this is inductive.                       *)
TextInv ==
  /\ text \in Seq(Alphabet \union STRING)
  /\ Unread => text \in Seq(Alphabet)
  /\ ~Unread => \E body \in Documents :
       SpecOf(body).error = "none" /\ loaded = <<SpecOf(body).quantities.q>>

-----------------------------------------------------------------------------
Window == {r \in (0 .. Len(text)) \X (0 .. Len(text)) : r[1] <= r[2]}

(* A block as a spec asks for it: where, and what ends it.                 *)
Ask == [offset: 0 .. Len(text), skip: {0, 1}, until: {NoUntil, Blank, << >>} \union Needles,
        maxLines: {0, 1, MaxLength + 1}]
From(a) == AdvanceLines(text, a.offset, a.skip)
Block(a) == BlockSpan(text, a.offset, a.skip, a.until, a.maxLines)
LinesIn(span) == LineSpans(text, span[1], span[2])
Below(a) == LineSpans(text, From(a), Len(text))

(* A block has a line: it may have one, and the first does not already end *)
(* it.                                                                     *)
Opens(from, until, maxLines) ==
  /\ from < Len(text) /\ maxLines >= 1
  /\ ~Stops(text, LineSpans(text, from, Len(text))[1], until)
Opened(a) == Opens(From(a), a.until, a.maxLines)

-----------------------------------------------------------------------------
(* The compiled functions answer what the Python ones do, batched or not,  *)
(* for every window and offset (_engine.py:277-282).                       *)
BackendsAgree ==
  Unread =>
  /\ \A n \in Needles, r \in Window :
       /\ TolkFind(text, n, r[1], r[2]) = Find(text, n, r[1], r[2])
       /\ TolkRfind(text, n, r[1], r[2]) = Rfind(text, n, r[1], r[2])
       /\ TolkCount(text, n, r[1], r[2]) = Count(text, n, r[1], r[2])
       /\ FindAll(text, n, r[1], r[2]) = IterFind(text, n, r[1], r[2])
       /\ \A k \in -3 .. 2 : TolkFindNth(text, n, k, r[1], r[2]) = FindNth(text, n, k, r[1], r[2])
  /\ \A o \in 0 .. Len(text) + 1 :
       /\ TolkLineStart(text, o) = LineStart(text, o)
       /\ TolkLineEnd(text, o) = LineEnd(text, o)
       /\ TolkLineNumber(text, o) = LineNumber(text, o)
       /\ \A k \in -2 .. 2 : TolkAdvanceLines(text, o, k) = AdvanceLines(text, o, k)

(* A forward walk yields matches that do not overlap, and leaves out a     *)
(* match only because one that starts before it overlaps it                *)
(* (_engine.py:45-49).                                                     *)
HitsAreGreedy ==
  Unread => \A n \in Needles, r \in Window :
    LET hits == IterFind(text, n, r[1], r[2])
        all == Occurrences(text, n, r[1], r[2])
    IN /\ ToSet(hits) \subseteq all
       /\ \A i, j \in DOMAIN hits : i < j => hits[i] + Len(n) <= hits[j]
       /\ \A o \in all : \E i \in DOMAIN hits : hits[i] <= o /\ o < hits[i] + Len(n)

(* An anchor that does not overlap itself has the same occurrences from    *)
(* the right, so that nth means one thing counted from either end          *)
(* (_engine.py:61-75, extract's "first", "last" and nth).                  *)
SelfOverlapping(n) ==
  \E k \in 1 .. Len(n) - 1 : SubSeq(n, k + 1, Len(n)) = SubSeq(n, 1, Len(n) - k)
NthFromEitherEnd ==
  Unread => \A n \in Needles, r \in Window : ~SelfOverlapping(n) =>
    IterRfind(text, n, r[1], r[2]) = Reverse(IterFind(text, n, r[1], r[2]))

(* The lines of the text are all of it but their terminators, each offset  *)
(* has the number of its line, and a trailing newline opens no line        *)
(* (_engine.py:149-173, 268-274).                                          *)
LinesCoverText ==
  LET lines == LineSpans(text, 0, Len(text))
      next(i) == IF i = Len(lines) THEN Len(text) ELSE lines[i + 1][1]
      ends(i) == Bytes(text, <<lines[i][2], next(i)>>)
  IN /\ text # << >> => lines # << >> /\ lines[1][1] = 0
     /\ \A i \in DOMAIN lines :
          /\ lines[i][1] < Len(text)
          /\ "\n" \notin ToSet(Bytes(text, lines[i]))
          /\ ends(i) \in {<<"\n">>, <<"\r", "\n">>}
               \union (IF i = Len(lines) THEN {<< >>, <<"\r">>} ELSE {})
          /\ \A o \in lines[i][1] .. next(i) - 1 : LineNumber(text, o) = i

(* Read back line by line, the span of a block is the lines up to its      *)
(* terminator, and no others (block_span, then lines, as extract does).    *)
(* Left out are the blocks that have no line, because none may be taken or *)
(* the first one ends it: of those one line is read (BlockEndsAtStop).     *)
UpToTerminator(a, read, below) ==
  /\ IsPrefix(read, below)
  /\ Len(read) <= a.maxLines
  /\ \A i \in DOMAIN read : ~Stops(text, read[i], a.until)
  /\ Len(read) < Len(below) =>
       Len(read) = a.maxLines \/ Stops(text, below[Len(read) + 1], a.until)
BlockReadsItsLines ==
  Unread => \A a \in Ask : Opened(a) => UpToTerminator(a, LinesIn(Block(a)), Below(a))

(* What a reader has found in a file stays found, in the same order, when  *)
(* the file grows (watch.py follows growing files; nth counts on it).      *)
GrowthKeepsHits ==
  [][\A n \in Needles :
       IsPrefix(IterFind(text, n, 0, Len(text)), IterFind(text', n, 0, Len(text')))]_vars

(* "`until` ends the run at `blank` or at a literal that begins a line"    *)
(* (README.md:229): no line that ends a block is read as part of it.       *)
BlockEndsAtStop ==
  Unread => \A a \in Ask : \A span \in ToSet(LinesIn(Block(a))) : ~Stops(text, span, a.until)

(* A block is parsed line by line, however many batches it takes: "Resume  *)
(* after the last line consumed" (_cengine.py:245).                        *)
RowsOnce(span, cols) ==
  ScanColumns(text, span[1], span[2], cols)
    = TolkScanColumns(text, span[1], span[2], cols, MaxLength + 1)
EveryRowOnce ==
  Unread => \A a \in Ask, cols \in Tables : Opened(a) => RowsOnce(Block(a), cols)
=============================================================================
