------------------------------ MODULE Reading -------------------------------
(***************************************************************************)
(* What extract(), explain(), cat and scan promise of a text that is still *)
(* being written, for every quantity the loader lets pass.                 *)
(***************************************************************************)
EXTENDS GrowingText, Inspect

Hooks == {"none", "raises", "nothing", "value"}

q == loaded[1]
Scalar == ~ReadsTable(q.parse)
Of(quantity, compiled) == ExtractQuantity(text, quantity, compiled)
IsPresent(value) == value.kind = "present"

(* The anchor of q is there, and so is the line it is read from.           *)
Hits == IterFind(text, q.anchor, 0, Len(text))
Reached(at) == at # NotFound /\ ReadFrom(text, q, at) < Len(text)

(* What the columns must be for no index to be missed and no infinity to   *)
(* become an int: see the README on quantities that do raise.              *)
Upward == \A c \in DOMAIN q.parse.columns : q.parse.columns[c] >= 0
NoInts == \A c \in DOMAIN q.parse.columns : ColumnType(q.parse, c) # IntType

(* "Nothing here raises. A quantity that could not be read comes back as a *)
(* value of None with a reason attached" (value.py:7-8): whatever has been *)
(* written and whatever a registered parser does, with columns counted     *)
(* from the left, and none of them an int where C parses them.             *)
NothingRaises ==
  ~Unread /\ Upward => \A compiled \in BOOLEAN, hook \in Hooks :
    (compiled => NoInts) => Extracted(text, q, hook, compiled).kind # "raised"

(* On a block of lines that are wide enough, shorter than a batch, the     *)
(* bulk parser gives the rows that splitting in Python gives, if it looks  *)
(* at the fields asked for and both take them for the same: none is longer *)
(* than C parses, has an underscore, is a "nan" or a hexadecimal, and none *)
(* of an int column has a point, is infinite or has more digits than a     *)
(* double (extract.py:177-254, csrc/tolk.c:235-291).  Rules that strip or  *)
(* have a str column never go to C.                                        *)
TakenAlike(s, type) ==
  /\ Len(s) <= FieldMax /\ ToSet(s) \cap {"_", "nan", "0x1"} = {}
  /\ type = IntType => Len(s) <= ExactDigits /\ ToSet(s) \cap {".", "inf"} = {}
Regular(fields, rule) ==
  /\ Len(fields) \notin 1 .. Wanted(rule)
  /\ \A c \in DOMAIN rule.columns :
       rule.columns[c] < Len(fields) =>
         TakenAlike(fields[rule.columns[c] + 1], ColumnType(rule, c))
FewRows(span, rule) ==
  Len(TolkScanColumns(text, span[1], span[2], Places(rule), RowBatch)) < RowBatch
BlockAtHit(at) == SpanOf(text, at, q.block[1])
RegularBlock(at) ==
  /\ Opens(ReadFrom(text, q, at), Until(q.block[1]), MaxLines(text, q.block[1]))
  /\ \A i \in DOMAIN SplitLines(text, BlockAtHit(at)) :
       Regular(SplitLines(text, BlockAtHit(at))[i], q.parse)
  /\ FewRows(BlockAtHit(at), q.parse)
Narrow == \A c \in DOMAIN q.parse.columns : q.parse.columns[c] < FieldsMax
FastRowsMatchSlow ==
  ~Unread /\ ~Scalar /\ q.block # << >> /\ Bulk(q.parse) /\ Upward /\ Narrow =>
    \A at \in 0 .. Len(text) : RegularBlock(at) =>
      FastRows(text, BlockAtHit(at), q.parse) = SlowRows(text, BlockAtHit(at), q.parse)

(* A quantity that was not refused when its spec was loaded is one that    *)
(* some text answers: "a typo in a spec fails at load time ... rather than *)
(* silently extracting nothing" (spec.py:153-155).  Two kinds are accepted *)
(* all the same and never read anything from any text, as if they were     *)
(* typed by mistake: a table without columns, and every occurrence of a    *)
(* line of which no field is named, a whole line among them.               *)
Barren(quantity) ==
  IF ReadsTable(quantity.parse) THEN DOMAIN quantity.parse.columns = {}
  ELSE Repeats(quantity) /\ quantity.parse.field = << >>
BarrenReadsNothing ==
  ~Unread /\ Barren(q) => \A compiled \in BOOLEAN : ~IsPresent(Of(q, compiled))
OthersCanBeRead ==
  ~Unread /\ ~Barren(q) /\ text = << >> =>
    \E sample \in Samples : IsPresent(ExtractQuantity(sample, q, FALSE))

(* occurrence = "all" reads what occurrence = 0, 1, 2 ... would read, each *)
(* in its turn and none twice: for a field on the line of the anchor, and  *)
(* for a block, whose rows carry the number of the occurrence              *)
(* (extract.py:131-138).  Left out are whole lines, of which "all" reads   *)
(* nothing, and scalars below the anchor, which "all" reads beside it; and *)
(* where C parses the blocks, which it does of "all" but not of a single   *)
(* occurrence, the blocks have to be regular ones.                         *)
InTurn(i, compiled) == Of([q EXCEPT !.occurrence = Toml("int", i)], compiled)
Parts(one, i) ==
  IF ~IsPresent(one) THEN << >>
  ELSE IF Scalar THEN <<one.value>>
  ELSE [k \in DOMAIN one.value |-> Stepped(one.value[k], i)]
AreAll(value, items) == IF IsPresent(value) THEN value.value = items ELSE items = << >>
InBulk(compiled) == compiled /\ ~Scalar /\ Bulk(q.parse)
AllIsEachInTurn ==
  ~Unread /\ Repeats(q) /\ Upward
    /\ (Scalar <=> q.block = << >>) /\ (Scalar => ~q.parse.wholeLine) =>
  \A compiled \in BOOLEAN :
    (InBulk(compiled) => Narrow /\ \A i \in DOMAIN Hits : RegularBlock(Hits[i])) =>
      AreAll(Of(q, compiled),
             FlattenSeq([i \in DOMAIN Hits |-> Parts(InTurn(i - 1, compiled), i - 1)]))

(* An explanation, which searches anew, is about the value next to it: the *)
(* same anchor, the line of that number, a block whose first line is the   *)
(* one a scalar was read from and that has a line for every row, and the   *)
(* columns of the rule in what is printed.  The end of the line may be     *)
(* another one where an anchor begins with a newline or the block at the   *)
(* end of the text: line_end drops no "\r" before the offset it is given.  *)
SameLine(printed, at, whole) ==
  LET line == LineSpan(text, at) IN printed[1] = line[1] /\ (whole => printed = line)
OnNewline == q.anchor # << >> /\ q.anchor[1] = "\n"
ExplainsValue(e, lines) ==
  /\ ExplanationFound(e) <=> e.value # Missing("anchor")
  /\ IsPresent(e.value) => e.value.at = e.at
  /\ e.line > Len(lines) => e.at = Len(text)
  /\ e.line \in DOMAIN lines => SameLine(lines[e.line], e.at, ~OnNewline)
  /\ ExplanationFound(e) /\ ~Repeats(q) /\ e.preview # << >> =>
       SameLine(e.preview[1], ReadFrom(text, q, e.at), Reached(e.at))
  /\ IsPresent(e.value) /\ e.total > 0 /\ (Scalar => Repeats(q)) =>
       Len(e.value.value) <= e.total \/ (Repeats(q) /\ q.block # << >>)
  /\ IsPresent(e.value) /\ ~Scalar =>
       DOMAIN q.parse.columns \subseteq Rendered(q, e).value.columns
ExplainAgrees ==
  ~Unread /\ Upward =>
    ExplainsValue(ExplainQuantity(text, q, FALSE), LineSpans(text, 0, Len(text)))

(* What was read from the start of the file is not read differently once   *)
(* more lines have been written: a scalar stays, the rows of a block and   *)
(* the items of a repeated line only go on (what a watcher reports on the  *)
(* way counts on it).                                                      *)
FromTheStart ==
  \/ q.anchor = << >>
  \/ q.occurrence = Toml("string", First)
  \/ q.occurrence.is # "string" /\ AsInt(q.occurrence) >= 0
OneStays(before, after) ==
  FromTheStart /\ ~Repeats(q) /\ IsPresent(before) /\ Reached(before.at) =>
    IsPresent(after) /\ IF Scalar THEN after = before ELSE IsPrefix(before.value, after.value)
AllStay(before, after) ==
  Repeats(q) /\ q.block = << >> /\ IsPresent(before) =>
    IsPresent(after) /\ IsPrefix(before.value, after.value)
Whole == text = << >> \/ Last(text) = "\n"
GrowthKeepsReadings ==
  [][~Unread /\ Upward /\ Whole =>
       /\ OneStays(Of(q, FALSE), ExtractQuantity(text', q, FALSE))
       /\ AllStay(Of(q, FALSE), ExtractQuantity(text', q, FALSE))]_vars

-----------------------------------------------------------------------------
(* head and tail at one cut print whole lines, in the order of the file,   *)
(* and all of it between them but at most the one line that the cut is in  *)
(* or before (source.py:144-172, cli.py:238-245).                          *)
LineStarts == {LineSpans(text, 0, Len(text))[i][1] :
                 i \in DOMAIN LineSpans(text, 0, Len(text))} \union {0, Len(text)}
CutLeavesOneLineOut ==
  Unread => \A cut \in 1 .. Len(text) - 1 :
    LET head == HeadSpan(text, cut)[2]
        tail == TailSpan(text, Len(text) - cut)[1]
    IN /\ {head, tail} \subseteq LineStarts
       /\ head <= cut /\ cut <= tail
       /\ ~\E start \in LineStarts : head < start /\ start < tail
       /\ CatBytes(text, 0, cut).out[1] \o Bytes(text, <<head, tail>>)
            \o CatBytes(text, Len(text) - cut, 0).out[1] = text

(* The line number that scan prints is the one cat --lines prints that     *)
(* line for, unless the anchor begins with a newline; every line of cat is *)
(* printed once, and scan exits with 1 when and only when it counts no hit *)
(* (cli.py:201-237).                                                       *)
ScanPointsAtCat ==
  Unread =>
  /\ \A n \in Needles, latest \in BOOLEAN :
       LET scan == Scan(text, n, latest) IN
       /\ scan.exit = 1 <=> ScanCount(text, n).out = <<0>>
       /\ n[1] # "\n" => \A i \in DOMAIN scan.out :
            CatLines(text, scan.out[i].number, scan.out[i].number)
              = Printed(<<Bytes(text, scan.out[i].line)>>, 0)
  /\ \A k \in 1 .. Len(text) :
       CatLines(text, 1, k).out \o CatLines(text, k + 1, Len(text)).out
         = CatLines(text, 1, Len(text)).out
=============================================================================
