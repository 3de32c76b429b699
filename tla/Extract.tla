------------------------------ MODULE Extract -------------------------------
(***************************************************************************)
(* extract.py: a Quantity and a text become a Value.  The value of a field *)
(* is the text of the number or the string it stands for.  The offset      *)
(* cache, which may stand between a quantity and the search for its        *)
(* anchor, is the subject of OffsetCache.                                  *)
(***************************************************************************)
EXTENDS CEngine, SpecFile

CONSTANT ExactDigits  \* digits of an integer that a double always holds

ASSUME ExtractAssumption == ExactDigits \in Nat \ {0}

(* A Value: its content and the offset of its anchor, or why there is none.*)
(* "raised" is no Value: the exception leaves extract().                   *)
Present(v, at) == [kind |-> "present", value |-> v, at |-> at]
Missing(why) == [kind |-> "missing", why |-> why]
Raised == [kind |-> "raised"]

(* What became of rows: they are in a sequence of one, or raised.          *)
PresentOr(rows, at, why) ==
  CASE rows = << >> -> Raised
    [] rows = <<<< >>>> -> Missing(why)
    [] OTHER -> Present(rows[1], at)

(***************************************************************************)
(* One field.                                                              *)
(***************************************************************************)
Trim(s, chars) ==
  LET ink == {i \in DOMAIN s : s[i] \notin chars}
  IN IF ink = {} THEN << >> ELSE SubSeq(s, Min(ink), Max(ink))

(* bytes.split                                                             *)
Split(h, span) ==
  LET fields == Fields(h, span[1], span[2], Len(h))
  IN [i \in DOMAIN fields |-> Bytes(h, fields[i])]

(* fields[i] as Python indexes: from the right when i is negative.         *)
Index(fields, i) == IF i < 0 THEN i + Len(fields) + 1 ELSE i + 1
Field(fields, i) ==
  IF Index(fields, i) \in DOMAIN fields THEN <<fields[Index(fields, i)]>> ELSE << >>

(* Python's int() and float(), which know no hexadecimals, for which nan   *)
(* is a number, and which take underscores between digits.                 *)
Underscored(s) ==
  /\ "_" \in ToSet(s) /\ ToSet(s) \subseteq Digits \union {"_"}
  /\ \A i \in DOMAIN s : s[i] = "_" => {i - 1, i + 1} \subseteq DOMAIN s /\ s[i + 1] # "_"
Ungrouped(s) == SelectSeq(s, LAMBDA c : c # "_")
PyInt(s) ==
  CASE Numeral(s) -> <<s>>
    [] Underscored(s) -> <<Ungrouped(s)>>
    [] OTHER -> << >>
PyFloat(s) ==
  CASE s \in {Infinity, NotANumber} -> <<s>>
    [] Decimal(s) -> <<Front(s)>>
    [] OTHER -> PyInt(s)

Parsed(text, type) ==
  CASE type = StrType -> <<text>>
    [] type = IntType -> PyInt(text)
    [] type = FloatType -> PyFloat(text)
(* _convert: the value in a sequence of one, or none when there is none.   *)
(* Slip: punctuation is left on numbers.                                   *)
SlipConvert(raw, type, strip) ==
  Parsed(IF type = StrType THEN Trim(raw, ToSet(strip)) ELSE raw, type)
Convert(raw, type, strip) == Parsed(Trim(raw, ToSet(strip)), type)

(***************************************************************************)
(* Rows.                                                                   *)
(***************************************************************************)
Legible(row) == \E c \in DOMAIN row : row[c] # << >>

(* max(rule.columns.values(), default=-1)                                  *)
Wanted(rule) == Max({-1} \union {rule.columns[c] : c \in DOMAIN rule.columns})
(* Slip: a line that ends before the last column will do.                  *)
SlipTooShort(fields, rule) == Len(fields) < Wanted(rule)
TooShort(fields, rule) == Len(fields) <= Wanted(rule)
RowRaises(fields, rule) ==
  ~TooShort(fields, rule) /\ \E c \in DOMAIN rule.columns : Field(fields, rule.columns[c]) = << >>

(* Slip: a row nothing of which converts is data.                          *)
SlipRow(fields, rule) ==
  LET row == [c \in DOMAIN rule.columns |->
                Convert(Field(fields, rule.columns[c])[1], ColumnType(rule, c), rule.strip)]
  IN IF TooShort(fields, rule) THEN << >> ELSE <<row>>
(* _row: a line too short for the last column is skipped, and so is one    *)
(* where nothing converts; what does not convert in another is a hole.     *)
Row(fields, rule) ==
  LET row == [c \in DOMAIN rule.columns |->
                Convert(Field(fields, rule.columns[c])[1], ColumnType(rule, c), rule.strip)]
  IN IF TooShort(fields, rule) \/ ~Legible(row) THEN << >> ELSE <<row>>

(* The rows of lines given by their fields, in a sequence of one, or none  *)
(* when an index is out of range.                                          *)
RowsOf(lines, rule) ==
  IF \E i \in DOMAIN lines : RowRaises(lines[i], rule) THEN << >>
  ELSE <<FlattenSeq([i \in DOMAIN lines |-> Row(lines[i], rule)])>>

(* _fast_rows: all columns numeric and nothing stripped, so that the C     *)
(* engine parses them.  An int column is int() of a double: of an infinity *)
(* it raises, of more digits than a double has it is another integer.      *)
Bulk(rule) ==
  /\ rule.strip = << >> /\ rule.type # StrType
  /\ \A c \in DOMAIN rule.columns : ColumnType(rule, c) # StrType
Names(rule) == SetToSeq(DOMAIN rule.columns)
Places(rule) == [i \in DOMAIN Names(rule) |-> rule.columns[Names(rule)[i]]]
Nearest(s) ==
  IF Len(s) > ExactDigits THEN SubSeq(s, 1, ExactDigits) \o <<"...">> ELSE s
OfDouble(value, type) ==
  IF type = IntType /\ value # NaN THEN <<Nearest(value[1])>> ELSE value
NamedRow(r, rule) ==
  [c \in DOMAIN rule.columns |->
     OfDouble(r[CHOOSE k \in DOMAIN Names(rule) : Names(rule)[k] = c], ColumnType(rule, c))]
Named(parsed, rule) == [i \in DOMAIN parsed |-> NamedRow(parsed[i], rule)]
LegibleOf(rows) ==
  FlattenSeq([i \in DOMAIN rows |-> IF Legible(rows[i]) THEN <<rows[i]>> ELSE << >>])
NoInfiniteInt(rows, rule) ==
  IF \E i \in DOMAIN rows, c \in DOMAIN rule.columns :
       ColumnType(rule, c) = IntType /\ rows[i][c] = <<Infinity>>
  THEN << >> ELSE <<rows>>
FastRows(h, span, rule) ==
  NoInfiniteInt(LegibleOf(Named(ScanColumns(h, span[1], span[2], Places(rule)), rule)), rule)

LinesOf(h, span) == LineSpans(h, span[1], span[2])
SplitEach(h, lines) == [i \in DOMAIN lines |-> Split(h, lines[i])]
SplitLines(h, span) == SplitEach(h, LinesOf(h, span))
SlowRows(h, span, rule) == RowsOf(SplitLines(h, span), rule)

(***************************************************************************)
(* Blocks.                                                                 *)
(***************************************************************************)
Until(block) ==
  CASE block.until = << >> -> NoUntil
    [] block.until = <<BlankUntil>> -> Blank
    [] OTHER -> block.until[1]
MaxLines(h, block) == IF block.maxLines = << >> THEN Len(h) + 1 ELSE block.maxLines[1]
SpanOf(h, at, block) == BlockSpan(h, at, block.skip, Until(block), MaxLines(h, block))

RowsIn(h, span, rule, compiled) ==
  IF compiled /\ Bulk(rule) THEN FastRows(h, span, rule) ELSE SlowRows(h, span, rule)
BlockRows(h, q, at, compiled) == RowsIn(h, SpanOf(h, at, q.block[1]), q.parse, compiled)

(* _table_value goes line by line whichever engine there is, and looks for *)
(* empty lines before it looks at the columns.                             *)
Filled(lines) ==
  FlattenSeq([i \in DOMAIN lines |-> IF lines[i] = << >> THEN << >> ELSE <<lines[i]>>])
TableValue(h, q, at) ==
  IF q.block = << >> THEN Missing("rule")
  ELSE PresentOr(RowsOf(Filled(SplitLines(h, SpanOf(h, at, q.block[1]))), q.parse), at, "rows")

(***************************************************************************)
(* A scalar: on the line of the anchor, or below it when there is a block. *)
(***************************************************************************)
ReadFrom(h, q, at) == IF q.block = << >> THEN at ELSE AdvanceLines(h, at, q.block[1].skip)
Texts(h, q, span) ==
  IF q.parse.wholeLine THEN <<Trim(Bytes(h, span), Space)>>
  ELSE IF q.parse.field = << >> THEN << >>
  ELSE Field(Split(h, span), q.parse.field[1])

Converted(value, at) == IF value = << >> THEN Missing("number") ELSE Present(value[1], at)
ValueOf(text, rule, at) ==
  IF text = << >> THEN Missing(IF rule.field = << >> THEN "rule" ELSE "field")
  ELSE Converted(Convert(text[1], rule.type, rule.strip), at)
ScalarValue(h, q, at) ==
  ValueOf(Texts(h, q, LineSpan(h, ReadFrom(h, q, at))), q.parse, at)

(***************************************************************************)
(* Every occurrence: of a block, whose rows are numbered by their step, or *)
(* of a line.                                                              *)
(***************************************************************************)
Step == "step"
Stepped(row, step) ==
  [c \in DOMAIN row \union {Step} |-> IF c \in DOMAIN row THEN row[c] ELSE <<step>>]

StepThrough(blocks) ==
  LET rows(i) == [k \in DOMAIN blocks[i][1] |-> Stepped(blocks[i][1][k], i - 1)] IN
  IF \E i \in DOMAIN blocks : blocks[i] = << >> THEN << >>
  ELSE <<FlattenSeq([i \in DOMAIN blocks |-> rows(i)])>>
RepeatedBlocks(h, q, offsets, compiled) ==
  LET blocks == [i \in DOMAIN offsets |-> BlockRows(h, q, offsets[i], compiled)]
  IN PresentOr(StepThrough(blocks), offsets[1], "rows")

(* The value of a scalar that is printed once per item.                    *)
ItemOf(fields, rule) ==
  LET text == IF rule.field = << >> THEN << >> ELSE Field(fields, rule.field[1])
  IN IF text = << >> THEN << >> ELSE Convert(text[1], rule.type, rule.strip)

ItemsOf(lines, rule) ==
  IF ReadsTable(rule) THEN RowsOf(lines, rule)
  ELSE <<FlattenSeq([i \in DOMAIN lines |-> ItemOf(lines[i], rule)])>>
RepeatedLines(h, q, offsets) ==
  LET lines == [i \in DOMAIN offsets |-> Split(h, LineSpan(h, offsets[i]))]
  IN PresentOr(ItemsOf(lines, q.parse), offsets[1], "nothing")

(* Slip: a block that is repeated is taken for lines that are.             *)
SlipRepeatedValue(h, q, offsets, compiled) ==
  IF offsets = << >> THEN Missing("anchor") ELSE RepeatedLines(h, q, offsets)
RepeatedValue(h, q, offsets, compiled) ==
  IF offsets = << >> THEN Missing("anchor")
  ELSE IF q.block # << >> /\ ReadsTable(q.parse) THEN RepeatedBlocks(h, q, offsets, compiled)
  ELSE RepeatedLines(h, q, offsets)

(***************************************************************************)
(* extract                                                                 *)
(***************************************************************************)
AnchorOffset(h, q) == IF q.anchor = << >> THEN 0 ELSE FindNth(h, q.anchor, Nth(q), 0, Len(h))

ValueAt(h, q, at) ==
  IF at = NotFound THEN Missing("anchor")
  ELSE IF ReadsTable(q.parse) THEN TableValue(h, q, at) ELSE ScalarValue(h, q, at)
ExtractQuantity(h, q, compiled) ==
  IF Repeats(q) THEN RepeatedValue(h, q, IterFind(h, q.anchor, 0, Len(h)), compiled) ELSE ValueAt(h, q, AnchorOffset(h, q))

(* A registered parser: what it does is its own affair, what its failure   *)
(* does is not.                                                            *)
RunHook(outcome) ==
  CASE outcome = "raises" -> Missing("hook")
    [] outcome = "nothing" -> Missing("hook")
    [] outcome = "value" -> Present(<<"hook">>, 0)
Extracted(h, q, hook, compiled) ==
  IF hook = "none" THEN ExtractQuantity(h, q, compiled) ELSE RunHook(hook)
=============================================================================
