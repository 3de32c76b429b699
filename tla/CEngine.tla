------------------------------ MODULE CEngine -------------------------------
(***************************************************************************)
(* csrc/tolk.c and its bindings in _cengine.py: the compiled primitives    *)
(* that replace those of Engine one for one, and the bulk parser of        *)
(* numeric columns, which has no counterpart there (extract splits and     *)
(* converts field by field instead).                                       *)
(***************************************************************************)
EXTENDS Engine

CONSTANTS
  Batch,         \* _BATCH, offsets per crossing into C
  RowBatch,      \* _ROWS, rows per crossing into C
  FieldsMax,     \* TOLK_FIELDS_MAX, fields looked at on a line
  FieldMax,      \* TOLK_FIELD_MAX, characters of a field that is parsed
  Digits         \* the characters of a field that is a number

(* A batch of one row would be resumed for ever on a last line that has no *)
(* newline; there are 4096 in the code (_cengine.py:208).                  *)
ASSUME CEngineAssumption ==
  /\ Batch \in Nat \ {0} /\ RowBatch \in Nat \ {0, 1}
  /\ FieldsMax \in Nat \ {0} /\ FieldMax \in Nat
ASSUME DigitsAssumption ==
  Digits \cap {".", "_", "inf", "nan", "0x1"} = {}

(* A number in a sequence of one, or none: what is left of a NaN.          *)
NaN == << >>

Clamped(h, from, to) ==
  LET stop == IF to < 0 \/ to > Len(h) THEN Len(h) ELSE to
  IN <<Min({Max({from, 0}), stop}), stop>>

(* memchr to the first byte of the needle, memcmp to confirm.              *)
FindIn(h, needle, from, to) ==
  LET last == to - Len(needle)
      scan[pos \in Nat] ==
        IF pos > last THEN NotFound ELSE IF IsAt(h, needle, pos) THEN pos ELSE scan[pos + 1]
  IN scan[from]

RfindIn(h, needle, from, to) ==
  LET scan[pos \in Int] ==
        IF pos < from THEN NotFound ELSE IF IsAt(h, needle, pos) THEN pos ELSE scan[pos - 1]
  IN scan[to - Len(needle)]

TolkFind(h, needle, from, to) ==
  LET c == Clamped(h, from, to) IN FindIn(h, needle, c[1], c[2])
TolkRfind(h, needle, from, to) ==
  LET c == Clamped(h, from, to) IN RfindIn(h, needle, c[1], c[2])

(* At most limit hits, from the left.                                      *)
TolkFindAll(h, needle, from, to, limit) ==
  LET c == Clamped(h, from, to)
      walk[left \in Nat] == [pos \in Nat |->
        LET hit == FindIn(h, needle, pos, c[2]) IN
        IF left = 0 \/ hit = NotFound THEN << >>
        ELSE <<hit>> \o walk[left - 1][hit + Len(needle)]]
  IN walk[limit][c[1]]

TolkCount(h, needle, from, to) == Len(TolkFindAll(h, needle, from, to, Len(h) + 1))

(* Slip: a full batch is resumed inside its last hit.                      *)
SlipFindAll(h, needle, from, to) ==
  LET walk[pos \in Nat] ==
        LET out == TolkFindAll(h, needle, pos, to, Batch) IN
        IF Len(out) < Batch THEN out ELSE out \o walk[Last(out) + 1]
  IN walk[from]
(* _cengine.find_all: full batches are resumed behind their last hit.      *)
FindAll(h, needle, from, to) ==
  LET walk[pos \in Nat] ==
        LET out == TolkFindAll(h, needle, pos, to, Batch) IN
        IF Len(out) < Batch THEN out ELSE out \o walk[Last(out) + Len(needle)]
  IN walk[from]

TolkFindNth(h, needle, n, from, to) ==
  LET c == Clamped(h, from, to)
      forward[left \in Nat] == [pos \in Nat |->
        LET hit == FindIn(h, needle, pos, c[2]) IN
        IF hit = NotFound \/ left = 0 THEN hit ELSE forward[left - 1][hit + Len(needle)]]
      back[left \in Nat] == [pos \in Nat |->
        LET hit == RfindIn(h, needle, c[1], pos) IN
        IF hit = NotFound \/ left = 0 THEN hit
        ELSE IF hit <= c[1] THEN NotFound ELSE back[left - 1][hit + Len(needle) - 1]]
  IN IF n >= 0 THEN forward[n][c[1]] ELSE back[-n - 1][c[2]]

TolkLineStart(h, offset) ==
  IF offset <= 0 THEN 0 ELSE RfindIn(h, Newline, 0, Min({offset, Len(h)})) + 1

TolkLineEnd(h, offset) ==
  LET at == Max({offset, 0})
  IN DropReturn(h, at, OrEnd(h, FindIn(h, Newline, at, Len(h))))

TolkAdvanceLines(h, offset, n) ==
  LET forward[left \in Nat] == [pos \in Nat |->
        LET nl == FindIn(h, Newline, pos, Len(h)) IN
        IF left = 0 THEN pos ELSE IF nl = NotFound THEN Len(h) ELSE forward[left - 1][nl + 1]]
      back[left \in Nat] == [pos \in Nat |->
        IF left = 0 \/ pos = 0 THEN pos ELSE back[left - 1][TolkLineStart(h, pos - 1)]]
  IN (IF n > 0 THEN forward[n] ELSE back[-n])[TolkLineStart(h, offset)]

TolkLineNumber(h, offset) == TolkCount(h, Newline, 0, TolkLineStart(h, offset)) + 1

(***************************************************************************)
(* Numeric columns.                                                        *)
(***************************************************************************)
Space == {" ", "\r"}

(* The maximal runs of [from, to) without white space, up to a limit.      *)
FieldStarts(h, from, to) ==
  {i \in from .. to - 1 : Byte(h, i) \notin Space /\ (i = from \/ Byte(h, i - 1) \in Space)}
FieldEnd(h, from, to) == Min({to} \union {i \in from .. to - 1 : Byte(h, i) \in Space})
Fields(h, from, to, limit) ==
  LET starts == FieldStarts(h, from, to)
      start(k) == CHOOSE i \in starts : Cardinality({j \in starts : j < i}) = k - 1
  IN [k \in 1 .. Min({limit, Cardinality(starts)}) |-> <<start(k), FieldEnd(h, start(k), to)>>]

(* Of numbers only the forms that are told apart somewhere: digits, digits *)
(* with a point, infinity, not-a-number and a hexadecimal.                 *)
Infinity == <<"inf">>
NotANumber == <<"nan">>
Hexadecimal == <<"0x1">>
Numeral(s) == s # << >> /\ ToSet(s) \subseteq Digits
Decimal(s) == s # << >> /\ Last(s) = "." /\ Numeral(Front(s))

(* parse_double: strtod has to take the field as a whole, and the bindings *)
(* take the NaN it makes of "nan" for a field that is no number.           *)
Strtod(s) ==
  CASE Numeral(s) \/ s \in {Infinity, Hexadecimal} -> <<s>>
    [] Decimal(s) -> <<Front(s)>>
    [] OTHER -> NaN
ParseDouble(s) == IF Len(s) > FieldMax THEN NaN ELSE Strtod(s)
ParseField(h, field) == ParseDouble(Bytes(h, field))

(* One row per line that has a field, if there are columns to read; one    *)
(* that the line lacks is NaN.                                             *)
ScanRow(h, fields, cols) ==
  LET Index(i) == IF cols[i] < 0 THEN cols[i] + Len(fields) ELSE cols[i] IN
  [i \in DOMAIN cols |->
     IF Index(i) \in 0 .. Len(fields) - 1 THEN ParseField(h, fields[Index(i) + 1]) ELSE NaN]
RowOf(h, fields, cols) ==
  IF fields = << >> \/ cols = << >> THEN << >> ELSE <<ScanRow(h, fields, cols)>>

TolkScanColumns(h, from, to, cols, maxRows) ==
  LET c == Clamped(h, from, to)
      walk[pos \in Nat] == [left \in Nat |->
        LET stop == Min({TolkLineEnd(h, pos), c[2]})
            row == RowOf(h, Fields(h, pos, stop, FieldsMax), cols)
        IN IF pos > c[2] \/ left = 0 THEN << >>
           ELSE row \o walk[NextLine(h, FindIn(h, Newline, stop, Len(h)))][left - Len(row)]]
  IN walk[TolkLineStart(h, c[1])][maxRows]

(* _resume: it counts the lines that are not empty.                        *)
ResumeAt(h, pos, rows) ==
  LET walk[at \in Nat] == [left \in Nat |->
        LET stop == TolkLineEnd(h, at)
            nl == FindIn(h, Newline, stop, Len(h))
        IN IF left = 0 THEN at
           ELSE IF nl = NotFound THEN Len(h)
           ELSE walk[nl + 1][IF stop > at THEN left - 1 ELSE left]]
  IN walk[pos][rows]

Batched(rows, rest) == IF Len(rows) < RowBatch THEN rows ELSE rows \o rest
ScanColumns(h, from, to, cols) ==
  LET walk[pos \in Nat] ==
        Batched(TolkScanColumns(h, pos, to, cols, RowBatch), walk[ResumeAt(h, pos, RowBatch)])
  IN walk[from]
=============================================================================
