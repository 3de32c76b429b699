------------------------------- MODULE Writers -------------------------------
(***************************************************************************)
(* The writers of record.py and convert.py: a Table becomes a file, of     *)
(* which what a reader can take from it is kept, or an exception.          *)
(***************************************************************************)
EXTENDS Record, SequencesExt, Functions

CONSTANTS
  Hole,          \* None in a row: a field that did not convert
  Numbers,       \* the cells that are an int or a float
  Huge,          \* of these, the ints no float can hold
  Words          \* the cells that are a text float() refuses

Columns(rows) == UNION {DOMAIN rows[i] : i \in DOMAIN rows}

(* to_csv: one line per row, None and an absent column both blank.  tsv is *)
(* the same with another delimiter.                                        *)
ToCsv(table) ==
  [file |-> "csv",
   lines |-> [i \in DOMAIN table.rows |->
                [c \in Columns(table.rows) |->
                   IF c \in DOMAIN table.rows[i] THEN table.rows[i][c] ELSE Hole]]]

(* Slip: the lists kept apart are left out.                                *)
SlipToJson(table) ==
  [file |-> "json", rows |-> table.rows, units |-> table.units, missing |-> table.missing,
   tables |-> [n \in {} |-> << >>]]
ToJson(table) ==
  [file |-> "json", rows |-> table.rows, units |-> table.units, missing |-> table.missing,
   tables |-> table.tables]

(* write_xyz, with x for the three coordinates.  The columns are looked    *)
(* for in the first atom only; then the rows are formatted in their order, *)
(* and of each row the symbol (":<3s" is for text) before float(x).        *)
Geometry == {"symbol", "x"}
Atoms(table) ==
  SelectSeq(table.rows, LAMBDA row : "symbol" \in DOMAIN row /\ row["symbol"] # Hole)
(* Slip: the symbol is padded as if it were text.                          *)
SlipRowError(row) ==
  CASE row["symbol"] \in Numbers -> "AttributeError"
    [] "x" \notin DOMAIN row -> "KeyError"
    [] row["x"] = Hole -> "TypeError"
    [] row["x"] \in Huge -> "OverflowError"
    [] row["x"] \in Words -> "ValueError"
    [] OTHER -> "none"
RowError(row) ==
  CASE row["symbol"] \in Numbers -> "ValueError"
    [] "x" \notin DOMAIN row -> "KeyError"
    [] row["x"] = Hole -> "TypeError"
    [] row["x"] \in Huge -> "OverflowError"
    [] row["x"] \in Words -> "ValueError"
    [] OTHER -> "none"
Failing(atoms) == {i \in DOMAIN atoms : RowError(atoms[i]) # "none"}
XyzError(table) ==
  LET atoms == Atoms(table) IN
  IF atoms = << >> \/ ~(Geometry \subseteq DOMAIN atoms[1]) THEN "ConvertError"
  ELSE IF Failing(atoms) = {} THEN "none"
  ELSE RowError(atoms[CHOOSE i \in Failing(atoms) : \A j \in Failing(atoms) : i <= j])
ToXyz(table) ==
  [file |-> "xyz",
   atoms |-> [i \in DOMAIN Atoms(table) |-> Restrict(Atoms(table)[i], Geometry)]]

(* WRITERS[ofmt] of a format that has none is a KeyError.                  *)
Writable == {"csv", "json", "xyz"}
RenderError(ofmt, table) ==
  IF ofmt \notin Writable THEN "KeyError"
  ELSE IF ofmt = "xyz" THEN XyzError(table) ELSE "none"
Render(ofmt, table) ==
  CASE ofmt = "csv" -> ToCsv(table)
    [] ofmt = "json" -> ToJson(table)
    [] ofmt = "xyz" -> ToXyz(table)
=============================================================================
