------------------------------- MODULE Record --------------------------------
(***************************************************************************)
(* record.py: the values read from one file become a Table.  A row is a    *)
(* function from its columns to cells; the order of columns is left out.   *)
(***************************************************************************)
EXTENDS Integers, Sequences, FiniteSets

(* The column that names the file.                                         *)
Path == "path"

(* A Value: missing, one cell, or a list of rows.                          *)
Missing == [kind |-> "missing"]
Scalar(cell) == [kind |-> "scalar", cell |-> cell]
Listed(rows) == [kind |-> "list", rows |-> rows]
Names(values, kind) == {n \in DOMAIN values : values[n].kind = kind}
IsValue(value) ==
  /\ value.kind \in {"missing", "scalar", "list"}
  /\ value.kind = "list" => value.rows \in Seq({value.rows[i] : i \in DOMAIN value.rows})

(* {**scalars, **row}                                                      *)
Over(row, scalars) ==
  [c \in DOMAIN row \union DOMAIN scalars |-> IF c \in DOMAIN row THEN row[c] ELSE scalars[c]]

Scalars(values, path) ==
  Over([n \in Names(values, "scalar") |-> values[n].cell], [p \in {Path} |-> path])

(* Slip: the rows of the list without the scalars.                         *)
SlipFromValues(values, withUnit, path) ==
  LET listed == Names(values, "list")
      scalars == Scalars(values, path)
  IN [rows |-> IF listed = {} THEN <<scalars>> ELSE values[CHOOSE n \in listed : TRUE].rows,
      units |-> (withUnit \ Names(values, "missing")),
      missing |-> Names(values, "missing"),
      tables |-> [n \in {} |-> << >>]]
(* Table.from_values; units holds the columns that have one.               *)
FromValues(values, withUnit, path) ==
  LET listed == Names(values, "list")
      scalars == Scalars(values, path)
      units == withUnit \ Names(values, "missing")
      Joined(rows) == [i \in DOMAIN rows |-> Over(rows[i], scalars)]
  IN [rows |-> IF Cardinality(listed) = 1
               THEN Joined(values[CHOOSE n \in listed : TRUE].rows) ELSE <<scalars>>,
      units |-> IF Cardinality(listed) = 1 THEN units \ listed ELSE units,
      missing |-> Names(values, "missing"),
      tables |-> [n \in (IF Cardinality(listed) > 1 THEN listed ELSE {}) |-> values[n].rows]]

-----------------------------------------------------------------------------
(***************************************************************************)
(* What rows must hold of the values they were made of, for the properties *)
(* of those that make them.                                                *)
(***************************************************************************)
ListsOf(values) == Names(values, "list")

(* A row of a list wins over a scalar of the same name.                    *)
Shadowed(values, name, i) ==
  \E n \in ListsOf(values) : i \in DOMAIN values[n].rows /\ name \in DOMAIN values[n].rows[i]
(* Every row shows every scalar it has not a column of its own for, and    *)
(* the rows are those of the list, each with all its columns.              *)
Shows(rows, values) ==
  /\ \A n \in Names(values, "scalar"), i \in DOMAIN rows :
       Shadowed(values, n, i) \/ (n \in DOMAIN rows[i] /\ rows[i][n] = values[n].cell)
  /\ \A n \in ListsOf(values) :
       /\ Len(rows) = Len(values[n].rows)
       /\ \A i \in DOMAIN rows : \A c \in DOMAIN values[n].rows[i] :
            c \in DOMAIN rows[i] /\ rows[i][c] = values[n].rows[i][c]
(* One row, with every scalar, the name of the file, and nothing else.     *)
ShowsScalars(rows, values) ==
  /\ Len(rows) = 1
  /\ DOMAIN rows[1] = Names(values, "scalar") \union {Path}
  /\ \A n \in Names(values, "scalar") : rows[1][n] = values[n].cell
=============================================================================
