------------------------------ MODULE SpecFile ------------------------------
(***************************************************************************)
(* spec.py: a TOML document becomes the rules quantities are read by, or   *)
(* is refused when it is loaded.  Every refusal is a SpecError; which one  *)
(* of several mistakes it names is left out, and so are descriptions and   *)
(* units, which are strings that are carried along.                        *)
(*                                                                         *)
(* None is the empty sequence: an anchor or a set of characters that is    *)
(* not there is << >>, and what else may be there is a sequence of at most *)
(* one.                                                                    *)
(***************************************************************************)
EXTENDS Integers, Sequences

(* A value of TOML is its type and its content.  A table is a function     *)
(* from keys; a string is a sequence of characters or of one keyword.      *)
Toml(type, v) == [is |-> type, v |-> v]
Value(body, key, default) == IF key \in DOMAIN body THEN body[key].v ELSE default
Maybe(body, key) == IF key \in DOMAIN body THEN <<body[key].v>> ELSE << >>
Sub(body, key) == Value(body, key, [k \in {} |-> 0])

First == <<"first">>
Latest == <<"last">>
All == <<"all">>
BlankUntil == <<"blank">>
FloatType == <<"float">>
IntType == <<"int">>
StrType == <<"str">>
ScalarTypes == {FloatType, IntType, StrType}

SpecKeys == {"format", "signature", "terminator", "quantity"}
SignatureKeys == {"contains", "extensions", "priority"}
TerminatorKeys == {"ok", "error"}
QuantityKeys == {"anchor", "occurrence", "block", "parse", "description"}
BlockKeys == {"skip", "until", "max_lines"}
ParseKeys == {"type", "unit", "field", "columns", "types", "strip", "whole_line", "table"}

(***************************************************************************)
(* Checks of one value.  To isinstance a bool is an int; _int knows better.*)
(***************************************************************************)
IsString(v) == v.is = "string"
IsInt(v) == v.is = "int"
IsIntOrBool(v) == v.is \in {"int", "bool"}
IsType(v) == v.is = "string" /\ v.v \in ScalarTypes
IsName(v) == v.is = "string" /\ v.v # << >>
IsOccurrence(v) == (v.is = "string" /\ v.v \in {First, Latest, All}) \/ IsIntOrBool(v)
IsLiterals(v) ==
  IsString(v) \/ (v.is = "list" /\ \A i \in DOMAIN v.v : IsString(v.v[i]))
IsTableOf(v, Is(_)) == v.is = "table" /\ \A k \in DOMAIN v.v : Is(v.v[k])
Anything(v) == TRUE

Has(body, key, Is(_)) == key \in DOMAIN body => Is(body[key])
Only(body, keys) == DOMAIN body \subseteq keys
IsTable(body, keys) == IsTableOf(body, Anything) /\ Only(body.v, keys)

AsInt(v) == CASE v.is = "int" -> v.v [] v.is = "bool" -> IF v.v THEN 1 ELSE 0
Truth(v) ==
  CASE v.is = "bool" -> v.v
    [] v.is = "int" -> v.v # 0
    [] v.is \in {"string", "list"} -> v.v # << >>
    [] OTHER -> DOMAIN v.v # {}
Switch(body, key) == key \in DOMAIN body /\ Truth(body[key])

(***************************************************************************)
(* [quantity.<name>.block] and [quantity.<name>.parse]                     *)
(***************************************************************************)
ValidBlock(block) ==
  /\ IsTable(block, BlockKeys)
  /\ Has(block.v, "skip", IsInt)
  /\ Has(block.v, "until", IsString)
  /\ Has(block.v, "max_lines", IsInt)

BlockRule(block) ==
  [skip |-> Value(block, "skip", 0), until |-> Maybe(block, "until"),
   maxLines |-> Maybe(block, "max_lines")]

ValidParse(parse) ==
  /\ IsTable(parse, ParseKeys)
  /\ Has(parse.v, "type", IsType)
  /\ Has(parse.v, "columns", LAMBDA v : IsTableOf(v, IsIntOrBool))
  /\ Has(parse.v, "types", LAMBDA v : IsTableOf(v, IsType))
  /\ DOMAIN Sub(parse.v, "types") \subseteq DOMAIN Sub(parse.v, "columns")
  /\ Has(parse.v, "field", IsInt)
  /\ Has(parse.v, "strip", IsString) /\ Has(parse.v, "unit", IsString)

ParseRule(parse) ==
  LET columns == Sub(parse, "columns") types == Sub(parse, "types") IN
  [type |-> Value(parse, "type", FloatType), field |-> Maybe(parse, "field"),
   columns |-> [c \in DOMAIN columns |-> AsInt(columns[c])],
   types |-> [c \in DOMAIN types |-> types[c].v],
   strip |-> Value(parse, "strip", << >>),
   wholeLine |-> Switch(parse, "whole_line"), table |-> Switch(parse, "table")]

ReadsTable(rule) == rule.table \/ DOMAIN rule.columns # {}
ColumnType(rule, c) == IF c \in DOMAIN rule.types THEN rule.types[c] ELSE rule.type

(***************************************************************************)
(* [quantity.<name>]                                                       *)
(***************************************************************************)
Repeats(q) == q.occurrence.is = "string" /\ q.occurrence.v = All
(* Slip: first and last are swapped.                                       *)
SlipNth(q) ==
  IF q.occurrence.is # "string" THEN AsInt(q.occurrence)
  ELSE IF q.occurrence.v = First THEN -1 ELSE 0
Nth(q) ==
  IF q.occurrence.is # "string" THEN AsInt(q.occurrence)
  ELSE IF q.occurrence.v = First THEN 0 ELSE -1

QuantityOf(body) ==
  [anchor |-> Value(body, "anchor", << >>),
   occurrence |-> IF "occurrence" \in DOMAIN body THEN body["occurrence"]
                  ELSE Toml("string", Latest),
   block |-> IF "block" \in DOMAIN body THEN <<BlockRule(body["block"].v)>> ELSE << >>,
   parse |-> ParseRule(Sub(body, "parse"))]

Readable(q) ==
  /\ q.anchor = << >> => ~Repeats(q)
  /\ ReadsTable(q.parse) => q.block # << >> \/ Repeats(q)
  /\ ~ReadsTable(q.parse) => q.parse.field # << >> \/ q.parse.wholeLine

ValidQuantity(body) ==
  /\ IsTable(body, QuantityKeys)
  /\ Has(body.v, "anchor", IsName)
  /\ Has(body.v, "occurrence", IsOccurrence)
  /\ Has(body.v, "block", ValidBlock)
  /\ Has(body.v, "parse", ValidParse)
  /\ Has(body.v, "description", IsString)
  /\ Readable(QuantityOf(body.v))

(***************************************************************************)
(* loads                                                                   *)
(***************************************************************************)
SpecError == [error |-> "SpecError"]
Literals(body, key) ==
  IF key \notin DOMAIN body THEN << >>
  ELSE IF IsString(body[key]) THEN <<body[key].v>>
  ELSE [i \in DOMAIN body[key].v |-> body[key].v[i].v]

Valid(doc) ==
  /\ Only(doc, SpecKeys)
  /\ "format" \in DOMAIN doc /\ IsName(doc["format"])
  /\ Has(doc, "signature", LAMBDA v : IsTable(v, SignatureKeys))
  /\ Has(doc, "terminator", LAMBDA v : IsTable(v, TerminatorKeys))
  /\ Has(doc, "quantity", LAMBDA v : IsTableOf(v, ValidQuantity))
  /\ \A key \in TerminatorKeys : Has(Sub(doc, "terminator"), key, IsLiterals)
  /\ \A key \in {"contains", "extensions"} : Has(Sub(doc, "signature"), key, IsLiterals)
  /\ Has(Sub(doc, "signature"), "priority", IsInt)

Loads(doc) ==
  IF ~Valid(doc) THEN SpecError
  ELSE LET quantity == Sub(doc, "quantity")
           signature == Sub(doc, "signature")
           terminator == Sub(doc, "terminator")
       IN [error |-> "none", format |-> doc["format"].v,
           quantities |-> [n \in DOMAIN quantity |-> QuantityOf(quantity[n].v)],
           ok |-> Literals(terminator, "ok"), errors |-> Literals(terminator, "error"),
           contains |-> Literals(signature, "contains"),
           extensions |-> Literals(signature, "extensions"),
           priority |-> Value(signature, "priority", 0)]
=============================================================================
