------------------------------ MODULE Explain -------------------------------
(***************************************************************************)
(* _explain.py: where a quantity was looked for, next to what came of it.  *)
(* The trace does not look over the shoulder of extract(): it searches and *)
(* walks the block a second time.                                          *)
(***************************************************************************)
EXTENDS Extract

CONSTANT Preview  \* PREVIEW_LINES

ASSUME PreviewAssumption == Preview \in Nat

Explanation(at, line, preview, total, value) ==
  [at |-> at, line |-> line, preview |-> preview, total |-> total, value |-> value]
Nowhere(value) == Explanation(NotFound, 0, << >>, 0, value)
ExplanationFound(e) == e.at # NotFound

Upto(n, s) == SubSeq(s, 1, Min({n, Len(s)}))

(* Slip: the block is shown from the anchor on.                            *)
SlipBlockLines(h, q, at) ==
  IF q.block = << >> THEN << >> ELSE LineSpans(h, at, SpanOf(h, at, q.block[1])[2])
(* _preview: the lines of the block, of which the first few are shown.     *)
BlockLines(h, q, at) ==
  IF q.block = << >> THEN << >>
  ELSE LinesOf(h, SpanOf(h, at, q.block[1]))

ExplainOne(at, line, lines, value) ==
  IF at = NotFound THEN Nowhere(value)
  ELSE Explanation(at, line, Upto(Preview, lines), Len(lines), value)

(* _explain_repeated: the lines of the anchors stand for the block.        *)
ExplainRepeated(h, offsets, value) ==
  IF offsets = << >> THEN Nowhere(value)
  ELSE Explanation(offsets[1], LineNumber(h, offsets[1]),
                   [i \in DOMAIN Upto(Preview, offsets) |-> LineSpan(h, offsets[i])],
                   Len(offsets), value)

(* explain: registered parsers are not asked.                              *)
ExplainAt(h, q, at, value) == ExplainOne(at, LineNumber(h, at), BlockLines(h, q, at), value)
ExplainValue(h, q, value) ==
  IF Repeats(q) THEN ExplainRepeated(h, IterFind(h, q.anchor, 0, Len(h)), value)
  ELSE ExplainAt(h, q, AnchorOffset(h, q), value)
ExplainQuantity(h, q, compiled) == ExplainValue(h, q, ExtractQuantity(h, q, compiled))

(* format_explanation, the lines on the block and on the value.  A list    *)
(* is taken for a table: the names of its columns are sought in its first  *)
(* row, and sorted() of a number raises.                                   *)
Matches(q, e) == [label |-> IF Repeats(q) THEN "matches" ELSE "block", lines |-> e.total,
                  shown |-> Len(e.preview), more |-> e.total - Len(e.preview)]
IsList(q) == Repeats(q) \/ ReadsTable(q.parse)
Summary(q, value) ==
  CASE value.kind = "missing" -> value
    [] IsList(q) /\ ReadsTable(q.parse) ->
         [kind |-> "rows", rows |-> Len(value.value), columns |-> DOMAIN value.value[1]]
    [] IsList(q) /\ ~ReadsTable(q.parse) ->
         IF q.parse.type = StrType
         THEN [kind |-> "rows", rows |-> Len(value.value), columns |-> ToSet(value.value[1])]
         ELSE Raised
    [] ~IsList(q) -> value
Rendered(q, e) ==
  IF ~ExplanationFound(e) THEN [found |-> FALSE, value |-> e.value]
  ELSE [found |-> TRUE, at |-> e.at, line |-> e.line, block |-> Matches(q, e),
        value |-> IF e.value.kind = "raised" THEN Raised ELSE Summary(q, e.value)]
=============================================================================
