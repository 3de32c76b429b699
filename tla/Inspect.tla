------------------------------ MODULE Inspect -------------------------------
(***************************************************************************)
(* Looking at a file without a spec: the head and the tail of a Source,    *)
(* and the verbs cat and scan of cli.py.  A verb is what it prints, one    *)
(* element for each line, and the status it exits with.                    *)
(***************************************************************************)
EXTENDS Engine

Printed(out, exit) == [out |-> out, exit |-> exit]

(***************************************************************************)
(* source.py: head_span and tail_span.                                     *)
(***************************************************************************)
HeadSpan(h, n) ==
  LET end == Min({n, Len(h)}) IN <<0, IF end < Len(h) THEN LineStart(h, end) ELSE end>>

(* Slip: the cut is taken for the start of a line.                         *)
SlipTailSpan(h, n) == <<Max({0, Len(h) - n}), Len(h)>>
TailSpan(h, n) ==
  LET start == Max({0, Len(h) - n}) IN
  <<IF start > 0 THEN AdvanceLines(h, start, 1) ELSE start, Len(h)>>

(***************************************************************************)
(* cat: a range of lines, else the tail, else the head, else all of it.  A *)
(* tail or a head of 0 bytes is none.                                      *)
(***************************************************************************)
PrintLines(h, lines) ==
  Printed([i \in DOMAIN lines |-> Bytes(h, lines[i])], IF lines = << >> THEN 1 ELSE 0)
Within(lines, first, last) == SubSeq(lines, Max({first, 1}), Min({last, Len(lines)}))
(* Slip: lines are counted from 0.                                         *)
SlipCatLines(h, first, last) ==
  PrintLines(h, Within(LineSpans(h, 0, Len(h)), first + 1, last + 1))
CatLines(h, first, last) == PrintLines(h, Within(LineSpans(h, 0, Len(h)), first, last))
CatBytes(h, tail, head) ==
  Printed(<<Bytes(h, IF tail # 0 THEN TailSpan(h, tail)
                     ELSE IF head # 0 THEN HeadSpan(h, head) ELSE <<0, Len(h)>>)>>, 0)

(***************************************************************************)
(* scan                                                                    *)
(***************************************************************************)
ScanCount(h, needle) == Printed(<<Count(h, needle, 0, Len(h))>>, 0)
PrintHits(h, hits) ==
  Printed([i \in DOMAIN hits |-> [at |-> hits[i], number |-> LineNumber(h, hits[i]),
                                  line |-> LineSpan(h, hits[i])]],
          IF hits = << >> THEN 1 ELSE 0)
(* A search that finds nothing answers -1, which is no hit.                *)
Found(at) == IF at = NotFound THEN << >> ELSE <<at>>
Scan(h, needle, latest) ==
  PrintHits(h, IF latest THEN Found(Rfind(h, needle, 0, Len(h)))
               ELSE IterFind(h, needle, 0, Len(h)))
=============================================================================
