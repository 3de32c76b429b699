------------------------------- MODULE Engine -------------------------------
(***************************************************************************)
(* _engine.py: the pure-Python primitives every layer above works in.  A   *)
(* haystack is a sequence of characters, an offset counts from 0, a span   *)
(* is a pair <<first, past the last>>.  bytes.find and bytes.rfind are     *)
(* Python's.                                                               *)
(***************************************************************************)
EXTENDS Integers, Sequences, FiniteSets, SequencesExt, FiniteSetsExt

NotFound == -1
Newline == <<"\n">>

Byte(h, i) == h[i + 1]
Bytes(h, span) == SubSeq(h, span[1] + 1, span[2])
IsAt(h, needle, i) == i + Len(needle) <= Len(h) /\ Bytes(h, <<i, i + Len(needle)>>) = needle

(* The places of needle that lie whole in [from, to).                      *)
Occurrences(h, needle, from, to) ==
  {i \in from .. to - Len(needle) : IsAt(h, needle, i)}

Find(h, needle, from, to) ==
  LET hits == Occurrences(h, needle, from, to) IN
  IF hits = {} THEN NotFound ELSE Min(hits)
Rfind(h, needle, from, to) ==
  LET hits == Occurrences(h, needle, from, to) IN
  IF hits = {} THEN NotFound ELSE Max(hits)

(* Slip: the test that ends the walk comes before the hit is yielded.      *)
SlipIterRfind(h, needle, from, to) ==
  LET walk[stop \in 0 .. Len(h)] ==
        LET hit == Rfind(h, needle, from, stop) IN
        IF hit <= from THEN << >> ELSE <<hit>> \o walk[hit + Len(needle) - 1]
  IN walk[to]
(* Right to left; the next search ends one short of the end of the hit.    *)
IterRfind(h, needle, from, to) ==
  LET walk[stop \in 0 .. Len(h)] ==
        LET hit == Rfind(h, needle, from, stop) IN
        CASE hit = NotFound -> << >>
          [] hit # NotFound /\ hit <= from -> <<hit>>
          [] OTHER -> <<hit>> \o walk[hit + Len(needle) - 1]
  IN walk[to]

(* Slip: the hits that do not overlap, chosen from the right.              *)
SlipFromTheRight(h, needle, from, to) ==
  LET walk[stop \in 0 .. Len(h)] ==
        LET hit == Rfind(h, needle, from, stop) IN
        IF hit = NotFound THEN << >> ELSE walk[hit] \o <<hit>>
  IN walk[to]
(* Slip: the next search starts one character on.                          *)
SlipIterFind(h, needle, from, to) ==
  LET walk[pos \in 0 .. Len(h) + 1] ==
        LET hit == Find(h, needle, pos, to) IN
        IF hit = NotFound THEN << >> ELSE <<hit>> \o walk[hit + 1]
  IN walk[from]
(* Left to right; the next search starts past the hit.                     *)
IterFind(h, needle, from, to) ==
  LET walk[pos \in 0 .. Len(h)] ==
        LET hit == Find(h, needle, pos, to) IN
        IF hit = NotFound THEN << >> ELSE <<hit>> \o walk[hit + Len(needle)]
  IN walk[from]

Count(h, needle, from, to) == Len(IterFind(h, needle, from, to))

FindNth(h, needle, n, from, to) ==
  LET hits == IF n >= 0 THEN IterFind(h, needle, from, to) ELSE IterRfind(h, needle, from, to)
      index == IF n >= 0 THEN n + 1 ELSE -n
  IN IF index \in DOMAIN hits THEN hits[index] ELSE NotFound

(***************************************************************************)
(* Lines.                                                                  *)
(***************************************************************************)
LineStart(h, offset) == Rfind(h, Newline, 0, offset) + 1

OrEnd(h, hit) == IF hit = NotFound THEN Len(h) ELSE hit
DropReturn(h, from, stop) ==
  IF stop > from /\ Byte(h, stop - 1) = "\r" THEN stop - 1 ELSE stop
LineEnd(h, offset) == DropReturn(h, offset, OrEnd(h, Find(h, Newline, offset, Len(h))))

LineSpan(h, offset) == <<LineStart(h, offset), LineEnd(h, offset)>>

(* Where the line behind a newline starts, past the end when there is none:*)
(* a trailing newline opens no line.                                       *)
NextLine(h, nl) == IF nl = NotFound \/ nl + 1 >= Len(h) THEN Len(h) + 1 ELSE nl + 1

(* Slip: a trailing newline opens a line.                                  *)
SlipLineSpans(h, from, to) ==
  LET walk[pos \in 0 .. Len(h) + 1] ==
        LET stop == LineEnd(h, pos) IN
        IF pos > to THEN << >>
        ELSE <<<<pos, stop>>>> \o walk[OrEnd(h, Find(h, Newline, stop, Len(h))) + 1]
  IN IF h = << >> THEN << >> ELSE walk[LineStart(h, from)]
(* The lines that overlap [from, to), the first from its true start.       *)
LineSpans(h, from, to) ==
  LET walk[pos \in 0 .. Len(h) + 1] ==
        LET stop == LineEnd(h, pos) IN
        IF pos > to THEN << >>
        ELSE <<<<pos, stop>>>> \o walk[NextLine(h, Find(h, Newline, stop, Len(h)))]
  IN IF h = << >> THEN << >> ELSE walk[LineStart(h, from)]

AdvanceLines(h, offset, n) ==
  LET behind(nl) == IF nl = NotFound THEN Len(h) ELSE nl + 1
      forward[k \in Nat] ==
        IF k = 0 THEN LineStart(h, offset)
        ELSE behind(Find(h, Newline, forward[k - 1], Len(h)))
      back[k \in Nat] ==
        IF k = 0 THEN LineStart(h, offset)
        ELSE IF back[k - 1] = 0 THEN 0 ELSE LineStart(h, back[k - 1] - 1)
  IN IF n > 0 THEN forward[n] ELSE back[-n]

LineNumber(h, offset) == Count(h, Newline, 0, LineStart(h, offset)) + 1

(***************************************************************************)
(* Blocks.  until is a literal, which the empty one is too, Blank for an   *)
(* empty line, or NoUntil.                                                 *)
(***************************************************************************)
Blank == <<"BLANK">>
NoUntil == <<"NO UNTIL">>
White == {" ", "\r", "\n"}
Stripped(s) == LET ink == {i \in DOMAIN s : s[i] \notin White}
               IN IF ink = {} THEN << >> ELSE SubSeq(s, Min(ink), Len(s))

Stops(h, span, until) ==
  CASE until = Blank -> span[1] = span[2]
    [] until = NoUntil -> FALSE
    [] OTHER -> IsPrefix(until, Stripped(Bytes(h, span)))

(* The lines the loop of block_span takes.                                 *)
UpTo(h, spans, until, maxLines) ==
  LET stops == {i \in DOMAIN spans : i > maxLines \/ Stops(h, spans[i], until)}
  IN IF stops = {} THEN spans ELSE SubSeq(spans, 1, Min(stops) - 1)
(* Slip: one line more than asked for.                                     *)
SlipTaken(h, from, until, maxLines) ==
  UpTo(h, LineSpans(h, from, Len(h)), until, maxLines + 1)
Taken(h, from, until, maxLines) ==
  UpTo(h, LineSpans(h, from, Len(h)), until, maxLines)

Around(from, taken) == <<from, IF taken = << >> THEN from ELSE Last(taken)[2]>>
BlockAt(h, from, until, maxLines) ==
  IF from >= Len(h) THEN <<Len(h), Len(h)>> ELSE Around(from, Taken(h, from, until, maxLines))
BlockSpan(h, offset, skip, until, maxLines) ==
  BlockAt(h, AdvanceLines(h, offset, skip), until, maxLines)
=============================================================================
