-------------------------------- MODULE Sniff --------------------------------
(***************************************************************************)
(* _sniff.py: a list of signatures in match order, and the format they     *)
(* give a file.  A signature is named by its format; of a file only which  *)
(* signatures its head and its suffix satisfy is kept.                     *)
(***************************************************************************)
EXTENDS Integers, Sequences, SequencesExt

CONSTANTS
  Formats,       \* every format a signature or a spec names
  NoFormat,      \* sniff_source found nothing
  Priority,      \* Signature.priority, by format
  Builtin,       \* the formats with a signature of their own in _sniff.py,
                 \* in the order register() left them in
  Files,
  Banner,        \* the formats whose literals are all in the file's head
  Suffix         \* the formats that declare the file's extension

ASSUME SniffAssumption ==
  /\ NoFormat \notin Formats
  /\ Priority \in [Formats -> Int]
  /\ Builtin \in Seq(Formats)
  /\ \A i, j \in DOMAIN Builtin : i < j => Priority[Builtin[j]] <= Priority[Builtin[i]]
  /\ Banner \in [Files -> SUBSET Formats]
  /\ Suffix \in [Files -> SUBSET Formats]

Before(f, g) == Priority[f] > Priority[g]

(* list.sort with key -priority: highest first, ties in the order they had.*)
Place(list, i) ==
  1 + Cardinality({j \in DOMAIN list : \/ Before(list[j], list[i])
                                       \/ j < i /\ ~Before(list[i], list[j])})
Sorted(list) ==
  [n \in DOMAIN list |-> list[CHOOSE i \in DOMAIN list : Place(list, i) = n]]

(* The items of a list at some of its indices, in order: what a loop over  *)
(* the list leaves when a condition skips the others.                      *)
Kept(list, hits) ==
  [n \in 1 .. Cardinality(hits) |->
     list[CHOOSE i \in hits : Cardinality({j \in hits : j < i}) = n - 1]]

(* sniff_source on a list nobody else changes: the first signature whose   *)
(* literals are in the head, else the first that declares the suffix.      *)
FirstIn(list, wanted) ==
  LET hits == {i \in DOMAIN list : list[i] \in wanted}
  IN  IF hits = {} THEN NoFormat
      ELSE list[CHOOSE i \in hits : \A j \in hits : i <= j]

Detect(list, file) ==
  IF FirstIn(list, Banner[file]) # NoFormat
  THEN FirstIn(list, Banner[file])
  ELSE FirstIn(list, Suffix[file])
=============================================================================
