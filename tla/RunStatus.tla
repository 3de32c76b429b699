------------------------------ MODULE RunStatus ------------------------------
(***************************************************************************)
(* _check.py and the part of _sniff.py a single format needs: how a run    *)
(* ended, from the tail of its output, and whether its format can be told  *)
(* from the head.  A file is the sequence of lines of RunFile.             *)
(***************************************************************************)
EXTENDS Integers, Sequences

CONSTANTS
  TailLines,     \* TAIL_BYTES, in lines
  HeadLines      \* SNIFF_BYTES, in lines

ASSUME WindowAssumption == TailLines \in Nat \ {0} /\ HeadLines \in Nat \ {0}

Finished == {"ok", "error"}
Status == Finished \union {"running", "unknown"}

(* Source.tail: the whole lines among the last TAIL_BYTES bytes.           *)
TailOf(ls) == {ls[i] : i \in {j \in DOMAIN ls : j > Len(ls) - TailLines}}

(* The marker check() answers with: markers holds the kinds of terminator  *)
(* the spec declares, and an error wins over an ok wherever it stands.     *)
Verdict(ls, markers) ==
  IF "error" \in markers \intersect TailOf(ls) THEN "error"
  ELSE IF "ok" \in markers \intersect TailOf(ls) THEN "ok"
  ELSE "none"

(* Slips of _unterminated: a state no reader of Status knows, and a silent *)
(* file taken for a failed one.                                            *)
SlipNewState(exists, recent) ==
  IF exists /\ recent THEN "running" ELSE "dead"

SlipDeadIsError(exists, recent) ==
  IF exists /\ recent THEN "running" ELSE "error"

(* _unterminated: still running, or dead?                                  *)
Unterminated(exists, recent) ==
  IF exists /\ recent THEN "running" ELSE "unknown"

(* sniff_source: the banner is somewhere in the head.                      *)
Detected(ls) == \E i \in DOMAIN ls : i <= HeadLines /\ ls[i] = "banner"
=============================================================================
