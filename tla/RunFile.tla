------------------------------- MODULE RunFile -------------------------------
(***************************************************************************)
(* The output file of a calculation and the program that writes it.        *)
(*                                                                         *)
(* The program is no part of the repository: this is the environment that  *)
(* watch.py and _check.py are written for (tests/test_watch.py plays it    *)
(* with a thread that appends to a temporary file).  A file is a sequence  *)
(* of lines; of a line only its role is kept.  The last line may be torn,  *)
(* that is, flushed to disk only up to its middle.                         *)
(***************************************************************************)
EXTENDS Integers, Sequences

CONSTANTS
  MaxLines,      \* bound: lines the first run writes, one fewer per rewrite
  MaxRewrites    \* bound: how often the file is truncated or removed

ASSUME BoundsAssumption == MaxLines \in Nat /\ MaxRewrites \in Nat

VARIABLES
  exists,        \* the path names a file
  lines,         \* its content
  recent,        \* the last write is younger than RUNNING_WINDOW
  phase,         \* what the program is doing
  rewrites       \* truncations and removals so far

file == <<exists, lines, recent, phase, rewrites>>

(* "text" is furniture, "banner" what the format is recognised by, "value" *)
(* a line the quantity's anchor is on, "torn" the first half of such a     *)
(* line, "ok" and "error" the two kinds of terminator.                     *)
Marker == {"ok", "error"}
Line == {"text", "banner", "value", "torn"} \union Marker
ValueLine == {"value", "torn"}
Phase == {"queued", "running", "ended", "dead"}

Torn(ls) == Len(ls) > 0 /\ ls[Len(ls)] = "torn"

(* Bytes, in half lines: enough to tell a torn line from a whole one.      *)
Size(ls) == IF Torn(ls) THEN 2 * Len(ls) - 1 ELSE 2 * Len(ls)

(* The lines that lie, whole or in part, in the first n half lines.        *)
Covered(n) == 1 .. ((n + 1) \div 2)

FileInit ==
  /\ exists = FALSE
  /\ lines = << >>
  /\ recent = FALSE
  /\ phase = "queued"
  /\ rewrites = 0

Put(l) ==
  /\ Len(lines) + rewrites < MaxLines
  /\ ~Torn(lines)
  /\ lines' = Append(lines, l)
  /\ recent' = TRUE

(* The job leaves the queue and opens its output.                          *)
Create ==
  /\ phase = "queued"
  /\ exists' = TRUE
  /\ recent' = TRUE
  /\ phase' = "running"
  /\ UNCHANGED <<lines, rewrites>>

Write ==
  /\ phase = "running"
  /\ \E l \in Line \ Marker : Put(l)
  /\ UNCHANGED <<exists, phase, rewrites>>

(* The rest of a torn line reaches the disk.                               *)
Complete ==
  /\ phase = "running"
  /\ Torn(lines)
  /\ lines' = [lines EXCEPT ![Len(lines)] = "value"]
  /\ recent' = TRUE
  /\ UNCHANGED <<exists, phase, rewrites>>

Terminate ==
  /\ phase = "running"
  /\ \E m \in Marker : Put(m)
  /\ phase' = "ended"
  /\ UNCHANGED <<exists, rewrites>>

(* A run may print more after its terminator, and it may still die after   *)
(* something that looks like success (_check.py, the comment on markers).  *)
Trail ==
  /\ phase = "ended"
  /\ \E l \in {"text", "error"} : Put(l)
  /\ UNCHANGED <<exists, phase, rewrites>>

(* Killed without a word: no terminator, and nothing is written any more.  *)
Die ==
  /\ phase = "running"
  /\ phase' = "dead"
  /\ UNCHANGED <<exists, lines, recent, rewrites>>

(* The same path is used again: truncated by a new run, or removed.        *)
Truncate ==
  /\ phase # "queued"
  /\ rewrites < MaxRewrites
  /\ lines' = << >>
  /\ recent' = TRUE
  /\ phase' = "running"
  /\ rewrites' = rewrites + 1
  /\ UNCHANGED exists

Remove ==
  /\ phase # "queued"
  /\ rewrites < MaxRewrites
  /\ exists' = FALSE
  /\ lines' = << >>
  /\ recent' = FALSE
  /\ phase' = "queued"
  /\ rewrites' = rewrites + 1

(* RUNNING_WINDOW seconds pass without a write.                            *)
GoQuiet ==
  /\ exists /\ recent
  /\ recent' = FALSE
  /\ UNCHANGED <<exists, lines, phase, rewrites>>

FileNext ==
  \/ Create \/ Write \/ Complete \/ Terminate \/ Trail
  \/ Die \/ Truncate \/ Remove \/ GoQuiet

FileTypeOK ==
  /\ exists \in BOOLEAN
  /\ lines \in Seq(Line)
  /\ recent \in BOOLEAN
  /\ phase \in Phase
  /\ rewrites \in Nat
=============================================================================
