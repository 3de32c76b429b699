------------------------------ MODULE Watched -------------------------------
(***************************************************************************)
(* What the caller of follow() may rely on, without polls, opens, windows  *)
(* and markers: a file that grows, ends and starts anew, and reports about *)
(* it that are out of date at worst.  Follow implements it.                *)
(*                                                                         *)
(* A report may come late: the file may have grown since, or belong to     *)
(* another run.  What it may never do is claim more than it has read.      *)
(***************************************************************************)
EXTENDS Integers

VARIABLES
  run,           \* which run the file is of
  size,          \* how far it is written, in half lines
  ended,         \* the run has printed how it ended
  holds,         \* the numbers of the lines the quantity stands on
  report,        \* the last report: run, size, at and finished
  count          \* how many reports there were

vars == <<run, size, ended, holds, report, count>>
reports == <<report, count>>

(* The lines that begin within the first n half lines.                     *)
Begun(n) == {i \in holds : 2 * i - 1 <= n}

Init ==
  /\ run = 0 /\ size = 0
  /\ ended = FALSE
  /\ holds = {}
  /\ count = 0

(* What is written stays, and what comes is behind it.                     *)
Write ==
  /\ size <= size'
  /\ ended => ended'
  /\ holds \subseteq holds'
  /\ \A i \in holds' \ holds : 2 * i - 1 > size
  /\ UNCHANGED <<run, reports>>

Restart ==
  /\ run' = run + 1
  /\ size' = 0 /\ holds' = {}
  /\ ended' = FALSE
  /\ UNCHANGED reports

(* True of the file as it is now.                                          *)
Honest(r) ==
  /\ r.size <= size
  /\ \A i \in Begun(r.size) : i <= r.at
  /\ r.finished => ended

Report ==
  /\ count = 0 \/ ~report.finished
  /\ count' = count + 1
  /\ report'.run <= run
  /\ report'.run = run => Honest(report')
  /\ count > 0 =>
       /\ report.run <= report'.run
       /\ report.run = report'.run => report.size < report'.size
  /\ UNCHANGED <<run, size, ended, holds>>

Next == Write \/ Restart \/ Report
Spec == Init /\ [][Next]_vars
=============================================================================
