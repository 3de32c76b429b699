------------------------------- MODULE Follow -------------------------------
(***************************************************************************)
(* watch.follow(): a generator that polls a file another program is        *)
(* writing and yields an Update each time its size has changed.            *)
(*                                                                         *)
(* One action per system call or file open of the loop, because the        *)
(* program that writes (RunFile) may move between any two of them: the     *)
(* size comes from getsize, the value from one Source, the status from a   *)
(* second Source, and the age of the file from a fourth call.              *)
(***************************************************************************)
EXTENDS RunFile, RunStatus

CONSTANTS
  NoLimit,       \* limit=None
  Limits,        \* the limits a caller may pass, NoLimit or a number
  MarkerSets     \* the kinds of terminator a spec may declare

ASSUME CallAssumption ==
  /\ NoLimit \notin Nat
  /\ Limits \subseteq Nat \union {NoLimit}
  /\ MarkerSets \subseteq SUBSET Marker

VARIABLES
  call,          \* the arguments, and what the spec declares
  pc,            \* where follow() is
  seen,          \* the size last acted on, -1 before the first
  run,           \* ghost: which run (count of rewrites) that size was of
  value,         \* the local of the same name
  state,         \* status.state
  last,          \* the Update last yielded
  produced       \* how many Updates were yielded

follow == <<call, pc, seen, run, value, state, last, produced>>
vars == <<file, follow>>

(* What the spec says of the quantity asked for: a rule that reads every   *)
(* line, a "fragile" one that some lines make raise (a column counted from *)
(* the right, IndexError on a short line; a compiled int column,           *)
(* OverflowError on an infinity), or nothing at all.                       *)
Quantity == {"plain", "fragile", "unknown"}
Call == [given: BOOLEAN, limit: Limits, markers: MarkerSets, quantity: Quantity]
PC == {"stat", "extract", "check", "age", "yield", "suspended", "sleep",
       "returned", "raised", "closed"}
Over == {"returned", "raised", "closed"}

(* What extract() read: the line it was read from (0: the anchor is not    *)
(* there, a missing Value), and whether that line was all there.           *)
Reading == [at: Nat, whole: BOOLEAN]
(* run is the ghost of the size, the rest are the fields of the class.     *)
Update == [value: Reading, size: Nat, state: Status, run: Nat]
NoReading == [at |-> 0, whole |-> TRUE]
NoUpdate == [value |-> NoReading, size |-> 0, state |-> "unknown", run |-> 0]

(* at is the line of the last anchor of ls, what find_nth(anchor, -1) finds*)
IsLatest(ls, at) ==
  /\ \A i \in DOMAIN ls : ls[i] \in ValueLine => i <= at
  /\ at # 0 => ls[at] \in ValueLine

Whole(ls, at) == at # 0 => ls[at] # "torn"

FollowInit ==
  /\ call \in Call
  /\ pc = "stat"
  /\ seen = -1
  /\ run = 0
  /\ value = NoReading
  /\ state = "unknown"
  /\ last = NoUpdate
  /\ produced = 0

Init == FileInit /\ FollowInit

(***************************************************************************)
(* Slips of the loop: variants of the actions below with one mistake each. *)
(* Every property of the runs rejects one of them.                         *)
(***************************************************************************)
(* The test against the size already seen is forgotten.                    *)
SlipNoSizeTest ==
  /\ pc = "stat"
  /\ exists
  /\ seen' = Size(lines)
  /\ run' = rewrites
  /\ pc' = "extract"
  /\ UNCHANGED <<file, call, value, state, last, produced>>

(* extract() may meet a line that its rule cannot take: one of the block   *)
(* behind an anchor that is there.                                         *)
MayStumble ==
  call.quantity = "fragile" /\ \E i \in DOMAIN lines : lines[i] \in ValueLine

(* The format is detected even when the caller named it.                   *)
SlipAlwaysDetect ==
  /\ pc = "extract"
  /\ ~exists \/ ~Detected(lines) \/ call.quantity = "unknown" \/ MayStumble
  /\ pc' = "raised"
  /\ UNCHANGED <<file, call, seen, run, value, state, last, produced>>

(* The Update asks for the size once more instead of using the one at hand.*)
SlipFreshSize ==
  /\ pc = "yield"
  /\ last' = [value |-> value, size |-> Size(lines), state |-> state,
              run |-> run]
  /\ produced' = produced + 1
  /\ value' = NoReading
  /\ state' = "unknown"
  /\ pc' = "suspended"
  /\ UNCHANGED <<file, call, seen, run>>

(* Only the limit ends the loop.                                           *)
SlipOnlyLimit == call.limit # NoLimit /\ produced >= call.limit

(* The remembered size is brought up to date after the sleep.              *)
SlipForgetGrowth ==
  /\ pc = "sleep"
  /\ pc' = "stat"
  /\ seen' = IF exists THEN Size(lines) ELSE seen
  /\ UNCHANGED <<file, call, run, value, state, last, produced>>

(* The body of the loop runs on a file that has grown, or shrunk.          *)
StatChanged ==
  /\ pc = "stat"
  /\ exists
  /\ Size(lines) # seen
  /\ seen' = Size(lines)
  /\ run' = rewrites
  /\ pc' = "extract"
  /\ UNCHANGED <<file, call, value, state, last, produced>>

(* getsize raised, or the size is the one already seen.                    *)
StatIdle ==
  /\ pc = "stat"
  /\ ~exists \/ Size(lines) = seen
  /\ pc' = "sleep"
  /\ UNCHANGED <<file, call, seen, run, value, state, last, produced>>

(* with Source(target) as src: find the spec and extract the quantity.     *)
Extract ==
  /\ pc = "extract"
  /\ exists
  /\ call.given \/ Detected(lines)
  /\ call.quantity # "unknown"
  /\ \E at \in 0 .. Len(lines) :
       /\ IsLatest(lines, at)
       /\ value' = [at |-> at, whole |-> Whole(lines, at)]
  /\ pc' = "check"
  /\ UNCHANGED <<file, call, seen, run, state, last, produced>>

(* The open fails, _detect or extract() raises SpecError, or a field of a  *)
(* line raises: follow() catches none of them.                             *)
ExtractRaises ==
  /\ pc = "extract"
  /\ \/ ~exists
     \/ ~(call.given \/ Detected(lines))
     \/ call.quantity = "unknown"
     \/ MayStumble
  /\ pc' = "raised"
  /\ UNCHANGED <<file, call, seen, run, value, state, last, produced>>

(* _check.check, a second Source on the same path.                         *)
CheckMarked ==
  /\ pc = "check"
  /\ exists
  /\ Verdict(lines, call.markers) # "none"
  /\ state' = Verdict(lines, call.markers)
  /\ pc' = "yield"
  /\ UNCHANGED <<file, call, seen, run, value, last, produced>>

CheckUnmarked ==
  /\ pc = "check"
  /\ exists
  /\ call.markers # {}
  /\ Verdict(lines, call.markers) = "none"
  /\ pc' = "age"
  /\ UNCHANGED <<file, call, seen, run, value, state, last, produced>>

CheckNoTerminators ==
  /\ pc = "check"
  /\ exists
  /\ call.markers = {}
  /\ state' = "unknown"
  /\ pc' = "yield"
  /\ UNCHANGED <<file, call, seen, run, value, last, produced>>

CheckRaises ==
  /\ pc = "check"
  /\ ~exists
  /\ pc' = "raised"
  /\ UNCHANGED <<file, call, seen, run, value, state, last, produced>>

(* _unterminated asks for the mtime in a call of its own.                  *)
Age ==
  /\ pc = "age"
  /\ state' = Unterminated(exists, recent)
  /\ pc' = "yield"
  /\ UNCHANGED <<file, call, seen, run, value, last, produced>>

(* The locals that went into the Update are dead from here on.             *)
Yield ==
  /\ pc = "yield"
  /\ last' = [value |-> value, size |-> seen, state |-> state,
              run |-> run]
  /\ produced' = produced + 1
  /\ value' = NoReading
  /\ state' = "unknown"
  /\ pc' = "suspended"
  /\ UNCHANGED <<file, call, seen, run>>

(* The tests after the yield, once the caller asks for the next Update.    *)
LimitReached == call.limit # NoLimit /\ produced >= call.limit
Stops == last.state \in Finished \/ LimitReached

Resume ==
  /\ pc = "suspended"
  /\ pc' = IF Stops THEN "returned" ELSE "sleep"
  /\ UNCHANGED <<file, call, seen, run, value, state, last, produced>>

(* The caller drops the generator instead.                                 *)
Close ==
  /\ pc = "suspended"
  /\ pc' = "closed"
  /\ UNCHANGED <<file, call, seen, run, value, state, last, produced>>

Wake ==
  /\ pc = "sleep"
  /\ pc' = "stat"
  /\ UNCHANGED <<file, call, seen, run, value, state, last, produced>>

FollowStep ==
  \/ StatChanged \/ StatIdle \/ Extract \/ ExtractRaises
  \/ CheckMarked \/ CheckUnmarked \/ CheckNoTerminators \/ CheckRaises
  \/ Age \/ Yield \/ Resume \/ Wake

Next ==
  \/ FileNext /\ UNCHANGED follow
  \/ FollowStep
  \/ Close

Spec == Init /\ [][Next]_vars

(* follow() is one thread that runs until it suspends, its sleeps end, and *)
(* its caller iterates.  Nothing is assumed of the program that writes.    *)
FairSpec == Spec /\ WF_vars(FollowStep)
-----------------------------------------------------------------------------
(***************************************************************************)
(* Properties.  rewrites counts the truncations and removals of the path;  *)
(* what an Update says is compared with the file while it is still of the  *)
(* run whose size the Update reports.                                      *)
(***************************************************************************)
Current == produced > 0 /\ last.run = rewrites

(* Every variable has its type.                                            *)
TypeOK ==
  /\ FileTypeOK
  /\ call \in Call
  /\ pc \in PC
  /\ seen \in Nat \union {-1}
  /\ run \in Nat
  /\ value \in Reading
  /\ state \in Status
  /\ last \in Update
  /\ produced \in Nat

(* No line within the first n half lines and after line at holds the       *)
(* quantity.                                                               *)
Covers(n, at) ==
  \A i \in Covered(n) :
    i \in DOMAIN lines /\ (lines[i] \in ValueLine => i <= at)

(* An Update never reports a size its value does not cover: of the lines   *)
(* within last.size, none after the one the value was read from holds the  *)
(* quantity.  It needs the size to be taken before the value, whatever is  *)
(* appended in between.                                                    *)
ValueCoversSize ==
  Current => Covers(last.size, last.value.at)

(* An Update that says finished is about a run that has ended: a run that  *)
(* is going on, or was killed without a terminator, is never called ok or  *)
(* error, whatever it writes between the calls follow() makes.             *)
FinishedMeansEnded == Current /\ last.state \in Finished => phase = "ended"

(* Sizes grow from one Update of a run to the next (tests/test_watch.py,   *)
(* "size is reported and grows"): nothing is yielded for an unchanged file.*)
SizesGrow ==
  [][produced' # produced /\ produced > 0 /\ last'.run = last.run
       => last.size < last'.size]_vars

(* A follow() of a quantity its rule can read, given the format, fails     *)
(* only when the file is taken away between two of its calls: an empty,    *)
(* unrecognised or half-written file is no reason.  Left out are the       *)
(* quantities of "fragile" rules, where extract() raises IndexError or     *)
(* OverflowError with the file in place, and those the spec does not have. *)
RaisesOnlyOnLoss ==
  pc = "raised" /\ call.given /\ call.quantity = "plain" => rewrites > 0

(* follow() is a watcher in the sense of Watched: every report it makes is *)
(* true of the file, or of a run that is over, no report follows one that  *)
(* says finished, and reports of one run grow.                             *)
ReportOf(u) ==
  [run |-> u.run, size |-> u.size, at |-> u.value.at, finished |-> u.state \in Finished]
Watcher == INSTANCE Watched WITH
  run <- rewrites, size <- Size(lines), ended <- phase = "ended",
  holds <- {i \in DOMAIN lines : lines[i] \in ValueLine},
  report <- ReportOf(last), count <- produced
IsAWatcher == Watcher!Spec

(* What makes the above inductive, in named parts.                         *)
Working == {"extract", "check", "age", "yield"}

(* The size at hand is one the file has reached, in a run not after the    *)
(* present one, and larger than that of the Update before it.              *)
SizesInv ==
  /\ pc \in Working => seen \in Nat
  /\ last.run <= run /\ run <= rewrites
  /\ run = rewrites => seen <= Size(lines)
  /\ produced > 0 /\ last.run = run =>
       /\ pc \in Working => last.size < seen
       /\ pc \in {"suspended", "sleep", "stat"} => last.size = seen

(* From extract() on, the value at hand covers the size at hand.           *)
ValueInv ==
  /\ pc \in {"check", "age", "yield"} /\ run = rewrites => Covers(seen, value.at)
  /\ ValueCoversSize

(* Only a run that has ended has a terminator in its file.                 *)
MarkerInv ==
  /\ (\E i \in DOMAIN lines : lines[i] \in Marker) => phase = "ended"
  /\ pc = "yield" /\ run = rewrites /\ state \in Finished => phase = "ended"
  /\ FinishedMeansEnded

LossInv ==
  /\ pc \in {"extract", "check"} /\ ~exists => rewrites > 0
  /\ RaisesOnlyOnLoss

(* The loop goes on only after an Update that was not the last.            *)
StillOpen ==
  pc \in Working \union {"stat", "sleep"} => produced = 0 \/ last.state \notin Finished

IInv == TypeOK /\ SizesInv /\ ValueInv /\ MarkerInv /\ LossInv

(* The value and the state of an Update are those of "one observation", as *)
(* the docstring of Update has it: an Update that calls the run ok carries *)
(* the last value of that run.  The code reads the value and the status    *)
(* from two Sources opened one after the other.                            *)
FinalValueIsFinal ==
  Current /\ last.state = "ok" => IsLatest(lines, last.value.at) /\ last.value.whole

(* A run that ended with a terminator that stays in the tail is noticed,   *)
(* and follow() stops.                                                     *)
TerminatedRunStopsFollow ==
  [](rewrites = 0) /\ <>[](Verdict(lines, call.markers) # "none")
    => <>(pc \in Over)

(* Whatever size the file reaches, an Update at least that large follows,  *)
(* or follow() is over.                                                    *)
GrowthIsReported ==
  [](rewrites = 0) =>
    \A n \in 1 .. 2 * MaxLines :
      exists /\ Size(lines) >= n
        ~> pc \in Over \/ (produced > 0 /\ last.size >= n)
=============================================================================
