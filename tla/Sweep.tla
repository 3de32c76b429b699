-------------------------------- MODULE Sweep --------------------------------
(***************************************************************************)
(* batch.py: get_many and check_many over a thread pool, on top of the     *)
(* registry the workers share.  Each file is opened, its format resolved,  *)
(* its quantities or its terminator looked for; an exception is that       *)
(* file's result.  When all are done the main thread folds the results, in *)
(* path order, into rows and errors or into statuses, and the command line *)
(* (cli.py) makes its exit status of them.                                 *)
(***************************************************************************)
EXTENDS Registry, Record

CONSTANTS
  PathLists,     \* the paths a caller sweeps over, in order
  Unreadable,    \* the files that cannot be opened
  Quantities,    \* those asked for, at least one (cli.py)
  Reads,         \* their values, by a format's spec in a file; or Error,
                 \* when extract() raises
  Ending,        \* how a run ended, by a format's terminators in its file
  Pending,       \* no result yet
  Error,         \* an exception travelled back
  WorkerCounts,  \* what _workers may give
  MaxSweeps,     \* bound: sweeps of the process
  MaxRefreshes,  \* bound: registry.refresh() calls
  MaxEdits       \* bound: spec files removed

Endings == {"ok", "error", "unknown"}
WholeFile == "file"

ASSUME SweepAssumption ==
  /\ PathLists \subseteq Seq(Files)
  /\ Unreadable \subseteq Files
  /\ Quantities # {} /\ IsFiniteSet(Quantities) /\ WholeFile \notin Quantities
  /\ \A file \in Files, format \in Formats :
       LET values == Reads[file][format] IN
       values = Error \/ (DOMAIN values = Quantities /\ \A n \in Quantities : IsValue(values[n]))
  /\ Ending \in [Files -> [Formats -> Endings]]
  /\ Pending \notin Formats /\ Error \notin Formats /\ Pending # Error
  /\ IsFiniteSet(Threads)
  /\ WorkerCounts \subseteq 1 .. Cardinality(Threads)
  /\ MaxSweeps \in Nat /\ MaxRefreshes \in Nat /\ MaxEdits \in Nat

VARIABLES
  paths,         \* of the sweeps of this process
  phase,         \* of the main thread
  job,           \* what the sweep is for, "get" or "check"
  active,        \* the threads of this sweep's pool
  next,          \* the next path nobody took
  task,          \* per thread, the index of its path
  results,       \* per path: the format it was given, or Error
  rows,          \* sweep.table.rows, in the parts they were added in, each
                 \* with the index of its path
  errors,        \* sweep.errors: pairs of an index and a quantity, or WholeFile
  statuses,      \* what check_many returned
  counts,        \* sweeps, refreshes and edits so far
  raced,         \* ghost: a parallel sweep met an empty registry
  edited         \* ghost: a spec was removed after its signature went out

folded == <<rows, errors, statuses>>
sweep == <<phase, job, active, folded>>
batch == <<paths, sweep, next, task, results, counts, raced, edited>>
vars == <<registry, thread, batch>>

Index == DOMAIN paths
NoResults == [i \in Index |-> Pending]
File(t) == paths[task[t]]

Init ==
  /\ RegistryInit
  /\ paths \in PathLists
  /\ phase = "idle"
  /\ job = "get"
  /\ active = {}
  /\ next = 1
  /\ task = [t \in Threads |-> 0]
  /\ results = NoResults
  /\ rows = << >>
  /\ errors = {}
  /\ statuses = << >>
  /\ counts = [sweeps |-> 0, refreshes |-> 0, edits |-> 0]
  /\ raced = FALSE
  /\ edited = FALSE

(* What one thread alone gives a file, with the specs on disk.             *)
Expected(file) ==
  LET format == Detect(Sorted(Builtin \o OnDisk), file)
  IN  IF file \in Unreadable \/ format \notin disk THEN Error ELSE format

-----------------------------------------------------------------------------
(* Slips.                                                                  *)

(* A failed file ends its worker: the rest of the pool goes on without it. *)
SlipWorkerDies(t) ==
  /\ pc[t] \in {"found", "failed"}
  /\ results' = [results EXCEPT ![task[t]] = IF pc[t] = "found" THEN detected[t] ELSE Error]
  /\ Goto(t, IF pc[t] = "found" THEN "idle" ELSE "failed")
  /\ UNCHANGED <<registry, todo, saved, pos, detected, paths, sweep, next, task, counts,
                 raced, edited>>

(* The path counter is read, and only later advanced.                      *)
SlipTakeTwice(t) ==
  /\ phase = "sweeping"
  /\ t \in active
  /\ pc[t] = "idle"
  /\ \E i \in Index :
       /\ i \in {next, next - 1}
       /\ task' = [task EXCEPT ![t] = i]
       /\ next' = i + 1
       /\ Goto(t, IF paths[i] \in Unreadable THEN "failed" ELSE "check")
  /\ UNCHANGED <<registry, todo, saved, pos, detected, paths, sweep, results, counts,
                 raced, edited>>

(***************************************************************************)
(* What the main thread makes of the results.                              *)
(***************************************************************************)
(* What the spec of that format reads in the file, of which one() gives    *)
(* the values, or raises.                                                  *)
Read(i) == Reads[paths[i]][results[i]]
Fails(i) == results[i] = Error \/ Read(i) = Error
TableOf(i) == FromValues(Read(i), {}, paths[i])

(* rows.extend(table.rows), for every file that gave values.               *)
Part(i) == [path |-> i, rows |-> TableOf(i).rows]
Answered == Kept([i \in Index |-> i], {i \in Index : ~Fails(i)})
Rows == [n \in DOMAIN Answered |-> Part(Answered[n])]
Misses(i) == IF Fails(i) THEN {WholeFile} ELSE TableOf(i).missing
(* Slip: what a file lacks is left out of the errors.                      *)
SlipErrors == {<<i, WholeFile>> : i \in {i \in Index : Fails(i)}}
Errors == UNION {{<<i, name>> : name \in Misses(i)} : i \in Index}

(* check: that no spec is there, or that it raised, leaves the state       *)
(* unknown.                                                                *)
StatusOf(file, format) == IF format = Error THEN "unknown" ELSE Ending[file][format]
Statuses == [i \in Index |-> StatusOf(paths[i], results[i])]

(* The exit statuses of tolk get and tolk check.                           *)
GetExit == IF errors = {} THEN 0 ELSE 1
CheckExit == IF \A i \in DOMAIN statuses : statuses[i] = "ok" THEN 0 ELSE 1

-----------------------------------------------------------------------------
(* With one worker or fewer than two paths the main thread does the work  *)
(* itself, here as a pool of one.                                          *)
Begin ==
  /\ phase = "idle"
  /\ counts.sweeps < MaxSweeps
  /\ \E n \in WorkerCounts :
       /\ active' \in {T \in SUBSET Threads :
                         Cardinality(T) = IF Len(paths) < 2 THEN 1 ELSE n}
       /\ raced' = (raced \/ (cache = NoCache /\ Cardinality(active') > 1))
  /\ phase' = "sweeping"
  /\ job' \in {"get", "check"}
  /\ next' = 1
  /\ results' = NoResults
  /\ rows' = << >>
  /\ errors' = {}
  /\ statuses' = << >>
  /\ counts' = [counts EXCEPT !.sweeps = @ + 1]
  /\ UNCHANGED <<registry, thread, paths, task, edited>>

(* A worker takes the next path and opens it.                              *)
Take(t) ==
  /\ phase = "sweeping"
  /\ t \in active
  /\ pc[t] = "idle"
  /\ next \in Index
  /\ task' = [task EXCEPT ![t] = next]
  /\ next' = next + 1
  /\ Goto(t, IF paths[next] \in Unreadable THEN "failed" ELSE "check")
  /\ UNCHANGED <<registry, todo, saved, pos, detected, paths, sweep, results, counts,
                 raced, edited>>

Work(t) ==
  /\ pc[t] # "idle"
  /\ Resolve(t, File(t))
  /\ UNCHANGED batch

(* guarded: the outcome, or the exception, becomes the result of the path. *)
Deliver(t) ==
  /\ pc[t] \in {"found", "failed"}
  /\ results' = [results EXCEPT ![task[t]] = IF pc[t] = "found" THEN detected[t] ELSE Error]
  /\ detected' = [detected EXCEPT ![t] = NoFormat]
  /\ task' = [task EXCEPT ![t] = 0]
  /\ Goto(t, "idle")
  /\ UNCHANGED <<registry, todo, saved, pos, paths, sweep, next, counts, raced, edited>>

(* The loop over zip(paths, map_files(...)) once the pool has shut down.   *)
Collect ==
  IF job = "get" THEN rows' = Rows /\ errors' = Errors /\ UNCHANGED statuses
  ELSE statuses' = Statuses /\ UNCHANGED <<rows, errors>>
Collate ==
  /\ phase = "sweeping"
  /\ \A i \in Index : results[i] # Pending
  /\ Collect
  /\ phase' = "idle"
  /\ active' = {}
  /\ UNCHANGED <<registry, thread, paths, job, next, task, results, counts, raced, edited>>

RefreshRegistry ==
  /\ phase = "idle"
  /\ counts.refreshes < MaxRefreshes
  /\ Refresh
  /\ counts' = [counts EXCEPT !.refreshes = @ + 1]
  /\ UNCHANGED <<paths, sweep, next, task, results, raced, edited>>

EditSpecs ==
  /\ phase = "idle"
  /\ counts.edits < MaxEdits
  /\ RemoveSpec
  /\ counts' = [counts EXCEPT !.edits = @ + 1]
  /\ edited' = (edited \/ counts.sweeps > 0)
  /\ UNCHANGED <<paths, sweep, next, task, results, raced>>

Worker(t) == Take(t) \/ Work(t) \/ Deliver(t)

Next ==
  \/ Begin \/ Collate \/ RefreshRegistry \/ EditSpecs
  \/ \E t \in Threads : Worker(t)

Spec == Init /\ [][Next]_vars

(* The interpreter runs every thread of the pool, and the main thread      *)
(* waits for them; when a sweep starts is the caller's business.           *)
FairSpec == Spec /\ WF_vars(Collate) /\ \A t \in Threads : WF_vars(Worker(t))

-----------------------------------------------------------------------------
(***************************************************************************)
(* Properties.                                                             *)
(***************************************************************************)

(* Every variable has its type.                                            *)
TypeOK ==
  /\ RegistryTypeOK
  /\ paths \in PathLists
  /\ phase \in {"idle", "sweeping"}
  /\ job \in {"get", "check"}
  /\ active \subseteq Threads
  /\ next \in 1 .. Len(paths) + 1
  /\ task \in [Threads -> Index \union {0}]
  /\ results \in [Index -> Formats \union {Pending, Error}]
  /\ rows \in Seq({rows[n] : n \in DOMAIN rows}) /\ \A n \in DOMAIN rows : rows[n].path \in Index
  /\ errors \subseteq Index \X (Quantities \union {WholeFile})
  /\ statuses \in [Index -> Endings] \union {<< >>}
  /\ counts \in [sweeps: 0 .. MaxSweeps, refreshes: 0 .. MaxRefreshes, edits: 0 .. MaxEdits]
  /\ raced \in BOOLEAN /\ edited \in BOOLEAN

IsOver(what) == phase = "idle" /\ counts.sweeps > 0 /\ job = what

(* Unless a parallel sweep ever met an empty registry, every file gets     *)
(* what a single thread gives it, in whatever order the workers run, after *)
(* any number of refreshes that publish the same signatures again; and     *)
(* tolk check succeeds when every run has ended well, and only then.       *)
UnracedSweepIsSequential ==
  ~raced /\ ~edited =>
    /\ \A i \in Index : results[i] \in {Pending, Expected(paths[i])}
    /\ IsOver("check") =>
         (CheckExit = 0 <=> \A i \in Index : StatusOf(paths[i], Expected(paths[i])) = "ok")

(* Even when loaders race and a sort loses signatures, no file is given a  *)
(* format that neither its content nor its suffix speaks for, or that has  *)
(* no spec.                                                                *)
FormatsAreEarned ==
  \A i \in Index : results[i] \in Formats =>
    /\ results[i] \in Banner[paths[i]] \union Suffix[paths[i]]
    /\ results[i] \in Loaded

(* A sweep that is over accounts for every path exactly once, by an error  *)
(* or by rows, which stand in path order.  With at most one list among a   *)
(* path's values its rows show them all, a missing quantity is in the      *)
(* errors, and nothing that was read is there.  Two lists or more are in   *)
(* neither: the path has one row of its scalars (record.py:81-85,          *)
(* batch.py:110-114).  tolk get succeeds when every path was read and no   *)
(* quantity is missing, two lists or not (README: "recorded in errors and  *)
(* the sweep continues").                                                  *)
Unread == {i \in Index : <<i, WholeFile>> \in errors}
Shown(part) ==
  IF Cardinality(ListsOf(Read(part.path))) <= 1 THEN Shows(part.rows, Read(part.path))
  ELSE ShowsScalars(part.rows, Read(part.path))
Absent(i) == {name \in Quantities : Read(i)[name].kind = "missing"}
EveryPathAccounted ==
  IsOver("get") =>
    /\ {rows[n].path : n \in DOMAIN rows} = Index \ Unread
    /\ \A m, n \in DOMAIN rows : m < n => rows[m].path < rows[n].path
    /\ \A n \in DOMAIN rows : Shown(rows[n])
    /\ \A i \in Index \ Unread, name \in Quantities : <<i, name>> \in errors <=> name \in Absent(i)
    /\ GetExit = 0 <=> Unread = {} /\ \A i \in Index : Absent(i) = {}

(* Within a sweep a path gets one result, and keeps it.                    *)
ResultsStick ==
  [][phase = "sweeping" =>
       \A i \in Index : results[i] # Pending => results'[i] = results[i]]_vars

(* A sweep that began comes to its end, whatever fails in it.              *)
SweepCompletes == phase = "sweeping" ~> phase = "idle"

(* "The engine holds no mutable global state, so running it from several   *)
(* threads is safe": many workers give what a single one gives.            *)
SingleWorkerMatchesMany ==
  ~edited => \A i \in Index : results[i] \in {Pending, Expected(paths[i])}

-----------------------------------------------------------------------------
(***************************************************************************)
(* The inductive invariant.                                                *)
(***************************************************************************)

(* A busy thread works, in a sweep, on a path of its own that has no       *)
(* result yet; nor have the paths nobody took.                             *)
TaskInv ==
  /\ \A t \in Threads : pc[t] # "idle" =>
       /\ phase = "sweeping" /\ t \in active
       /\ task[t] \in Index /\ task[t] < next /\ results[task[t]] = Pending
  /\ \A t, u \in Threads : pc[t] # "idle" /\ pc[u] # "idle" /\ task[t] = task[u] => t = u
  /\ phase = "sweeping" => \A i \in Index : i >= next => results[i] = Pending

(* A format is earned step by step.                                        *)
EarnedInv ==
  /\ disk \subseteq Loaded /\ (cache # NoCache => cache \subseteq Loaded)
  /\ \A t \in Threads :
       /\ pc[t] \in {"get", "found"} => detected[t] \in Banner[File(t)] \union Suffix[File(t)]
       /\ pc[t] = "found" => detected[t] \in Loaded

(* Between two sweeps the fold is that of the last results.                *)
FoldInv ==
  /\ phase = "idle" /\ counts.sweeps > 0 => \A i \in Index : results[i] # Pending
  /\ IsOver("get") => rows = Rows /\ errors = Errors
  /\ IsOver("check") => statuses = Statuses

(* A sort is of a list something was just appended to.                     *)
PublishInv == \A t \in Threads : pc[t] \in {"sort", "sorting"} => todo[t] # << >>

BaseInv == TypeOK /\ PublishInv /\ TaskInv /\ EarnedInv /\ FormatsAreEarned /\ FoldInv

(* Two lists give every file the same format when they hold the same       *)
(* formats and rank those of equal priority alike, by where each is first. *)
Elements(list) == {list[i] : i \in DOMAIN list}
Tied(f, g) == ~Before(f, g) /\ ~Before(g, f)
Leads(list, f, g) ==
  \E i \in DOMAIN list : list[i] = f /\ \A j \in DOMAIN list : list[j] = g => i < j
Alike(list, other) ==
  /\ Elements(list) = Elements(other)
  /\ \A f, g \in Formats : Tied(f, g) => (Leads(list, f, g) <=> Leads(other, f, g))
Ordered(list) == \A i, j \in DOMAIN list : i < j => ~Before(list[j], list[i])

(* What a single loader makes of the list, with what it has yet to publish.*)
Ideal == Builtin \o OnDisk
Upcoming(t) ==
  CASE pc[t] = "load" -> sigs \o OnDisk
    [] pc[t] = "append" -> sigs \o todo[t]
    [] pc[t] = "sort" -> sigs \o Tail(todo[t])
    [] pc[t] = "sorting" -> saved[t].items \o Tail(todo[t])

(* Without a race whoever publishes is alone, and its sorts succeed; with  *)
(* nobody publishing, the list is ordered and as good as the ideal one.    *)
Publishes(t) == pc[t] \in Publishing
AloneInv ==
  /\ phase = "sweeping" /\ (cache = NoCache \/ \E t \in Threads : Publishes(t)) =>
       \A t, u \in active : t = u
  /\ \A t \in Threads :
       /\ pc[t] = "load" => cache = NoCache
       /\ pc[t] \in (Step \ {"idle", "check", "load", "failed"}) => cache # NoCache
       /\ pc[t] = "sorting" => fresh
ListInv ==
  /\ \A t \in Threads : Publishes(t) =>
       /\ Alike(Upcoming(t), Ideal)
       /\ pc[t] \in {"load", "append"} => Ordered(sigs)
  /\ (\A t \in Threads : ~Publishes(t)) =>
       /\ Ordered(sigs)
       /\ Alike(IF cache = NoCache THEN sigs \o OnDisk ELSE sigs, Ideal)

(* Where a scan has got to, and what it gave.                              *)
Passed(t, wanted) == \A i \in DOMAIN sigs : i < pos[t] => sigs[i] \notin wanted
ScanInv ==
  \A t \in Threads :
    /\ pc[t] \notin {"idle", "failed"} => File(t) \notin Unreadable
    /\ pc[t] = "content" => Passed(t, Banner[File(t)])
    /\ pc[t] = "suffix" =>
         /\ \A i \in DOMAIN sigs : sigs[i] \notin Banner[File(t)]
         /\ Passed(t, Suffix[File(t)])
    /\ pc[t] = "get" => detected[t] = Detect(Sorted(Ideal), File(t))
    /\ pc[t] = "found" => detected[t] = Expected(File(t))
    /\ pc[t] = "failed" => Expected(File(t)) = Error

(* Nothing was ever loaded; what is loaded is on disk.                     *)
ColdInv ==
  /\ counts.sweeps = 0 => cache = NoCache /\ sigs = Builtin /\ results = NoResults /\ phase = "idle"
  /\ cache # NoCache => cache = disk

UnracedInv ==
  ~raced /\ ~edited =>
    /\ ColdInv /\ AloneInv /\ ListInv /\ ScanInv
    /\ \A i \in Index : results[i] \in {Pending, Expected(paths[i])}

IInv == BaseInv /\ UnracedInv
=============================================================================
