------------------------------- MODULE Convert -------------------------------
(***************************************************************************)
(* convert.py and backends.py: a conversion is planned (the format of the  *)
(* source detected, a writer or a backend chosen), then carried out: by    *)
(* reading the source into a Table and writing the target, or by running   *)
(* an external tool.  Between any two steps the source may be replaced,    *)
(* tools come and go, and the process may be killed.                       *)
(***************************************************************************)
EXTENDS Writers

CONSTANTS
  Contents,      \* what the source may hold: [format, values, units,
                 \* error], error being what extract() raises, if it does
  Formats,       \* the formats there is a spec for
  NoFormat,      \* nothing detected
  Backends,      \* declared: [name, pairs, priority, rank, blind, flaw],
                 \* one of a name, ranked by their names; a blind one
                 \* declares nothing to look for on PATH; a flaw is what
                 \* formatting its command raises
  Targets,       \* the formats a target's suffix may name
  Forced,        \* the format= argument: formats, or NoFormat
  Untouched,     \* content of the target no conversion wrote
  Empty,         \* truncated
  Garbage,       \* what a failed write or tool leaves
  ToolOutput,    \* what a tool that succeeds leaves
  MaxConversions,\* bound: conversions
  MaxChanges     \* bound: changes of the source and of the tools

ASSUME ConvertAssumption ==
  /\ MaxConversions \in Nat /\ MaxChanges \in Nat
  /\ NoFormat \notin Formats
  /\ \A content \in Contents :
       IsFiniteSet(DOMAIN content.values) /\ \A n \in DOMAIN content.values : IsValue(content.values[n])
  /\ IsFiniteSet(Backends)
  /\ \A content \in Contents : content.error \in {"none", "IndexError", "OverflowError"}
  /\ \A b \in Backends :
       /\ b.priority \in Int /\ b.rank \in Int
       /\ b.flaw \in {"none", "KeyError", "IndexError", "ValueError"}
  /\ \A a, b \in Backends : a.name = b.name \/ a.rank = b.rank => a = b

VARIABLES
  source,        \* the content of the source
  installed,     \* names of the tools on PATH
  target,        \* the content of the target
  pc,
  request,       \* the target's format, the format= argument, and whether
                 \* quantities= names one the spec has not
  chosen,        \* the Plan: input format and how
  text,          \* what the writer rendered
  raised,        \* the exception convert left with, or "none"
  conversions,
  changes,
  before,        \* ghost: the target when the conversion began
  seen,          \* ghost: the content that was read
  ran            \* ghost: the tool this conversion has started

env == <<source, installed, changes>>
call == <<pc, request, chosen, text, raised, conversions>>
ghosts == <<before, seen, ran>>
vars == <<env, target, call, ghosts>>

(* Plan.how: this, or the name of a backend, which may be the same.        *)
Native == "tolk"
NoText == [file |-> "none"]
NoPlan == [ifmt |-> NoFormat, how |-> Native]
NoTool == Native
NoRequest == [ofmt |-> "csv", format |-> NoFormat, unknown |-> FALSE]
Errors == {"none", "ConvertError", "SpecError", "TypeError", "KeyError", "IndexError",
           "OverflowError", "ValueError", "UnicodeEncodeError", "UnicodeDecodeError",
           "BackendError", "OSError"}

(* backends.find(installed_only=False): the highest priority, then name.   *)
Handles(b, ifmt, ofmt) == \E p \in b.pairs : p[1] \in {"*", ifmt} /\ p[2] \in {"*", ofmt}
Claiming(ifmt, ofmt) == {b \in Backends : Handles(b, ifmt, ofmt)}
Before(a, b) == a.priority > b.priority \/ (a.priority = b.priority /\ a.rank < b.rank)
Best(bs) == CHOOSE b \in bs : \A c \in bs \ {b} : Before(b, c)

Available(b) == b.blind \/ b.name \in installed

(* The values of the quantities asked for; another format's anchors are    *)
(* not there.                                                              *)
Extracted(content, fmt) ==
  IF content.format = fmt THEN content.values
  ELSE [n \in DOMAIN content.values |-> Missing]
(* What reading them may raise: what extract() does, and the SpecError of  *)
(* a name the spec has not, whichever comes first.                         *)
ReadErrors(content, fmt, unknown) ==
  (IF content.format = fmt THEN {content.error} \ {"none"} ELSE {})
    \union (IF unknown THEN {"ConvertError"} ELSE {})

Init ==
  /\ source \in Contents
  /\ installed \in SUBSET {b.name : b \in Backends}
  /\ target = Untouched
  /\ pc = "idle"
  /\ request = NoRequest
  /\ chosen = NoPlan
  /\ text = NoText
  /\ raised = "none"
  /\ conversions = 0
  /\ changes = 0
  /\ before = Untouched
  /\ seen = source
  /\ ran = NoTool

Ask ==
  /\ pc = "idle"
  /\ conversions < MaxConversions
  /\ conversions' = conversions + 1
  /\ request' \in [ofmt: Targets, format: Forced, unknown: BOOLEAN]
  /\ pc' = "asked"
  /\ before' = target
  /\ UNCHANGED <<env, target, chosen, text, raised, seen, ran>>

Raise(error) == pc' = "end" /\ raised' = error

(* plan: format or _detect, then WRITERS, then the best backend.           *)
InputFormat == IF request.format = NoFormat THEN source.format ELSE request.format

HasTool ==
  LET claiming == Claiming(InputFormat, request.ofmt) IN
  claiming # {} /\ Available(Best(claiming))

PlanNative ==
  /\ pc = "asked"
  /\ InputFormat # NoFormat
  /\ request.ofmt \in Writable
  /\ chosen' = [ifmt |-> InputFormat, how |-> Native]
  /\ pc' = "planned"
  /\ UNCHANGED <<env, target, request, text, raised, conversions, ghosts>>

(* The plan shows the command the tool would be run with.                  *)
PlanBackend ==
  /\ pc = "asked"
  /\ InputFormat # NoFormat
  /\ request.ofmt \notin Writable
  /\ HasTool
  /\ LET best == Best(Claiming(InputFormat, request.ofmt)) IN
     \/ best.flaw # "none" /\ Raise(best.flaw) /\ UNCHANGED chosen
     \/ /\ best.flaw = "none"
        /\ chosen' = [ifmt |-> InputFormat, how |-> best.name]
        /\ pc' = "planned"
        /\ UNCHANGED raised
  /\ UNCHANGED <<env, target, request, text, conversions, ghosts>>

PlanRefuses ==
  /\ pc = "asked"
  /\ InputFormat = NoFormat \/ (request.ofmt \notin Writable /\ ~HasTool)
  /\ Raise("ConvertError")
  /\ UNCHANGED <<env, target, request, chosen, text, conversions, ghosts>>

(* read opens the source again, with the format of the plan; the writer    *)
(* renders all of the text before the target is opened.                    *)
TableOf(content, fmt) == FromValues(Extracted(content, fmt), content.units, "source")

Rendered(table) ==
  LET error == RenderError(request.ofmt, table) IN
  IF error # "none" THEN Raise(error) /\ UNCHANGED text
  ELSE /\ text' = Render(request.ofmt, table)
       /\ pc' = "rendered"
       /\ UNCHANGED raised

(* Slip: the target is opened before there is a text to write.             *)
SlipReadAndRender ==
  /\ pc = "planned"
  /\ chosen.how = Native
  /\ chosen.ifmt \in Formats
  /\ seen' = source
  /\ target' = Empty
  /\ LET errors == ReadErrors(source, chosen.ifmt, request.unknown) IN
     \/ \E error \in errors : Raise(error) /\ UNCHANGED text
     \/ errors = {} /\ Rendered(TableOf(source, chosen.ifmt))
  /\ UNCHANGED <<env, request, chosen, conversions, before, ran>>
ReadAndRender ==
  /\ pc = "planned"
  /\ chosen.how = Native
  /\ chosen.ifmt \in Formats
  /\ seen' = source
  /\ LET errors == ReadErrors(source, chosen.ifmt, request.unknown) IN
     \/ \E error \in errors : Raise(error) /\ UNCHANGED text
     \/ errors = {} /\ Rendered(TableOf(source, chosen.ifmt))
  /\ UNCHANGED <<env, target, request, chosen, conversions, before, ran>>

(* registry.get of a format nobody wrote a spec for.                       *)
NoSpec ==
  /\ pc = "planned"
  /\ chosen.how = Native
  /\ chosen.ifmt \notin Formats
  /\ Raise("SpecError")
  /\ UNCHANGED <<env, target, request, chosen, text, conversions, ghosts>>

(* The Source of plan or of read cannot be opened.                         *)
Unreadable ==
  /\ pc = "asked" \/ (pc = "planned" /\ chosen.how = Native)
  /\ Raise("OSError")
  /\ UNCHANGED <<env, target, request, chosen, text, conversions, ghosts>>

OpenTarget ==
  /\ pc = "rendered"
  /\ \/ target' = Empty /\ pc' = "opened" /\ UNCHANGED raised
     \/ Raise("OSError") /\ UNCHANGED target
  /\ UNCHANGED <<env, request, chosen, text, conversions, ghosts>>

(* A path that is no UTF-8 stands in the rows as surrogates, which csv     *)
(* writes as they are and the target's encoding refuses.                   *)
WriteTarget ==
  /\ pc = "opened"
  /\ \/ target' = text /\ Raise("none")
     \/ target' = Garbage /\ Raise("OSError")
     \/ text.file = "csv" /\ Raise("UnicodeEncodeError") /\ UNCHANGED target
  /\ UNCHANGED <<env, request, chosen, text, conversions, ghosts>>

(* Backend.run asks again whether the tool is there.                       *)
AskAgain ==
  /\ pc = "planned"
  /\ chosen.how # Native
  /\ IF \E b \in Backends : b.name = chosen.how /\ Available(b)
     THEN pc' = "starting" /\ UNCHANGED raised
     ELSE Raise("BackendError")
  /\ UNCHANGED <<env, target, request, chosen, text, conversions, ghosts>>

(* subprocess.run: a tool that is not there any more cannot be started,    *)
(* which is an OSError; what one that fails does to the target is its own  *)
(* affair, and what it prints need not be text.                            *)
CannotStart ==
  /\ pc = "starting"
  /\ Raise("BackendError")
  /\ UNCHANGED <<env, target, request, chosen, text, conversions, ghosts>>

(* Slip: the exit status is not looked at.                                 *)
SlipRunTool ==
  /\ pc = "starting"
  /\ chosen.how \in installed
  /\ ran' = chosen.how
  /\ target' \in {target, Garbage, ToolOutput} /\ Raise("none")
  /\ UNCHANGED <<env, request, chosen, text, conversions, before, seen>>
RunTool ==
  /\ pc = "starting"
  /\ chosen.how \in installed
  /\ ran' = chosen.how
  /\ \/ target' = ToolOutput /\ Raise("none")
     \/ target' \in {target, Garbage, ToolOutput} /\ Raise("BackendError")
     \/ target' \in {target, Garbage, ToolOutput} /\ Raise("UnicodeDecodeError")
  /\ UNCHANGED <<env, request, chosen, text, conversions, before, seen>>

Reset ==
  /\ pc' = "idle"
  /\ request' = NoRequest
  /\ chosen' = NoPlan
  /\ text' = NoText
  /\ raised' = "none"
  /\ before' = target
  /\ seen' = source
  /\ ran' = NoTool
  /\ UNCHANGED <<env, target, conversions>>

Return == pc = "end" /\ Reset

(* Killed: what is on disk stays.                                          *)
Crash == pc \notin {"idle", "end"} /\ Reset

ReplaceSource ==
  /\ changes < MaxChanges
  /\ changes' = changes + 1
  /\ source' \in Contents \ {source}
  /\ UNCHANGED <<installed, target, call, ghosts>>

InstallOrRemove ==
  /\ changes < MaxChanges
  /\ changes' = changes + 1
  /\ \E b \in Backends :
       installed' = IF b.name \in installed THEN installed \ {b.name}
                    ELSE installed \union {b.name}
  /\ UNCHANGED <<source, target, call, ghosts>>

Next ==
  \/ Ask \/ Unreadable \/ PlanNative \/ PlanBackend \/ PlanRefuses
  \/ ReadAndRender \/ NoSpec \/ OpenTarget \/ WriteTarget
  \/ AskAgain \/ CannotStart \/ RunTool
  \/ Return \/ Crash \/ ReplaceSource \/ InstallOrRemove

Spec == Init /\ [][Next]_vars

-----------------------------------------------------------------------------
(* State and types; a conversion ends in no exception but these.           *)
TypeOK ==
  /\ source \in Contents /\ seen \in Contents
  /\ installed \subseteq {b.name : b \in Backends}
  /\ pc \in {"idle", "asked", "planned", "rendered", "opened", "starting", "end"}
  /\ request \in [ofmt: Targets \union {"csv"}, format: Forced \union {NoFormat},
                  unknown: BOOLEAN]
  /\ chosen.ifmt \in {content.format : content \in Contents} \union Forced \union {NoFormat}
  /\ chosen.how \in {Native} \union {b.name : b \in Backends}
  /\ raised \in Errors
  /\ conversions \in 0 .. MaxConversions
  /\ changes \in 0 .. MaxChanges
  /\ ran \in {NoTool} \union {b.name : b \in Backends}

(* A conversion that was refused, whose source could not be read or whose  *)
(* table could not be written as asked left the target as it was: only a   *)
(* failing write or tool can harm it (convert.py:98-116).                  *)
Refusals == {"ConvertError", "SpecError", "TypeError", "KeyError", "IndexError",
             "OverflowError", "ValueError"}
RefusalSparesTarget ==
  pc \in {"asked", "planned", "rendered", "starting"} \/ (pc = "end" /\ raised \in Refusals)
    => target = before

(* What a conversion says of itself is so, whatever became of the source   *)
(* and of the tools since it was planned: one that succeeds leaves exactly *)
(* what one reading of the source renders to, or what the tool of the plan *)
(* wrote; and while no tool has been started the target of a conversion    *)
(* that a tool was to do is the one from before (convert.py:106-116,       *)
(* backends.py:66-79).                                                     *)
OutcomeMatchesTarget ==
  pc = "end" =>
    /\ raised = "none" =>
         target = IF chosen.how = Native THEN Render(request.ofmt, TableOf(seen, chosen.ifmt))
                  ELSE ToolOutput
    /\ chosen.how # Native /\ raised = "none" => ran = chosen.how
    /\ chosen.how # Native /\ ran = NoTool => target = before

Values == Extracted(seen, chosen.ifmt)

(* With at most one list among the quantities the delimited file holds     *)
(* every value that was read, on the row it belongs to.  A column of the   *)
(* list wins over a scalar of its name in the rows that have it, and a     *)
(* list without rows leaves no row to hold a scalar (record.py:45-91,      *)
(* 107-123).                                                               *)
OneListIsWhole ==
  pc = "rendered" /\ text.file = "csv" /\ Cardinality(ListsOf(Values)) <= 1
    => Shows(text.lines, Values)

(* JSON has the scalars, each list and the names of the quantities that    *)
(* are not there.  One list is joined with the scalars, in the same sense  *)
(* as above; two or more are kept apart, and the scalars have a row of     *)
(* their own (record.py:81-105).                                           *)
JsonIsComplete ==
  pc = "rendered" /\ text.file = "json" =>
    /\ text.missing = Names(Values, "missing")
    /\ IF Cardinality(ListsOf(Values)) <= 1 THEN Shows(text.rows, Values)
       ELSE /\ ShowsScalars(text.rows, Values)
            /\ \A n \in ListsOf(Values) :
                 n \in DOMAIN text.tables /\ text.tables[n] = Values[n].rows

-----------------------------------------------------------------------------
(***************************************************************************)
(* The inductive invariant.                                                *)
(***************************************************************************)

(* A plan keeps to the request; what was rendered is the table of what was *)
(* read; only a tool of the plan has been started.                         *)
PlanInv ==
  /\ pc = "starting" => chosen.how # Native
  /\ pc \in {"rendered", "opened"} =>
       /\ chosen.how = Native
       /\ request.ofmt \in Writable
       /\ text = Render(request.ofmt, TableOf(seen, chosen.ifmt))
  /\ pc # "end" => ran = NoTool

IInv == TypeOK /\ PlanInv /\ RefusalSparesTarget /\ OutcomeMatchesTarget
=============================================================================
