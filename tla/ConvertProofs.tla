---------------------------- MODULE ConvertProofs ----------------------------
(***************************************************************************)
(* Proofs about conversions, for any files, backends, targets and bounds.  *)
(***************************************************************************)
EXTENDS Convert, OrderLemmas

-----------------------------------------------------------------------------
(* Of the backends that claim a pair one comes before all others.          *)
LEMMA BestIsFirst ==
  ASSUME NEW bs \in SUBSET Backends, bs # {}
  PROVE  Best(bs) \in bs /\ \A b \in bs \ {Best(bs)} : Before(Best(bs), b)
<1> DEFINE R == {p \in bs \X bs : Before(p[1], p[2])}
           rank == Rank(bs, R)
<1>1. IsFiniteSet(bs)
  BY ConvertAssumption, FS_Subset
<1>2. \A a, b \in bs : <<a, b>> \in R <=> Before(a, b)
  OBVIOUS
<1> HIDE DEF R
<1>3. TotalOrder(bs, R)
  <2>1. \A b \in bs : b.priority \in Int /\ b.rank \in Int
    BY ConvertAssumption
  <2>2. \A a, b \in bs : a.rank = b.rank => a = b
    BY ConvertAssumption
  <2>3. \A b \in bs : ~Before(b, b)
    BY <2>1 DEF Before
  <2>4. \A a, b, c \in bs : Before(a, b) /\ Before(b, c) => Before(a, c)
    BY <2>1 DEF Before
  <2>5. \A a, b \in bs : a = b \/ Before(a, b) \/ Before(b, a)
    BY <2>1, <2>2 DEF Before
  <2> QED BY <1>2, <2>3, <2>4, <2>5 DEF TotalOrder
<1>4. /\ Cardinality(bs) \in Nat
      /\ rank \in [bs -> 0 .. Cardinality(bs) - 1]
      /\ \A a, b \in bs : <<a, b>> \in R <=> rank[a] < rank[b]
      /\ \A a, b \in bs : rank[a] = rank[b] => a = b
      /\ \A n \in 0 .. Cardinality(bs) - 1 : \E b \in bs : rank[b] = n
  BY <1>1, <1>3, RanksCount
<1> HIDE DEF rank
<1>5. \A b \in bs : rank[b] \in 0 .. Cardinality(bs) - 1
  BY <1>4
<1>6. 0 \in 0 .. Cardinality(bs) - 1
  <2>1. PICK b \in bs : TRUE
    OBVIOUS
  <2>2. rank[b] \in 0 .. Cardinality(bs) - 1
    BY <1>5
  <2> QED BY <1>4, <2>2
<1>7. PICK a \in bs : rank[a] = 0
  BY <1>4, <1>6
<1>8. ASSUME NEW b \in bs \ {a} PROVE Before(a, b)
  <2>1. rank[b] # 0 /\ rank[b] \in 0 .. Cardinality(bs) - 1
    BY <1>4, <1>5, <1>7
  <2>2. rank[a] < rank[b]
    BY <1>4, <1>7, <2>1
  <2> QED BY <1>2, <1>4, <2>2
<1> QED BY <1>8 DEF Best

(* Only a backend claims a pair of formats (convert.py:76-85).             *)
LEMMA ClaimingAreBackends ==
  \A ifmt, ofmt : Claiming(ifmt, ofmt) \subseteq Backends
BY DEF Claiming

-----------------------------------------------------------------------------
(* What a rendering can raise.                                             *)
LEMMA RenderErrors ==
  ASSUME NEW ofmt, NEW table
  PROVE  /\ RenderError(ofmt, table) \in Refusals \union {"none"}
         /\ RenderError(ofmt, table) = "none" => ofmt \in Writable
<1>1. \A row : RowError(row) \in Refusals \union {"none"}
  BY DEF RowError, Refusals
<1>2. XyzError(table) \in Refusals \union {"none"}
  BY <1>1 DEF XyzError, Refusals
<1> QED BY <1>2 DEF RenderError, Refusals

(* What reading can raise.                                                 *)
LEMMA ReadingErrors ==
  ASSUME NEW content \in Contents, NEW fmt, NEW unknown
  PROVE  ReadErrors(content, fmt, unknown) \subseteq Refusals
<1>1. content.error \in {"none", "IndexError", "OverflowError"}
  BY ConvertAssumption
<1> QED BY <1>1 DEF ReadErrors, Refusals

(* A refusal is a way to end.                                              *)
LEMMA RefusalsAreErrors == Refusals \subseteq Errors /\ "none" \in Errors /\ "none" \notin Refusals
BY DEF Refusals, Errors

(* Before anything is asked for, the invariant holds.                      *)
LEMMA InitInv == Init => IInv
<1> SUFFICES ASSUME Init PROVE IInv
  OBVIOUS
<1>1. TypeOK
  BY ConvertAssumption DEF Init, TypeOK, NoPlan, NoTool, NoRequest, Errors
<1> QED BY <1>1 DEF Init, IInv, PlanInv, RefusalSparesTarget, OutcomeMatchesTarget

(* The properties of the state of one conversion.                          *)
LEMMA ConversionUnchanged ==
  ASSUME PlanInv, RefusalSparesTarget, OutcomeMatchesTarget,
         UNCHANGED <<target, call, ghosts>>
  PROVE  PlanInv' /\ RefusalSparesTarget' /\ OutcomeMatchesTarget'
<1> USE DEF call, ghosts
<1>1. PlanInv'
  BY DEF PlanInv
<1>2. RefusalSparesTarget'
  BY DEF RefusalSparesTarget
<1>3. OutcomeMatchesTarget'
  BY DEF OutcomeMatchesTarget
<1> QED BY <1>1, <1>2, <1>3

(* A step that raises leaves target and ghosts alone keeps them, too, if   *)
(* it may raise: before a file was opened or a tool was started, or with an *)
(* exception that is no refusal.                                           *)
LEMMA RaiseKeepsInv ==
  ASSUME IInv, NEW error, Raise(error), error # "none", pc # "end",
         UNCHANGED <<target, request, chosen, before, ran>>,
         error \in Refusals => pc # "idle" /\ pc # "opened",
         chosen.how # Native => pc # "idle" /\ pc # "opened"
  PROVE  PlanInv' /\ RefusalSparesTarget' /\ OutcomeMatchesTarget'
<1>1. pc' = "end" /\ raised' = error
  BY DEF Raise
<1>2. pc \notin {"idle", "opened"} => target = before
  BY DEF IInv, TypeOK, RefusalSparesTarget
<1>3. PlanInv'
  BY <1>1 DEF PlanInv
<1>4. RefusalSparesTarget'
  BY <1>1, <1>2 DEF RefusalSparesTarget
<1>5. OutcomeMatchesTarget'
  BY <1>1, <1>2 DEF OutcomeMatchesTarget
<1> QED BY <1>3, <1>4, <1>5

(* Planning decides on a way that can be carried out.                      *)
LEMMA PlanKeepsInv ==
  ASSUME IInv, Ask \/ PlanNative \/ PlanBackend \/ PlanRefuses
  PROVE  IInv'
<1> USE DEF IInv
<1>1. CASE Ask
  <2>1. TypeOK'
    BY <1>1, ConvertAssumption DEF Ask, env, TypeOK
  <2> QED BY <1>1, <2>1 DEF Ask, PlanInv, RefusalSparesTarget, OutcomeMatchesTarget
<1>2. CASE PlanNative
  <2>1. TypeOK'
    BY <1>2 DEF PlanNative, InputFormat, env, ghosts, TypeOK
  <2> QED BY <1>2, <2>1 DEF PlanNative, ghosts, PlanInv, RefusalSparesTarget, OutcomeMatchesTarget
<1>3. CASE PlanBackend
  <2> DEFINE best == Best(Claiming(InputFormat, request.ofmt))
  <2>1. /\ pc = "asked"
        /\ \/ best.flaw # "none" /\ Raise(best.flaw) /\ UNCHANGED chosen
           \/ /\ best.flaw = "none" /\ UNCHANGED raised /\ pc' = "planned"
              /\ chosen' = [ifmt |-> InputFormat, how |-> best.name]
        /\ UNCHANGED <<env, target, request, conversions, ghosts>>
    BY <1>3 DEF PlanBackend
  <2>2. best \in Backends
    BY <1>3, BestIsFirst, ClaimingAreBackends DEF PlanBackend, HasTool
  <2>3. best.flaw \in Refusals \union {"none"}
    BY <2>2, ConvertAssumption DEF Refusals
  <2> HIDE DEF best
  <2>4. CASE best.flaw # "none" /\ Raise(best.flaw) /\ UNCHANGED chosen
    <3>1. TypeOK'
      BY <2>1, <2>3, <2>4, RefusalsAreErrors DEF Raise, env, ghosts, TypeOK
    <3>2. PlanInv' /\ RefusalSparesTarget' /\ OutcomeMatchesTarget'
      BY <2>1, <2>4, RaiseKeepsInv DEF ghosts
    <3> QED BY <3>1, <3>2
  <2>5. CASE pc' = "planned" /\ UNCHANGED raised /\ chosen' = [ifmt |-> InputFormat, how |-> best.name]
    <3>1. TypeOK'
      BY <2>1, <2>2, <2>5 DEF InputFormat, env, ghosts, TypeOK
    <3> QED BY <2>1, <2>5, <3>1 DEF ghosts, PlanInv, RefusalSparesTarget, OutcomeMatchesTarget
  <2> QED BY <2>1, <2>4, <2>5
<1>4. CASE PlanRefuses
  <2>1. TypeOK'
    BY <1>4 DEF PlanRefuses, Raise, Errors, env, ghosts, TypeOK
  <2>2. PlanInv' /\ RefusalSparesTarget' /\ OutcomeMatchesTarget'
    BY <1>4, RaiseKeepsInv DEF PlanRefuses, ghosts
  <2> QED BY <2>1, <2>2
<1> QED BY <1>1, <1>2, <1>3, <1>4

(* Reading renders the table of what was read, or raises.                  *)
LEMMA ReadKeepsInv ==
  ASSUME IInv, ReadAndRender
  PROVE  IInv'
<1> USE DEF IInv
<1> DEFINE table == TableOf(source, chosen.ifmt)
           errors == ReadErrors(source, chosen.ifmt, request.unknown)
           refused == RenderError(request.ofmt, table)
<1>1. /\ pc = "planned" /\ chosen.how = Native /\ seen' = source
      /\ \/ \E error \in errors : Raise(error) /\ UNCHANGED text
         \/ errors = {} /\ Rendered(table)
      /\ UNCHANGED <<env, target, request, chosen, conversions, before, ran>>
  BY DEF ReadAndRender
<1>2. source \in Contents
  BY DEF TypeOK
<1>3. /\ refused \in Refusals \union {"none"}
      /\ refused = "none" => request.ofmt \in Writable
  BY RenderErrors
<1>4. errors \subseteq Refusals
  BY <1>2, ReadingErrors
<1>5. \/ \E error \in Refusals : Raise(error)
      \/ /\ pc' = "rendered" /\ raised' = raised /\ request.ofmt \in Writable
         /\ text' = Render(request.ofmt, table)
  BY <1>1, <1>3, <1>4 DEF Rendered
<1> HIDE DEF table, errors, refused
<1>6. CASE \E error \in Refusals : Raise(error)
  <2>1. PICK error \in Refusals : Raise(error)
    BY <1>6
  <2>2. TypeOK'
    BY <1>1, <2>1, RefusalsAreErrors DEF Raise, env, TypeOK
  <2>3. PlanInv' /\ RefusalSparesTarget' /\ OutcomeMatchesTarget'
    BY <1>1, <2>1, RaiseKeepsInv, RefusalsAreErrors
  <2> QED BY <2>2, <2>3
<1>7. CASE /\ pc' = "rendered" /\ raised' = raised /\ request.ofmt \in Writable
           /\ text' = Render(request.ofmt, table)
  <2>1. TypeOK'
    BY <1>1, <1>7 DEF env, TypeOK
  <2>2. PlanInv'
    BY <1>1, <1>7 DEF PlanInv, table
  <2> QED BY <1>1, <1>7, <2>1, <2>2 DEF RefusalSparesTarget, OutcomeMatchesTarget
<1> QED BY <1>5, <1>6, <1>7

(* Carrying a plan out changes the target in the way the plan says, or not *)
(* at all.                                                                 *)
LEMMA CarryOutKeepsInv ==
  ASSUME IInv, NoSpec \/ Unreadable \/ OpenTarget \/ WriteTarget \/ AskAgain \/ CannotStart \/ RunTool
  PROVE  IInv'
<1> USE DEF IInv
<1>1. CASE NoSpec \/ Unreadable
  <2>1. TypeOK'
    BY <1>1 DEF NoSpec, Unreadable, Raise, Errors, env, ghosts, TypeOK
  <2>2. PICK error \in {"SpecError", "OSError"} : Raise(error)
    BY <1>1 DEF NoSpec, Unreadable
  <2>3. pc \in {"asked", "planned"} /\ UNCHANGED <<target, request, chosen, before, ran>>
    BY <1>1 DEF NoSpec, Unreadable, ghosts
  <2>4. PlanInv' /\ RefusalSparesTarget' /\ OutcomeMatchesTarget'
    BY <2>2, <2>3, RaiseKeepsInv
  <2> QED BY <2>1, <2>4
<1>2. CASE OpenTarget
  <2>1. TypeOK'
    BY <1>2 DEF OpenTarget, Raise, Errors, env, ghosts, TypeOK
  <2>2. CASE pc' = "opened"
    BY <1>2, <2>1, <2>2 DEF OpenTarget, Raise, ghosts, PlanInv, RefusalSparesTarget,
       OutcomeMatchesTarget
  <2>3. CASE Raise("OSError") /\ UNCHANGED target
    <3>1. PlanInv' /\ RefusalSparesTarget' /\ OutcomeMatchesTarget'
      BY <1>2, <2>3, RaiseKeepsInv DEF OpenTarget, ghosts
    <3> QED BY <2>1, <3>1
  <2> QED BY <1>2, <2>2, <2>3 DEF OpenTarget
<1>3. CASE WriteTarget
  <2>1. TypeOK'
    BY <1>3 DEF WriteTarget, Raise, Errors, env, ghosts, TypeOK
  <2>2. /\ pc = "opened" /\ pc' = "end" /\ raised' \notin Refusals
        /\ raised' = "none" => target' = text
        /\ UNCHANGED <<request, chosen, seen, ran>>
    BY <1>3 DEF WriteTarget, Raise, Refusals, ghosts
  <2>3. chosen.how = Native /\ text = Render(request.ofmt, TableOf(seen, chosen.ifmt))
    BY <2>2 DEF PlanInv
  <2> QED BY <2>1, <2>2, <2>3 DEF PlanInv, RefusalSparesTarget, OutcomeMatchesTarget
<1>4. CASE AskAgain \/ CannotStart
  <2>1. TypeOK'
    BY <1>4 DEF AskAgain, CannotStart, Raise, Errors, env, ghosts, TypeOK
  <2>2. /\ pc \in {"planned", "starting"} /\ UNCHANGED <<target, request, chosen, before, ran>>
        /\ Raise("BackendError") \/ (pc' = "starting" /\ raised' = raised /\ chosen.how # Native)
    BY <1>4 DEF AskAgain, CannotStart, ghosts
  <2>3. CASE Raise("BackendError")
    <3>1. PlanInv' /\ RefusalSparesTarget' /\ OutcomeMatchesTarget'
      BY <2>2, <2>3, RaiseKeepsInv
    <3> QED BY <2>1, <3>1
  <2>4. CASE pc' = "starting" /\ raised' = raised /\ chosen.how # Native
    BY <2>1, <2>2, <2>4 DEF PlanInv, RefusalSparesTarget, OutcomeMatchesTarget
  <2> QED BY <2>2, <2>3, <2>4
<1>5. CASE RunTool
  <2>1. TypeOK'
    BY <1>5 DEF RunTool, Raise, Errors, env, TypeOK
  <2>2. /\ pc = "starting" /\ pc' = "end" /\ raised' \notin Refusals
        /\ raised' = "none" => target' = ToolOutput
        /\ ran' = chosen.how /\ UNCHANGED <<request, chosen, seen>>
    BY <1>5 DEF RunTool, Raise, Refusals
  <2>3. chosen.how # Native
    BY <2>2 DEF PlanInv
  <2> QED BY <2>1, <2>2, <2>3 DEF NoTool, PlanInv, RefusalSparesTarget, OutcomeMatchesTarget
<1> QED BY <1>1, <1>2, <1>3, <1>4, <1>5

(* Returning, being killed, and what others do between two conversions     *)
(* keep the invariant.                                                     *)
LEMMA RestKeepsInv ==
  ASSUME IInv, Return \/ Crash \/ ReplaceSource \/ InstallOrRemove \/ UNCHANGED vars
  PROVE  IInv'
<1> USE DEF IInv
<1>1. CASE Return \/ Crash
  <2>1. Reset
    BY <1>1 DEF Return, Crash
  <2> QED BY <2>1 DEF Reset, NoPlan, NoTool, NoRequest, Errors, env, TypeOK, PlanInv,
       RefusalSparesTarget, OutcomeMatchesTarget
<1>2. CASE ReplaceSource \/ InstallOrRemove
  <2>1. UNCHANGED <<target, call, ghosts>> /\ source' \in Contents
        /\ installed' \subseteq {b.name : b \in Backends} /\ changes' \in 0 .. MaxChanges
    BY <1>2, ConvertAssumption DEF ReplaceSource, InstallOrRemove, TypeOK
  <2>2. TypeOK'
    BY <2>1 DEF call, ghosts, TypeOK
  <2> QED BY <2>1, <2>2, ConversionUnchanged
<1>3. CASE UNCHANGED vars
  <2>1. TypeOK'
    BY <1>3 DEF vars, env, call, ghosts, TypeOK
  <2> QED BY <1>3, <2>1, ConversionUnchanged DEF vars
<1> QED BY <1>1, <1>2, <1>3

(* The invariant in every reachable state.                                 *)
THEOREM ConvertInvariant == Spec => []IInv
<1>1. IInv /\ [Next]_vars => IInv'
  BY PlanKeepsInv, ReadKeepsInv, CarryOutKeepsInv, RestKeepsInv DEF Next
<1> QED BY <1>1, InitInv, PTL DEF Spec

(* Every variable keeps its type: a conversion ends in no exception but    *)
(* those that Errors lists.                                                *)
THEOREM ConvertTypeCorrect == Spec => []TypeOK
<1>1. IInv => TypeOK
  BY DEF IInv
<1> QED BY <1>1, ConvertInvariant, PTL

(* A conversion that was refused left the target as it was.                *)
THEOREM RefusalsSpareTheTarget == Spec => []RefusalSparesTarget
<1>1. IInv => RefusalSparesTarget
  BY DEF IInv
<1> QED BY <1>1, ConvertInvariant, PTL

(* The target is what the conversion says it made of it.                   *)
THEOREM OutcomesMatchTheTarget == Spec => []OutcomeMatchesTarget
<1>1. IInv => OutcomeMatchesTarget
  BY DEF IInv
<1> QED BY <1>1, ConvertInvariant, PTL

-----------------------------------------------------------------------------
(* What a table of values shows, from the lemma on tables.                 *)
LEMMA TableShowsValues ==
  ASSUME NEW values, NEW units, NEW path,
         IsFiniteSet(DOMAIN values), \A n \in DOMAIN values : IsValue(values[n])
  PROVE  LET rows == FromValues(values, units, path).rows
         IN  /\ IF Cardinality(ListsOf(values)) <= 1 THEN Shows(rows, values)
                ELSE ShowsScalars(rows, values)
             /\ \E k \in Nat : DOMAIN rows = 1 .. k
<1>1. \A n \in DOMAIN values : Tab!IsValue(values[n])
  BY DEF IsValue, Tab!IsValue
<1>2. FromValues(values, units, path).rows = Tab!FromValues(values, units, path).rows
  BY SameCount DEF FromValues, Tab!FromValues, Names, Tab!Names, Scalars, Tab!Scalars, Over,
     Tab!Over, Path, Tab!Path
<1>3. ListsOf(values) = Tab!ListsOf(values)
  BY DEF ListsOf, Tab!ListsOf, Names, Tab!Names
<1>4. \A rows : Shows(rows, values) <=> Tab!Shows(rows, values)
  BY DEF Shows, Tab!Shows, ListsOf, Tab!ListsOf, Names, Tab!Names, Shadowed, Tab!Shadowed
<1>5. \A rows : ShowsScalars(rows, values) <=> Tab!ShowsScalars(rows, values)
  BY DEF ShowsScalars, Tab!ShowsScalars, Names, Tab!Names, Path, Tab!Path
<1> QED BY <1>1, <1>2, <1>3, <1>4, <1>5, RowsShowValues

(* A delimited file shows what the rows of its table show.                 *)
LEMMA LinesShowRows ==
  ASSUME NEW table, NEW values, NEW k \in Nat, DOMAIN table.rows = 1 .. k,
         Shows(table.rows, values)
  PROVE  Shows(ToCsv(table).lines, values)
<1> DEFINE rows == table.rows
           lines == ToCsv(table).lines
<1>1. lines = [i \in 1 .. k |-> [c \in Columns(rows) |->
                                   IF c \in DOMAIN rows[i] THEN rows[i][c] ELSE Hole]]
  BY DEF ToCsv
<1>2. \A i \in 1 .. k : DOMAIN rows[i] \subseteq Columns(rows)
  BY DEF Columns
<1>3. DOMAIN lines = 1 .. k
  BY <1>1
<1>4. \A i \in 1 .. k : \A c \in DOMAIN rows[i] : c \in DOMAIN lines[i] /\ lines[i][c] = rows[i][c]
  BY <1>1, <1>2
<1>5. Len(lines) = Len(rows)
  BY <1>3
<1> HIDE DEF lines
<1>6. ASSUME NEW n \in Names(values, "scalar"), NEW i \in DOMAIN lines
      PROVE  Shadowed(values, n, i) \/ (n \in DOMAIN lines[i] /\ lines[i][n] = values[n].cell)
  BY <1>3, <1>4 DEF Shows
<1>7. ASSUME NEW n \in ListsOf(values)
      PROVE  /\ Len(lines) = Len(values[n].rows)
             /\ \A i \in DOMAIN lines : \A c \in DOMAIN values[n].rows[i] :
                  c \in DOMAIN lines[i] /\ lines[i][c] = values[n].rows[i][c]
  BY <1>3, <1>4, <1>5 DEF Shows
<1>8. Shows(lines, values)
  BY <1>6, <1>7, Zenon DEF Shows
<1> QED BY <1>8 DEF lines

(* What was read of a file, in the format of the plan.                     *)
LEMMA ExtractedIsFine ==
  ASSUME NEW content \in Contents, NEW fmt
  PROVE  /\ IsFiniteSet(DOMAIN Extracted(content, fmt))
         /\ \A n \in DOMAIN Extracted(content, fmt) : IsValue(Extracted(content, fmt)[n])
<1>1. DOMAIN Extracted(content, fmt) = DOMAIN content.values
  BY DEF Extracted
<1>2. IsFiniteSet(DOMAIN content.values) /\ \A n \in DOMAIN content.values : IsValue(content.values[n])
  BY ConvertAssumption
<1>3. IsValue(Missing)
  BY DEF IsValue, Missing
<1> QED BY <1>1, <1>2, <1>3 DEF Extracted

(* What each writer gives is marked by its format.                         *)
LEMMA RenderedFile ==
  ASSUME NEW ofmt \in Writable, NEW table
  PROVE  /\ Render(ofmt, table).file = ofmt
         /\ ofmt = "csv" => Render(ofmt, table) = ToCsv(table)
         /\ ofmt = "json" => Render(ofmt, table) = ToJson(table)
BY DEF Render, Writable, ToCsv, ToJson, ToXyz

(* A delimited file with at most one list holds every value that was read, *)
(* on its row.                                                             *)
THEOREM OneListIsKeptWhole == Spec => []OneListIsWhole
<1>1. IInv => OneListIsWhole
  <2> SUFFICES ASSUME IInv, pc = "rendered", text.file = "csv",
                      Cardinality(ListsOf(Values)) <= 1
               PROVE  Shows(text.lines, Values)
    BY DEF OneListIsWhole
  <2> DEFINE table == FromValues(Values, seen.units, "source")
  <2>1. request.ofmt \in Writable /\ text = Render(request.ofmt, table) /\ seen \in Contents
    BY DEF IInv, PlanInv, TypeOK, TableOf, Values
  <2>2. text = ToCsv(table)
    BY <2>1, RenderedFile
  <2>3. IsFiniteSet(DOMAIN Values) /\ \A n \in DOMAIN Values : IsValue(Values[n])
    BY <2>1, ExtractedIsFine DEF Values
  <2>4. Shows(table.rows, Values) /\ \E k \in Nat : DOMAIN table.rows = 1 .. k
    BY <2>3, TableShowsValues
  <2> HIDE DEF table
  <2> QED BY <2>2, <2>4, LinesShowRows
<1> QED BY <1>1, ConvertInvariant, PTL

(* JSON names what is missing and holds the scalars and the lists: apart   *)
(* when there are two lists or more, else in one table, where a column of  *)
(* the list wins over a scalar of its name.                                *)
THEOREM JsonKeepsEverything == Spec => []JsonIsComplete
<1>1. IInv => JsonIsComplete
  <2> SUFFICES ASSUME IInv, pc = "rendered", text.file = "json"
               PROVE  /\ text.missing = Names(Values, "missing")
                      /\ IF Cardinality(ListsOf(Values)) <= 1 THEN Shows(text.rows, Values)
                         ELSE /\ ShowsScalars(text.rows, Values)
                              /\ \A n \in ListsOf(Values) :
                                   n \in DOMAIN text.tables /\ text.tables[n] = Values[n].rows
    BY DEF JsonIsComplete
  <2> DEFINE table == FromValues(Values, seen.units, "source")
             listed == ListsOf(Values)
  <2>1. request.ofmt \in Writable /\ text = Render(request.ofmt, table) /\ seen \in Contents
    BY DEF IInv, PlanInv, TypeOK, TableOf, Values
  <2>2. text = ToJson(table)
    BY <2>1, RenderedFile
  <2>3. IsFiniteSet(DOMAIN Values) /\ \A n \in DOMAIN Values : IsValue(Values[n])
    BY <2>1, ExtractedIsFine DEF Values
  <2>4. text.rows = table.rows /\ text.missing = table.missing /\ text.tables = table.tables
    BY <2>2 DEF ToJson
  <2>5. table.missing = Names(Values, "missing")
    BY DEF FromValues
  <2>6. CASE Cardinality(listed) <= 1
    <3>1. Shows(table.rows, Values)
      BY <2>3, <2>6, TableShowsValues
    <3> QED BY <2>4, <2>5, <2>6, <3>1
  <2>7. CASE ~(Cardinality(listed) <= 1)
    <3>1. Cardinality(listed) > 1
      <4>1. listed \subseteq DOMAIN Values
        BY DEF ListsOf, Names
      <4>2. Cardinality(listed) \in Nat
        BY <2>3, <4>1, FS_Subset, FS_CardinalityType
      <4> QED BY <2>7, <4>2
    <3>2. table.tables = [n \in listed |-> Values[n].rows]
      BY <3>1 DEF FromValues, ListsOf
    <3>3. ShowsScalars(table.rows, Values)
      BY <2>3, <2>7, TableShowsValues
    <3> QED BY <2>4, <2>5, <2>7, <3>2, <3>3
  <2> QED BY <2>6, <2>7
<1> QED BY <1>1, ConvertInvariant, PTL
=============================================================================
