---------------------------- MODULE FollowProofs ----------------------------
(***************************************************************************)
(* Proofs about follow(), and that it implements what Watched promises,    *)
(* for files of any length, any number of rewrites, and any windows,       *)
(* limits and terminators.                                                 *)
(***************************************************************************)
EXTENDS Follow, SequenceTheorems, TLAPS

-----------------------------------------------------------------------------
(* Lemmas about the file.                                                  *)

(* A line only makes the file longer, by at least half a line.             *)
LEMMA SizeGrows ==
  ASSUME NEW ls \in Seq(Line), ~Torn(ls), NEW l \in Line
  PROVE  /\ Size(Append(ls, l)) > Size(ls)
         /\ Size(ls) \in Nat /\ Size(Append(ls, l)) \in Nat
<1>1. /\ Len(Append(ls, l)) = Len(ls) + 1
      /\ Append(ls, l)[Len(ls) + 1] = l
      /\ Len(ls) \in Nat
  OBVIOUS
<1> QED BY <1>1 DEF Size, Torn

(* So does the second half of a torn one.                                  *)
LEMMA CompletionGrows ==
  ASSUME NEW ls \in Seq(Line), Torn(ls)
  PROVE  /\ [ls EXCEPT ![Len(ls)] = "value"] \in Seq(Line)
         /\ Len([ls EXCEPT ![Len(ls)] = "value"]) = Len(ls)
         /\ Size([ls EXCEPT ![Len(ls)] = "value"]) > Size(ls)
<1> DEFINE full == [ls EXCEPT ![Len(ls)] = "value"]
<1>1. Len(ls) \in 1 .. Len(ls)
  BY DEF Torn
<1>2. "value" \in Line
  BY DEF Line
<1>3. full \in Seq(Line) /\ Len(full) = Len(ls)
  BY <1>1, <1>2, ExceptSeq
<1>4. full[Len(ls)] = "value"
  BY <1>1
<1>5. ~Torn(full)
  BY <1>3, <1>4 DEF Torn
<1> QED BY <1>1, <1>3, <1>5 DEF Size

(* A file is a natural number of bytes long: two per line at most.         *)
LEMMA SizeType ==
  ASSUME NEW ls \in Seq(Line)
  PROVE  Size(ls) \in Nat /\ Size(ls) <= 2 * Len(ls)
<1>1. Len(ls) \in Nat
  OBVIOUS
<1> QED BY <1>1 DEF Size, Torn

(* The lines a size covers are lines of the file.                          *)
LEMMA CoveredInDomain ==
  ASSUME NEW ls \in Seq(Line), NEW n \in Nat, n <= Size(ls)
  PROVE  Covered(n) \subseteq DOMAIN ls
<1>1. Len(ls) \in Nat /\ DOMAIN ls = 1 .. Len(ls)
  OBVIOUS
<1>2. n <= 2 * Len(ls)
  BY <1>1, SizeType
<1>3. (n + 1) \div 2 <= Len(ls)
  BY <1>1, <1>2
<1> QED BY <1>1, <1>3 DEF Covered

(* Whatever the program writes, the file keeps its type.                   *)
LEMMA FileTypeStep ==
  ASSUME FileTypeOK, FileNext
  PROVE  FileTypeOK'
<1> USE DEF FileTypeOK
<1>1. CASE Create
  BY <1>1 DEF Create, Phase
<1>2. CASE Write
  BY <1>2 DEF Write, Put
<1>3. CASE Complete
  <2>1. lines' \in Seq(Line)
    BY <1>3, CompletionGrows DEF Complete
  <2> QED BY <1>3, <2>1 DEF Complete
<1>4. CASE Terminate
  BY <1>4 DEF Terminate, Put, Line, Phase
<1>5. CASE Trail
  BY <1>5 DEF Trail, Put, Line, Marker
<1>6. CASE Die
  BY <1>6 DEF Die, Phase
<1>7. CASE Truncate
  BY <1>7 DEF Truncate, Phase
<1>8. CASE Remove
  <2>1. rewrites' \in Nat /\ lines' \in Seq(Line)
    BY <1>8 DEF Remove
  <2> QED BY <1>8, <2>1 DEF Remove, Phase
<1>9. CASE GoQuiet
  BY <1>9 DEF GoQuiet
<1> QED BY <1>1, <1>2, <1>3, <1>4, <1>5, <1>6, <1>7, <1>8, <1>9 DEF FileNext

(* check() answers with one of the four states.                            *)
LEMMA VerdictType ==
  ASSUME NEW ls, NEW markers
  PROVE  Verdict(ls, markers) \in Finished \union {"none"}
BY DEF Verdict, Finished

(* A step of the program appends to the file of the run, or starts anew.   *)
LEMMA FileGrowsOrRestarts ==
  ASSUME FileTypeOK, FileNext
  PROVE  \/ /\ rewrites' = rewrites
            /\ Size(lines) <= Size(lines')
            /\ \A i \in DOMAIN lines :
                 i \in DOMAIN lines' /\ (lines'[i] \in ValueLine => lines[i] \in ValueLine)
            /\ exists => exists'
            /\ phase = "ended" => phase' = "ended"
         \/ rewrites' = rewrites + 1
<1> USE DEF FileTypeOK
<1>0. Size(lines) \in Nat
  BY SizeType
<1>a. ASSUME NEW l \in Line, Put(l)
      PROVE  /\ Size(lines) <= Size(lines')
             /\ \A i \in DOMAIN lines :
                  i \in DOMAIN lines' /\ lines'[i] = lines[i]
  <2>1. lines' = Append(lines, l) /\ ~Torn(lines)
    BY <1>a DEF Put
  <2>2. Size(lines) <= Size(lines')
    BY <2>1, SizeGrows
  <2>3. Len(lines) \in Nat /\ DOMAIN lines = 1 .. Len(lines)
    OBVIOUS
  <2>4. DOMAIN lines' = 1 .. Len(lines) + 1
    BY <2>1, <2>3
  <2>5. \A i \in DOMAIN lines : lines'[i] = lines[i]
    BY <2>1, <2>3
  <2> QED BY <2>2, <2>3, <2>4, <2>5
<1>1. CASE Create
  BY <1>0, <1>1 DEF Create
<1>2. CASE Write
  <2>1. PICK l \in Line \ Marker : Put(l)
    BY <1>2 DEF Write
  <2> QED BY <1>2, <1>a, <2>1 DEF Write
<1>3. CASE Complete
  <2>1. Torn(lines) /\ lines' = [lines EXCEPT ![Len(lines)] = "value"]
    BY <1>3 DEF Complete
  <2>2. Size(lines) <= Size(lines') /\ Len(lines') = Len(lines) /\ lines' \in Seq(Line)
    <3>1. lines' \in Seq(Line) /\ Len(lines') = Len(lines) /\ Size(lines') > Size(lines)
      BY <2>1, CompletionGrows
    <3>2. Size(lines') \in Nat
      BY <3>1, SizeType
    <3> QED BY <1>0, <3>1, <3>2
  <2>3. \A i \in DOMAIN lines :
          i \in DOMAIN lines' /\ (lines'[i] \in ValueLine => lines[i] \in ValueLine)
    BY <2>1, <2>2 DEF Torn, ValueLine
  <2> QED BY <1>3, <2>2, <2>3 DEF Complete
<1>4. CASE Terminate
  <2>1. PICK m \in Marker : Put(m)
    BY <1>4 DEF Terminate
  <2>2. m \in Line
    BY DEF Line
  <2> QED BY <1>4, <1>a, <2>1, <2>2 DEF Terminate
<1>5. CASE Trail
  <2>1. PICK l \in {"text", "error"} : Put(l)
    BY <1>5 DEF Trail
  <2>2. l \in Line
    BY DEF Line, Marker
  <2> QED BY <1>5, <1>a, <2>1, <2>2 DEF Trail
<1>6. CASE Die
  BY <1>0, <1>6 DEF Die
<1>7. CASE Truncate
  BY <1>7 DEF Truncate
<1>8. CASE Remove
  BY <1>8 DEF Remove
<1>9. CASE GoQuiet
  BY <1>0, <1>9 DEF GoQuiet
<1> QED BY <1>1, <1>2, <1>3, <1>4, <1>5, <1>6, <1>7, <1>8, <1>9 DEF FileNext

(* Only Terminate, which ends the run, brings the first terminator.        *)
LEMMA FileMarkers ==
  ASSUME FileTypeOK, FileNext,
         (\E i \in DOMAIN lines : lines[i] \in Marker) => phase = "ended"
  PROVE  (\E i \in DOMAIN lines' : lines'[i] \in Marker) => phase' = "ended"
<1> USE DEF FileTypeOK
<1>1. CASE Write
  <2>1. PICK l \in Line \ Marker : Put(l)
    BY <1>1 DEF Write
  <2>2. lines' = Append(lines, l)
    BY <2>1 DEF Put
  <2> QED BY <1>1, <2>2 DEF Write
<1>2. CASE Complete
  <2>1. lines' = [lines EXCEPT ![Len(lines)] = "value"]
    BY <1>2 DEF Complete
  <2> QED BY <1>2, <2>1 DEF Complete, Marker
<1>3. CASE Terminate \/ Trail
  BY <1>3 DEF Terminate, Trail
<1>4. CASE Truncate \/ Remove
  BY <1>4 DEF Truncate, Remove
<1>5. CASE Create \/ GoQuiet
  BY <1>5 DEF Create, GoQuiet
<1>6. CASE Die
  BY <1>6 DEF Die
<1> QED BY <1>1, <1>2, <1>3, <1>4, <1>5, <1>6 DEF FileNext

(* A verdict is a terminator of the file.                                  *)
LEMMA VerdictInFile ==
  ASSUME NEW ls \in Seq(Line), NEW markers, Verdict(ls, markers) # "none"
  PROVE  \E i \in DOMAIN ls : ls[i] \in Marker
BY DEF Verdict, TailOf, Marker

-----------------------------------------------------------------------------
(* The inductive invariant.  A step of the program keeps it ...            *)
LEMMA FileKeepsInv ==
  ASSUME IInv, FileNext, UNCHANGED follow
  PROVE  IInv'
<1> USE DEF IInv
<1>1. TypeOK'
  BY FileTypeStep DEF TypeOK, follow
<1>2. /\ FileTypeOK /\ run \in Nat /\ last.run \in Nat /\ rewrites \in Nat
      /\ last.size \in Nat
      /\ rewrites' \in Nat /\ Size(lines) \in Nat /\ Size(lines') \in Nat
  BY <1>1, SizeType DEF TypeOK, FileTypeOK, Update
<1>3. CASE /\ rewrites' = rewrites
           /\ Size(lines) <= Size(lines')
           /\ \A i \in DOMAIN lines :
                i \in DOMAIN lines' /\ (lines'[i] \in ValueLine => lines[i] \in ValueLine)
           /\ exists => exists'
           /\ phase = "ended" => phase' = "ended"
  <2>1. SizesInv'
    BY <1>2, <1>3 DEF SizesInv, follow, TypeOK
  <2>2. ValueInv'
    BY <1>3 DEF ValueInv, ValueCoversSize, Current, Covers, follow
  <2>3. MarkerInv'
    BY <1>2, <1>3, FileMarkers DEF MarkerInv, FinishedMeansEnded, Current, follow
  <2>4. LossInv'
    BY <1>3 DEF LossInv, RaisesOnlyOnLoss, follow
  <2> QED BY <1>1, <2>1, <2>2, <2>3, <2>4
<1>4. CASE rewrites' = rewrites + 1
  <2>1. run' < rewrites' /\ last'.run < rewrites'
    BY <1>2, <1>4 DEF SizesInv, follow
  <2>2. SizesInv'
    BY <1>2, <2>1 DEF SizesInv, follow
  <2>3. ValueInv'
    BY <1>2, <2>1 DEF ValueInv, ValueCoversSize, Current, follow
  <2>4. MarkerInv'
    BY <1>2, <2>1, FileMarkers DEF MarkerInv, FinishedMeansEnded, Current, follow
  <2>5. LossInv'
    BY <1>2, <1>4 DEF LossInv, RaisesOnlyOnLoss, follow
  <2> QED BY <1>1, <2>2, <2>3, <2>4, <2>5
<1> QED BY <1>2, <1>3, <1>4, FileGrowsOrRestarts

(* ... and so does a step of follow().                                     *)
LEMMA FollowKeepsInv ==
  ASSUME IInv, FollowStep \/ Close
  PROVE  IInv'
<1> USE DEF IInv
<1>0. /\ run \in Nat /\ last.run \in Nat /\ last.size \in Nat /\ rewrites \in Nat
      /\ lines \in Seq(Line) /\ Size(lines) \in Nat /\ produced \in Nat
      /\ seen \in Nat \union {-1} /\ last \in Update
  BY SizeType DEF TypeOK, FileTypeOK, Update
<1>1. CASE StatChanged
  <2> USE <1>1 DEF StatChanged, file
  <2>1. TypeOK'
    BY <1>0 DEF TypeOK, FileTypeOK, PC
  <2>2. SizesInv'
    BY <1>0 DEF SizesInv, Working
  <2>3. ValueInv'
    BY DEF ValueInv, ValueCoversSize, Current, Covers
  <2>4. MarkerInv'
    BY DEF MarkerInv, FinishedMeansEnded, Current
  <2>5. LossInv'
    BY DEF LossInv, RaisesOnlyOnLoss
  <2> QED BY <2>1, <2>2, <2>3, <2>4, <2>5
<1>2. CASE StatIdle
  BY <1>2, <1>0 DEF StatIdle, file, TypeOK, FileTypeOK, PC, SizesInv, Working, ValueInv,
     ValueCoversSize, Current, Covers, MarkerInv, FinishedMeansEnded, LossInv,
     RaisesOnlyOnLoss
<1>3. CASE Extract
  <2> USE <1>3 DEF Extract, file
  <2>1. PICK at \in 0 .. Len(lines) :
          IsLatest(lines, at) /\ value' = [at |-> at, whole |-> Whole(lines, at)]
    OBVIOUS
  <2>2. value' \in Reading /\ value'.at = at
    <3>1. Whole(lines, at) \in BOOLEAN /\ at \in Nat
      BY <1>0 DEF Whole
    <3> QED BY <2>1, <3>1 DEF Reading
  <2>3. TypeOK'
    BY <2>2 DEF TypeOK, FileTypeOK, PC
  <2>4. SizesInv'
    BY <1>0 DEF SizesInv, Working
  <2>5. run = rewrites => Covers(seen, at)
    <3>1. SUFFICES ASSUME run = rewrites
                   PROVE  Covers(seen, at)
      OBVIOUS
    <3>2. seen \in Nat /\ seen <= Size(lines)
      BY <3>1 DEF SizesInv, Working
    <3>3. Covered(seen) \subseteq DOMAIN lines
      BY <1>0, <3>2, CoveredInDomain
    <3> QED BY <2>1, <3>3 DEF Covers, IsLatest
  <2>6. ValueInv'
    BY <2>2, <2>5 DEF ValueInv, ValueCoversSize, Current, Covers
  <2>7. MarkerInv'
    BY DEF MarkerInv, FinishedMeansEnded, Current
  <2>8. LossInv'
    BY DEF LossInv, RaisesOnlyOnLoss
  <2> QED BY <2>3, <2>4, <2>6, <2>7, <2>8
<1>4. CASE ExtractRaises \/ CheckRaises
  BY <1>4, <1>0 DEF ExtractRaises, MayStumble, CheckRaises, file, TypeOK, FileTypeOK, PC, SizesInv,
     Working, ValueInv, ValueCoversSize, Current, Covers, MarkerInv, FinishedMeansEnded,
     LossInv, RaisesOnlyOnLoss
<1>5. CASE CheckMarked
  <2> USE <1>5 DEF CheckMarked, file
  <2>1. state' \in Finished /\ \E i \in DOMAIN lines : lines[i] \in Marker
    BY <1>0, VerdictType, VerdictInFile
  <2>2. TypeOK'
    BY <2>1 DEF TypeOK, FileTypeOK, PC, Status
  <2>3. SizesInv'
    BY <1>0 DEF SizesInv, Working
  <2>4. ValueInv'
    BY DEF ValueInv, ValueCoversSize, Current, Covers
  <2>5. MarkerInv'
    BY <2>1 DEF MarkerInv, FinishedMeansEnded, Current
  <2>6. LossInv'
    BY DEF LossInv, RaisesOnlyOnLoss
  <2> QED BY <2>2, <2>3, <2>4, <2>5, <2>6
<1>6. CASE CheckUnmarked
  BY <1>6, <1>0 DEF CheckUnmarked, file, TypeOK, FileTypeOK, PC, SizesInv, Working,
     ValueInv, ValueCoversSize, Current, Covers, MarkerInv, FinishedMeansEnded, LossInv,
     RaisesOnlyOnLoss
<1>7. CASE CheckNoTerminators \/ Age
  <2>1. state' \in {"running", "unknown"}
    BY <1>7 DEF CheckNoTerminators, Age, Unterminated
  <2>2. state' \in Status /\ state' \notin Finished
    BY <2>1 DEF Status, Finished
  <2> QED BY <1>7, <1>0, <2>2 DEF CheckNoTerminators, Age, file, TypeOK, FileTypeOK, PC,
             SizesInv, Working, ValueInv, ValueCoversSize, Current, Covers, MarkerInv,
             FinishedMeansEnded, LossInv, RaisesOnlyOnLoss
<1>8. CASE Yield
  <2> USE <1>8 DEF Yield, file
  <2>1. /\ seen \in Nat
        /\ last' \in Update
        /\ last'.size = seen /\ last'.run = run
        /\ last'.value = value /\ last'.state = state
    BY <1>0 DEF SizesInv, Working, Update, TypeOK
  <2>2. TypeOK'
    BY <1>0, <2>1 DEF TypeOK, FileTypeOK, PC, Status, Reading, NoReading
  <2>3. SizesInv'
    BY <1>0, <2>1 DEF SizesInv, Working
  <2>4. ValueInv'
    BY <2>1 DEF ValueInv, ValueCoversSize, Current, Covers
  <2>5. MarkerInv'
    BY <2>1 DEF MarkerInv, FinishedMeansEnded, Current
  <2>6. LossInv'
    BY DEF LossInv, RaisesOnlyOnLoss
  <2> QED BY <2>2, <2>3, <2>4, <2>5, <2>6
<1>9. CASE Resume \/ Close \/ Wake
  BY <1>9, <1>0 DEF Resume, Close, Wake, file, TypeOK, FileTypeOK, PC, SizesInv, Working,
     ValueInv, ValueCoversSize, Current, Covers, MarkerInv, FinishedMeansEnded, LossInv,
     RaisesOnlyOnLoss
<1> QED BY <1>1, <1>2, <1>3, <1>4, <1>5, <1>6, <1>7, <1>8, <1>9 DEF FollowStep

(* The invariant in every reachable state.                                 *)
THEOREM Invariant == Spec => []IInv
<1>1. Init => IInv
  <2> SUFFICES ASSUME Init PROVE IInv
    OBVIOUS
  <2> USE DEF Init, FileInit, FollowInit
  <2>0. lines \in Seq(Line) /\ Size(lines) \in Nat
    <3>1. lines \in Seq(Line)
      OBVIOUS
    <3> QED BY <3>1, SizeType
  <2>1. TypeOK
    <3>1. FileTypeOK
      BY <2>0 DEF FileTypeOK, Phase
    <3>2. NoReading \in Reading /\ NoUpdate \in Update
      BY DEF NoReading, NoUpdate, Reading, Update, Status
    <3> QED BY <3>1, <3>2 DEF TypeOK, PC, Status
  <2>2. SizesInv
    BY <2>0 DEF SizesInv, Working, NoUpdate
  <2>3. ValueInv /\ MarkerInv /\ LossInv
    BY DEF ValueInv, ValueCoversSize, MarkerInv, FinishedMeansEnded, LossInv,
       RaisesOnlyOnLoss, Current
  <2> QED BY <2>1, <2>2, <2>3 DEF IInv
<1>2. IInv /\ [Next]_vars => IInv'
  <2> SUFFICES ASSUME IInv, [Next]_vars
               PROVE  IInv'
    OBVIOUS
  <2>1. CASE FileNext /\ UNCHANGED follow
    BY <2>1, FileKeepsInv
  <2>2. CASE FollowStep \/ Close
    BY <2>2, FollowKeepsInv
  <2>3. CASE UNCHANGED vars
    BY <2>3 DEF vars, file, follow, IInv, TypeOK, FileTypeOK, SizesInv, ValueInv,
       ValueCoversSize, MarkerInv, FinishedMeansEnded, LossInv, RaisesOnlyOnLoss, Current,
       Covers
  <2> QED BY <2>1, <2>2, <2>3 DEF Next
<1> QED BY <1>1, <1>2, PTL DEF Spec

-----------------------------------------------------------------------------
(* Every variable keeps its type.                                          *)
THEOREM TypeCorrect == Spec => []TypeOK
<1>1. IInv => TypeOK
  BY DEF IInv
<1> QED BY <1>1, Invariant, PTL

(* No Update reports a size its value does not cover.                      *)
THEOREM ValueCoversSizeHolds == Spec => []ValueCoversSize
<1>1. IInv => ValueCoversSize
  BY DEF IInv, ValueInv
<1> QED BY <1>1, Invariant, PTL

(* Only a run that has ended is called finished.                           *)
THEOREM FinishedMeansEndedHolds == Spec => []FinishedMeansEnded
<1>1. IInv => FinishedMeansEnded
  BY DEF IInv, MarkerInv
<1> QED BY <1>1, Invariant, PTL

(* A follow() of a quantity its rule can read, given the format, raises    *)
(* only when its file is taken away.                                       *)
THEOREM RaisesOnlyOnLossHolds == Spec => []RaisesOnlyOnLoss
<1>1. IInv => RaisesOnlyOnLoss
  BY DEF IInv, LossInv
<1> QED BY <1>1, Invariant, PTL

(* From one Update of a run to the next, the size grows.                   *)
THEOREM SizesGrowHolds == Spec => SizesGrow
<1>1. ASSUME IInv, [Next]_vars
      PROVE  [produced' # produced /\ produced > 0 /\ last'.run = last.run
                => last.size < last'.size]_vars
  <2>1. CASE Yield
    <3>1. last'.run = run /\ last'.size = seen /\ pc \in Working
      BY <2>1 DEF Yield, Working
    <3> QED BY <1>1, <3>1 DEF IInv, SizesInv
  <2>2. ASSUME ~Yield PROVE UNCHANGED produced
    BY <1>1, <2>2 DEF Next, vars, follow, FollowStep, StatChanged, StatIdle, Extract,
       ExtractRaises, CheckMarked, CheckUnmarked, CheckNoTerminators, CheckRaises, Age,
       Resume, Close, Wake
  <2> QED BY <2>1, <2>2
<1> QED BY <1>1, Invariant, PTL DEF Spec, SizesGrow
-----------------------------------------------------------------------------
(* follow() implements Watched: each step of the loop and of the program   *)
(* that writes is a step of the watcher or leaves its variables alone.     *)
Holds == {i \in DOMAIN lines : lines[i] \in ValueLine}

(* A line behind the others lies beyond the size they have.                *)
LEMMA PutIsBehind ==
  ASSUME FileTypeOK, NEW l \in Line, Put(l)
  PROVE  /\ Size(lines) <= Size(lines')
         /\ Holds \subseteq Holds'
         /\ \A i \in Holds' \ Holds : 2 * i - 1 > Size(lines)
<1>1. lines \in Seq(Line) /\ ~Torn(lines) /\ lines' = Append(lines, l)
  BY DEF FileTypeOK, Put
<1>2. Size(lines) <= Size(lines')
  BY <1>1, SizeGrows
<1>3. /\ Len(lines) \in Nat /\ DOMAIN lines = 1 .. Len(lines)
      /\ DOMAIN lines' = 1 .. Len(lines) + 1
      /\ \A i \in DOMAIN lines : lines'[i] = lines[i]
  BY <1>1
<1>4. Holds \subseteq Holds' /\ Holds' \ Holds \subseteq {Len(lines) + 1}
  BY <1>3 DEF Holds
<1>5. Size(lines) = 2 * Len(lines)
  BY <1>1 DEF Size
<1> QED BY <1>2, <1>3, <1>4, <1>5

(* The second half of a line changes nothing about where the quantity is.  *)
LEMMA CompletionStays ==
  ASSUME FileTypeOK, Complete
  PROVE  Size(lines) <= Size(lines') /\ Holds' = Holds
<1>1. lines \in Seq(Line) /\ Torn(lines) /\ lines' = [lines EXCEPT ![Len(lines)] = "value"]
  BY DEF FileTypeOK, Complete
<1>2. Size(lines) \in Nat /\ Size(lines') \in Nat /\ Size(lines') > Size(lines)
  BY <1>1, CompletionGrows, SizeType
<1>3. Len(lines) \in DOMAIN lines /\ DOMAIN lines' = DOMAIN lines
  BY <1>1 DEF Torn
<1>4. \A i \in DOMAIN lines : lines'[i] \in ValueLine <=> lines[i] \in ValueLine
  BY <1>1, <1>3 DEF Torn, ValueLine
<1> QED BY <1>2, <1>3, <1>4 DEF Holds

(* The program that writes is the one the watcher watches.                 *)
LEMMA FileStepIsWatched ==
  ASSUME FileTypeOK, FileNext, UNCHANGED follow
  PROVE  Watcher!Write \/ Watcher!Restart
<1> USE DEF FileTypeOK
<1>0. Size(lines) \in Nat
  BY SizeType
<1>a. ASSUME Size(lines) <= Size(lines'), Holds \subseteq Holds',
             \A i \in Holds' \ Holds : 2 * i - 1 > Size(lines),
             phase = "ended" => phase' = "ended", rewrites' = rewrites
      PROVE  Watcher!Write
  BY <1>a DEF Watcher!Write, Watcher!reports, Holds, follow, ReportOf
<1>b. ASSUME lines' = lines, phase = "ended" => phase' = "ended", rewrites' = rewrites
      PROVE  Watcher!Write
  <2>1. Size(lines') = Size(lines) /\ Holds' = Holds
    BY <1>b DEF Holds
  <2> QED BY <1>0, <1>a, <1>b, <2>1
<1>c. ASSUME lines' = << >>, phase' # "ended", rewrites' = rewrites + 1
      PROVE  Watcher!Restart
  <2>1. Size(lines') = 0 /\ Holds' = {}
    BY <1>c DEF Size, Torn, Holds
  <2> QED BY <1>c, <2>1 DEF Watcher!Restart, Watcher!reports, Holds, follow, ReportOf
<1>1. CASE Create
  BY <1>1, <1>b DEF Create
<1>2. CASE Write
  <2>1. PICK l \in Line \ Marker : Put(l)
    BY <1>2 DEF Write
  <2> QED BY <1>2, <1>a, <2>1, PutIsBehind DEF Write
<1>3. CASE Complete
  BY <1>3, <1>a, CompletionStays DEF Complete
<1>4. CASE Terminate
  <2>1. PICK m \in Marker : Put(m)
    BY <1>4 DEF Terminate
  <2>2. m \in Line
    BY DEF Line
  <2> QED BY <1>4, <1>a, <2>1, <2>2, PutIsBehind DEF Terminate
<1>5. CASE Trail
  <2>1. PICK l \in {"text", "error"} : Put(l)
    BY <1>5 DEF Trail
  <2>2. l \in Line
    BY DEF Line, Marker
  <2> QED BY <1>5, <1>a, <2>1, <2>2, PutIsBehind DEF Trail
<1>6. CASE Die
  BY <1>6, <1>b DEF Die
<1>7. CASE Truncate
  BY <1>7, <1>c DEF Truncate
<1>8. CASE Remove
  BY <1>8, <1>c DEF Remove
<1>9. CASE GoQuiet
  BY <1>9, <1>b DEF GoQuiet
<1> QED BY <1>1, <1>2, <1>3, <1>4, <1>5, <1>6, <1>7, <1>8, <1>9 DEF FileNext

(* The loop never goes on after a finished Update.                         *)
THEOREM StaysOpen == Spec => []StillOpen
<1>1. Init => StillOpen
  BY DEF Init, FollowInit, StillOpen
<1>2. StillOpen /\ [Next]_vars => StillOpen'
  <2> SUFFICES ASSUME StillOpen, [Next]_vars
               PROVE  StillOpen'
    OBVIOUS
  <2>1. CASE UNCHANGED follow
    BY <2>1 DEF follow, StillOpen, Working
  <2>2. CASE FollowStep \/ Close
    BY <2>2 DEF FollowStep, StatChanged, StatIdle, Extract, ExtractRaises, CheckMarked,
       CheckUnmarked, CheckNoTerminators, CheckRaises, Age, Yield, Resume, Close, Wake,
       Stops, StillOpen, Working
  <2> QED BY <2>1, <2>2 DEF Next, vars
<1> QED BY <1>1, <1>2, PTL DEF Spec

(* What follow() yields is true of the file it has open.                   *)
LEMMA YieldIsReport ==
  ASSUME IInv, StillOpen, Yield
  PROVE  Watcher!Report
<1>0. /\ run \in Nat /\ rewrites \in Nat /\ last.run \in Nat
      /\ lines \in Seq(Line) /\ produced \in Nat
      /\ last.size \in Nat /\ seen \in Nat /\ pc \in Working
  BY DEF IInv, TypeOK, FileTypeOK, Update, SizesInv, Working, Yield
<1>1. /\ ReportOf(last)' = [run |-> run, size |-> seen, at |-> value.at,
                            finished |-> state \in Finished]
      /\ produced' = produced + 1
      /\ UNCHANGED <<rewrites, lines, phase>>
  BY DEF Yield, file, ReportOf
<1>2. produced = 0 \/ ~ReportOf(last).finished
  BY <1>0 DEF StillOpen, ReportOf
<1>3. run = rewrites => Watcher!Honest(ReportOf(last)')
  <2> SUFFICES ASSUME run = rewrites
               PROVE  Watcher!Honest(ReportOf(last)')
    OBVIOUS
  <2>1. seen <= Size(lines)
    BY DEF IInv, SizesInv
  <2>2. Covers(seen, value.at) /\ (state \in Finished => phase = "ended")
    BY DEF IInv, ValueInv, MarkerInv, Yield
  <2>3. ASSUME NEW i \in Holds, 2 * i - 1 <= seen
        PROVE  i <= value.at
    <3>1. i \in 1 .. Len(lines) /\ lines[i] \in ValueLine
      BY <1>0 DEF Holds
    <3>2. i \in Covered(seen)
      BY <1>0, <2>3, <3>1 DEF Covered
    <3> QED BY <2>2, <3>1, <3>2 DEF Covers
  <2>4. ReportOf(last)'.size = seen /\ ReportOf(last)'.at = value.at
    BY <1>1
  <2>5. ReportOf(last)'.finished = (state \in Finished)
    BY <1>1
  <2>6. \A i \in Watcher!Begun(seen) : i <= value.at
    BY <2>3 DEF Watcher!Begun, Holds
  <2>7. ReportOf(last)'.finished => phase = "ended"
    BY <2>2, <2>5
  <2> QED BY <2>1, <2>4, <2>6, <2>7 DEF Watcher!Honest
<1>4. produced > 0 => /\ last.run <= run
                      /\ last.run = run => last.size < seen
  BY <1>0 DEF IInv, SizesInv
<1>5. run <= rewrites
  BY DEF IInv, SizesInv
<1> QED BY <1>1, <1>2, <1>3, <1>4, <1>5 DEF Watcher!Report, ReportOf

(* follow() is a watcher, for every file and every schedule.               *)
THEOREM Refinement == Spec => IsAWatcher
<1>1. Init => Watcher!Init
  <2> SUFFICES ASSUME Init PROVE Watcher!Init
    OBVIOUS
  <2>1. Size(lines) = 0 /\ Holds = {}
    BY DEF Init, FileInit, Size, Torn, Holds
  <2> QED BY <2>1 DEF Init, FileInit, FollowInit, Watcher!Init, Holds
<1>2. ASSUME IInv, StillOpen, [Next]_vars
      PROVE  [Watcher!Next]_(Watcher!vars)
  <2>1. CASE FileNext /\ UNCHANGED follow
    BY <1>2, <2>1, FileStepIsWatched DEF IInv, TypeOK, Watcher!Next
  <2>2. CASE Yield
    BY <1>2, <2>2, YieldIsReport DEF Watcher!Next
  <2>3. ASSUME ~(FileNext /\ UNCHANGED follow), ~Yield
        PROVE  UNCHANGED Watcher!vars
    <3>1. UNCHANGED <<file, last, produced>>
      BY <1>2, <2>3 DEF Next, vars, follow, FollowStep, StatChanged, StatIdle, Extract,
         ExtractRaises, CheckMarked, CheckUnmarked, CheckNoTerminators, CheckRaises, Age,
         Resume, Close, Wake
    <3> QED BY <3>1 DEF file, Watcher!vars, ReportOf
  <2> QED BY <2>1, <2>2, <2>3
<1> QED BY <1>1, <1>2, Invariant, StaysOpen, PTL DEF Spec, IsAWatcher, Watcher!Spec
=============================================================================
