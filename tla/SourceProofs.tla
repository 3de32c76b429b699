---------------------------- MODULE SourceProofs ----------------------------
(***************************************************************************)
(* Proofs about the life of a Source, for files of any length, any limit   *)
(* for small files, and any number of truncations and slices.              *)
(***************************************************************************)
EXTENDS SourceHandle, TLAPS

(* Before anything is opened, the invariant holds.                         *)
LEMMA InitInv == Init => IInv
<1> SUFFICES ASSUME Init PROVE IInv
  OBVIOUS
<1>1. TypeOK
  <2>1. length \in Nat
    BY SourceAssumption DEF Init
  <2>2. exists \in BOOLEAN /\ fd \in BOOLEAN /\ mapped \in BOOLEAN
    BY DEF Init
  <2>3. cuts \in Nat /\ size \in Nat /\ got \in Nat /\ borrowed \in Nat /\ pc \in PC
    BY DEF Init, PC
  <2> QED BY <2>1, <2>2, <2>3 DEF TypeOK
<1>2. DescriptorInv /\ LengthInv
  BY DEF Init, DescriptorInv, LengthInv, Opening, Closing
<1>3. NoDanglingSlice /\ AppendedFileIsWhole
  BY DEF Init, NoDanglingSlice, AppendedFileIsWhole, Closing
<1> QED BY <1>1, <1>2, <1>3 DEF IInv

(* The other program: only a truncation shortens the file, and is counted. *)
LEMMA FileKeepsInv ==
  ASSUME IInv, FileNext
  PROVE  IInv'
<1> USE DEF IInv
<1> DEFINE Counted ==
      /\ UNCHANGED source
      /\ exists' \in BOOLEAN /\ length' \in Nat /\ cuts' \in Nat
      /\ cuts' = 0 => cuts = 0 /\ length <= length'
<1>a. ASSUME Append PROVE Counted
  <2>1. PICK n \in length + 1 .. MaxLength : length' = n
    BY <1>a DEF Append
  <2>2. length' \in Nat /\ length <= length'
    BY <2>1, SourceAssumption DEF TypeOK
  <2> QED BY <1>a, <2>2 DEF Append, TypeOK
<1>b. ASSUME Truncate PROVE Counted
  <2>1. PICK n \in 0 .. length - 1 : length' = n
    BY <1>b DEF Truncate
  <2>2. length' \in Nat /\ cuts' \in Nat /\ cuts' # 0
    BY <1>b, <2>1 DEF Truncate, TypeOK
  <2> QED BY <1>b, <2>2 DEF Truncate, TypeOK
<1>c. ASSUME Remove PROVE Counted
  <2>1. UNCHANGED <<length, cuts, source>> /\ exists' = FALSE
    BY <1>c DEF Remove
  <2>2. length <= length' /\ length' \in Nat /\ cuts' \in Nat
    BY <2>1 DEF TypeOK
  <2> QED BY <2>1, <2>2
<1>1. CASE Append \/ Truncate \/ Remove
  <2>1. Counted
    BY <1>1, <1>a, <1>b, <1>c
  <2>2. TypeOK'
    BY <2>1 DEF TypeOK, source
  <2>3. DescriptorInv' /\ NoDanglingSlice'
    BY <2>1 DEF DescriptorInv, NoDanglingSlice, source
  <2>4. LengthInv'
    BY <2>1, <2>2 DEF LengthInv, TypeOK, source
  <2>5. AppendedFileIsWhole'
    BY <2>1 DEF AppendedFileIsWhole, source
  <2> QED BY <2>2, <2>3, <2>4, <2>5
<1> QED BY <1>1 DEF FileNext

(* The constructor, and what it does on its two ways out.                  *)
LEMMA OpeningKeepsInv ==
  ASSUME IInv,
         Open \/ OpenFails \/ FromBytes \/ Stat \/ ReadSome \/ ReadDone \/ Map \/ MapFails
  PROVE  IInv'
<1> USE DEF IInv, TypeOK, PC, DescriptorInv, LengthInv, NoDanglingSlice,
        AppendedFileIsWhole, Opening, Closing, file
<1>1. CASE Open \/ OpenFails
  <2>1. /\ pc = "unopened" /\ ~fd /\ ~mapped
        /\ pc' \in {"opened", "failed"}
        /\ fd' = (pc' = "opened")
        /\ UNCHANGED <<exists, length, cuts, size, got, mapped, borrowed>>
    BY <1>1 DEF Open, OpenFails
  <2>2. DescriptorInv'
    BY <2>1
  <2>3. TypeOK'
    BY <2>1
  <2> QED BY <2>1, <2>2, <2>3
<1>2. CASE FromBytes
  BY <1>2, SourceAssumption DEF FromBytes
<1>3. CASE Stat
  BY <1>3, SourceAssumption DEF Stat, Way
<1>4. CASE ReadSome
  BY <1>4 DEF ReadSome
<1>5. CASE ReadDone
  BY <1>5 DEF ReadDone
<1>6. CASE Map
  BY <1>6 DEF Map
<1>7. CASE MapFails
  BY <1>7 DEF MapFails
<1> QED BY <1>1, <1>2, <1>3, <1>4, <1>5, <1>6, <1>7

(* Slices, accesses and the three steps of close().                        *)
LEMMA UseKeepsInv ==
  ASSUME IInv,
         Borrow \/ Drop \/ Touch \/ ReleaseView \/ CloseMap \/ CloseDescriptor
  PROVE  IInv'
<1> USE DEF IInv, TypeOK, PC, DescriptorInv, LengthInv, NoDanglingSlice,
        AppendedFileIsWhole, Opening, Closing, file
<1>1. CASE Borrow
  BY <1>1 DEF Borrow
<1>2. CASE Drop
  BY <1>2 DEF Drop
<1>3. CASE Touch
  <2>1. /\ pc' = "killed" /\ fd' = FALSE /\ borrowed' = 0
        /\ mapped /\ length < got
        /\ UNCHANGED <<exists, length, cuts, size, got, mapped>>
    BY <1>3 DEF Touch
  <2>2. cuts # 0
    BY <2>1
  <2>3. TypeOK' /\ NoDanglingSlice'
    BY <2>1
  <2>4. LengthInv' /\ AppendedFileIsWhole'
    BY <2>1, <2>2
  <2> QED BY <2>1, <2>3, <2>4
<1>4. CASE ReleaseView
  <2>1. CASE mapped
    BY <1>4, <2>1 DEF ReleaseView
  <2>2. CASE ~mapped
    BY <1>4, <2>2 DEF ReleaseView
  <2> QED BY <2>1, <2>2
<1>5. CASE CloseMap
  BY <1>5 DEF CloseMap
<1>6. CASE CloseDescriptor
  BY <1>6 DEF CloseDescriptor
<1> QED BY <1>1, <1>2, <1>3, <1>4, <1>5, <1>6

(* The invariant in every reachable state.                                 *)
THEOREM SourceInvariant == Spec => []IInv
<1>1. IInv /\ [Next]_vars => IInv'
  <2> SUFFICES ASSUME IInv, [Next]_vars
               PROVE  IInv'
    OBVIOUS
  <2>1. CASE FileNext
    BY <2>1, FileKeepsInv
  <2>2. CASE SourceNext
    BY <2>2, OpeningKeepsInv, UseKeepsInv DEF SourceNext
  <2>3. CASE UNCHANGED vars
    BY <2>3 DEF vars, file, source, IInv, TypeOK, DescriptorInv, LengthInv,
       NoDanglingSlice, AppendedFileIsWhole
  <2> QED BY <2>1, <2>2, <2>3 DEF Next
<1> QED BY <1>1, InitInv, PTL DEF Spec

-----------------------------------------------------------------------------
(* Every variable keeps its type.                                          *)
THEOREM SourceTypeCorrect == Spec => []TypeOK
<1>1. IInv => TypeOK
  BY DEF IInv
<1> QED BY <1>1, SourceInvariant, PTL

(* A descriptor outlives its Source only when a map refuses to close.      *)
THEOREM DescriptorsAreClosed == Spec => []OnlyBorrowedMapStrands
<1>1. IInv => OnlyBorrowedMapStrands
  BY DEF IInv, DescriptorInv, OnlyBorrowedMapStrands
<1> QED BY <1>1, SourceInvariant, PTL

(* No slice outlives the map it points into.                               *)
THEOREM SlicesAreSafe == Spec => []NoDanglingSlice
<1>1. IInv => NoDanglingSlice
  BY DEF IInv
<1> QED BY <1>1, SourceInvariant, PTL

(* A Source on a file that is only appended to is whole and stays usable.  *)
THEOREM AppendsAreHarmless == Spec => []AppendedFileIsWhole
<1>1. IInv => AppendedFileIsWhole
  BY DEF IInv
<1> QED BY <1>1, SourceInvariant, PTL
=============================================================================
