---------------------------- MODULE SourceHandle ----------------------------
(***************************************************************************)
(* source.py: the life of one Source, from the open to the close, on a     *)
(* file that another program appends to, truncates or removes.             *)
(*                                                                         *)
(* The constructor opens, asks for the size, and then reads or maps, in    *)
(* system calls of their own; close() releases the view, closes the map    *)
(* and closes the descriptor, and each of them may be the last.  Contents  *)
(* are left out: what counts is how much of the file a Source has.         *)
(***************************************************************************)
EXTENDS Integers

CONSTANTS
  SmallFile,     \* small_file_limit
  MaxLength,     \* bound: length of the file
  MaxCuts,       \* bound: how often it is truncated
  MaxBorrowed    \* bound: slices the caller holds at a time

ASSUME SourceAssumption ==
  SmallFile \in Nat /\ MaxLength \in Nat /\ MaxCuts \in Nat /\ MaxBorrowed \in Nat

VARIABLES
  exists,        \* the path names the file
  length,        \* its length now
  cuts,          \* how often it was truncated
  pc,            \* where the Source is
  fd,            \* it holds a descriptor
  size,          \* self.size
  got,           \* length of self._data
  mapped,        \* self._data is a map of the file, not a copy
  borrowed       \* slices that are alive

file == <<exists, length, cuts>>
source == <<pc, fd, size, got, mapped, borrowed>>
vars == <<file, source>>

(* "released" and "unmapped" are the points between the steps of close(),  *)
(* "stuck" is a close() that the map refused, "failed" a constructor that  *)
(* raised, "killed" a process that touched a page that is no longer there. *)
Opening == {"opened", "reading", "mapping"}
Closing == {"released", "unmapped"}
PC == {"unopened", "ready", "closed", "stuck", "failed", "killed"} \union Opening \union Closing

Init ==
  /\ exists \in BOOLEAN
  /\ length \in 0 .. MaxLength
  /\ cuts = 0
  /\ pc = "unopened"
  /\ fd = FALSE
  /\ size = 0 /\ got = 0
  /\ mapped = FALSE
  /\ borrowed = 0

(***************************************************************************)
(* The other program.                                                      *)
(***************************************************************************)
Append ==
  /\ \E n \in length + 1 .. MaxLength : length' = n
  /\ UNCHANGED <<exists, cuts, source>>

Truncate ==
  /\ cuts < MaxCuts
  /\ \E n \in 0 .. length - 1 : length' = n
  /\ cuts' = cuts + 1
  /\ UNCHANGED <<exists, source>>

(* An open Source keeps the file, only the path is gone.                   *)
Remove ==
  /\ exists
  /\ exists' = FALSE
  /\ UNCHANGED <<length, cuts, source>>

(***************************************************************************)
(* Slips: variants of the actions below with one mistake each.             *)
(***************************************************************************)
(* A single read is taken for all there is.                                *)
SlipOneRead ==
  /\ pc = "reading"
  /\ got > 0 \/ length = 0
  /\ pc' = "ready"
  /\ UNCHANGED <<file, fd, size, got, mapped, borrowed>>

(* The handler that closes the descriptor is forgotten.                    *)
SlipMapFails ==
  /\ pc = "mapping"
  /\ length = 0
  /\ pc' = "failed"
  /\ UNCHANGED <<file, fd, size, got, mapped, borrowed>>

(* slice() without _check_open.                                            *)
SlipBorrow ==
  /\ pc \in {"ready", "closed"}
  /\ borrowed < MaxBorrowed
  /\ borrowed' = borrowed + 1
  /\ UNCHANGED <<file, pc, fd, size, got, mapped>>

(* A slice is dropped twice.                                               *)
SlipDrop ==
  /\ borrowed' = borrowed - 1
  /\ UNCHANGED <<file, pc, fd, size, got, mapped>>

(***************************************************************************)
(* Source.__init__ and from_bytes.                                         *)
(***************************************************************************)
Open ==
  /\ pc = "unopened"
  /\ exists
  /\ fd' = TRUE
  /\ pc' = "opened"
  /\ UNCHANGED <<file, size, got, mapped, borrowed>>

OpenFails ==
  /\ pc = "unopened"
  /\ ~exists
  /\ pc' = "failed"
  /\ UNCHANGED <<file, fd, size, got, mapped, borrowed>>

FromBytes ==
  /\ pc = "unopened"
  /\ \E n \in 0 .. MaxLength : size' = n /\ got' = n
  /\ pc' = "ready"
  /\ UNCHANGED <<file, fd, mapped, borrowed>>

(* fstat, and what the size decides.                                       *)
Way(n) == IF n = 0 THEN "ready" ELSE IF n <= SmallFile THEN "reading" ELSE "mapping"
Stat ==
  /\ pc = "opened"
  /\ size' = length
  /\ pc' = Way(length)
  /\ UNCHANGED <<file, fd, got, mapped, borrowed>>

(* One os.read of the loop: some of what is asked for and is there.        *)
ReadSome ==
  /\ pc = "reading"
  /\ \E n \in got + 1 .. size : n <= length /\ got' = n
  /\ UNCHANGED <<file, pc, fd, size, mapped, borrowed>>

(* All of it, or the end of a file that became shorter.                    *)
ReadDone ==
  /\ pc = "reading"
  /\ got >= size \/ got >= length
  /\ pc' = "ready"
  /\ UNCHANGED <<file, fd, size, got, mapped, borrowed>>

(* mmap(fd, 0) asks for the length itself, and refuses an empty file; the  *)
(* handler closes the descriptor.                                          *)
Map ==
  /\ pc = "mapping"
  /\ length > 0
  /\ mapped' = TRUE
  /\ got' = length
  /\ pc' = "ready"
  /\ UNCHANGED <<file, fd, size, borrowed>>

MapFails ==
  /\ pc = "mapping"
  /\ length = 0
  /\ fd' = FALSE
  /\ pc' = "failed"
  /\ UNCHANGED <<file, size, got, mapped, borrowed>>

(***************************************************************************)
(* Slices, and the pages under them.                                       *)
(***************************************************************************)
Borrow ==
  /\ pc = "ready"
  /\ borrowed < MaxBorrowed
  /\ borrowed' = borrowed + 1
  /\ UNCHANGED <<file, pc, fd, size, got, mapped>>

Drop ==
  /\ borrowed > 0
  /\ borrowed' = borrowed - 1
  /\ UNCHANGED <<file, pc, fd, size, got, mapped>>

(* A search, a read or a slice touches what a truncation took away: in the *)
(* last page there are zeros, behind it SIGBUS, and the descriptors go     *)
(* with the process.                                                       *)
Touch ==
  /\ mapped /\ length < got
  /\ pc = "ready" \/ (pc # "killed" /\ borrowed > 0)
  /\ pc' = "killed"
  /\ fd' = FALSE
  /\ borrowed' = 0
  /\ UNCHANGED <<file, size, got, mapped>>

(***************************************************************************)
(* close(), also by way of __exit__.  The view never refuses: a slice is   *)
(* an export of the map, not of the view.  Once _closed is set, another    *)
(* close() returns at once, so nothing leads out of "stuck".               *)
(***************************************************************************)
ReleaseView ==
  /\ pc = "ready"
  /\ pc' = IF mapped THEN "released" ELSE "unmapped"
  /\ UNCHANGED <<file, fd, size, got, mapped, borrowed>>

CloseMap ==
  /\ pc = "released"
  /\ pc' = IF borrowed > 0 THEN "stuck" ELSE "unmapped"
  /\ UNCHANGED <<file, fd, size, got, mapped, borrowed>>

CloseDescriptor ==
  /\ pc = "unmapped"
  /\ fd' = FALSE
  /\ pc' = "closed"
  /\ UNCHANGED <<file, size, got, mapped, borrowed>>

FileNext == Append \/ Truncate \/ Remove
SourceNext ==
  \/ Open \/ OpenFails \/ FromBytes \/ Stat \/ ReadSome \/ ReadDone \/ Map \/ MapFails
  \/ Borrow \/ Drop \/ Touch
  \/ ReleaseView \/ CloseMap \/ CloseDescriptor
Next == FileNext \/ SourceNext
Spec == Init /\ [][Next]_vars
-----------------------------------------------------------------------------
(* Every variable has its type.                                            *)
TypeOK ==
  /\ exists \in BOOLEAN /\ fd \in BOOLEAN /\ mapped \in BOOLEAN
  /\ length \in Nat /\ cuts \in Nat /\ size \in Nat /\ got \in Nat /\ borrowed \in Nat
  /\ pc \in PC

(* A Source that is done with, however it ended, has no descriptor left,   *)
(* but for the one case the comment in close() wants to exclude: a map     *)
(* whose slices are alive (source.py:237-249).                             *)
OnlyBorrowedMapStrands ==
  pc \in {"unopened", "failed", "closed", "killed", "stuck"} /\ fd => pc = "stuck" /\ mapped

(* "Leave the source open so the caller can drop the slices and retry,     *)
(* rather than stranding a half closed object" (source.py:239-240): what   *)
(* close() has marked as closed, and is through with, holds no descriptor. *)
NothingStranded == pc \in {"stuck", "closed"} => ~fd

(* No slice points into a map that is closed: the map refuses, and a       *)
(* closed Source lends nothing (source.py:43-44, 100-103).                 *)
NoDanglingSlice == mapped /\ pc \in {"unmapped", "closed"} => borrowed = 0

(* Of a file that is only appended to, a Source has all that its size      *)
(* says, however short the reads are and whatever is appended between the  *)
(* calls, exactly that when it copies, and it is never killed              *)
(* (source.py:23-33, 66-79).                                               *)
AppendedFileIsWhole ==
  cuts = 0 =>
    /\ pc \in {"ready", "stuck", "closed"} \union Closing => size <= got
    /\ pc = "ready" /\ ~mapped => size = got
    /\ pc # "killed"

(* What makes the above inductive.                                         *)
DescriptorInv ==
  /\ pc \in {"unopened", "failed", "closed", "killed"} => ~fd
  /\ pc \in {"released", "stuck"} => mapped
  /\ mapped => pc \notin {"unopened", "failed"} \union Opening
LengthInv ==
  /\ pc \in {"unopened", "opened"} => got = 0
  /\ pc = "mapping" => size > 0 /\ got = 0
  /\ pc = "reading" => got <= size
  /\ ~mapped /\ pc \in {"ready", "stuck", "closed"} \union Closing => got <= size
  /\ cuts = 0 /\ pc \in {"reading", "mapping"} => size <= length
  /\ cuts = 0 /\ mapped => got <= length
IInv ==
  /\ TypeOK /\ DescriptorInv /\ LengthInv
  /\ NoDanglingSlice /\ AppendedFileIsWhole
=============================================================================
