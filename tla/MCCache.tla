------------------------------- MODULE MCCache -------------------------------
(* Instances of OffsetCache for TLC.                                       *)
EXTENDS OffsetCache, TLC

Symmetric == Permutations(Workers) \union Permutations(Procs)
=============================================================================
