------------------------------ MODULE MCSource ------------------------------
(* A Source on a file of up to four units, the first two of which are a    *)
(* small file, truncated up to twice, with up to two slices.               *)
EXTENDS SourceHandle
=============================================================================
