------------------------------ MODULE MCFollow ------------------------------
(***************************************************************************)
(* follow() on a file of up to two lines, three where no rewrite is        *)
(* needed, that is rewritten at most once.                                 *)
(***************************************************************************)
EXTENDS Follow

CONSTANT None     \* model value: limit=None

MCLimits == {None, 1}
MCMarkerSets == {{}, Marker}
=============================================================================
