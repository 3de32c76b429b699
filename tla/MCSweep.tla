------------------------------ MODULE MCSweep ------------------------------
(***************************************************************************)
(* Two workers, two specs, and four files: one plain output, one whose     *)
(* head quotes the other program's banner, one only its suffix speaks for, *)
(* and one that cannot be opened; or two outputs of either program, one of *)
(* which may be such that reading it raises.                               *)
(***************************************************************************)
EXTENDS Sweep

CONSTANTS none, pending, error

MCFormats == {"orca", "gaussian", "text"}
MCPriority == [f \in MCFormats |-> IF f = "text" THEN -10
                                   ELSE IF f = "orca" THEN 50 ELSE 40]
MCBuiltin == <<"text">>
MCOrder == <<"gaussian", "orca">>
MCFiles == {"plain", "other", "both", "log", "missing", "torn"}
MCBanner == [f \in MCFiles |-> CASE f \in {"plain", "torn"} -> {"gaussian"}
                                 [] f = "other" -> {"orca"}
                                 [] f = "both" -> {"gaussian", "orca"}
                                 [] OTHER -> {}]
MCSuffix == [f \in MCFiles |-> IF f \in {"plain", "log"} THEN {"text"} ELSE {}]
MCColdPaths == {<<"plain", "other">>}
MCPaths == {<<"plain", "both", "log", "missing">>, <<"plain", "other">>, <<"torn", "plain">>}

(* The plain runs ended well and hold what is asked for, the second of     *)
(* them as two lists; the one that quotes a banner failed, with one        *)
(* quantity printed; in the last the one asked for cannot be read.         *)
MCQuantities == {"energy", "gap"}
Levels == Listed(<<[ev |-> 1], [ev |-> 2, energy |-> 3]>>)
Values(energy, gap) == [energy |-> energy, gap |-> gap]
MCReads == [f \in MCFiles |-> [g \in MCFormats |->
             CASE f = "plain" -> Values(Scalar(7), Levels)
               [] f = "other" -> Values(Levels, Levels)
               [] f = "both" -> Values(Scalar(7), Missing)
               [] f = "torn" -> error
               [] OTHER -> Values(Missing, Missing)]]
MCEnding == [f \in MCFiles |-> [g \in MCFormats |->
              IF f \in {"plain", "other"} THEN "ok" ELSE IF f = "both" THEN "error" ELSE "unknown"]]
=============================================================================
