------------------------------ MODULE MCConvert ------------------------------
(* An instance of Convert for TLC: files of two formats and of none, with  *)
(* a scalar and up to two lists, one of them a geometry, some of them with *)
(* cells a writer or a reader stumbles over; two tools that claim the same *)
(* pair, one of which says nothing of where it is, one whose command does  *)
(* not format, and one that has the name of the native way.                *)
EXTENDS Convert

MCFormats == {"orca", "xyz"}
MCTargets == {"csv", "json", "xyz", "pdb", "zzz", "mol"}
MCForced == {NoFormat, "orca", "nosuch"}

Atom(s, x) == [symbol |-> s, x |-> x]
Bare(s) == [symbol |-> s]
GeometryRows == <<Atom("C", "1"), Atom("H", "2")>>
(* Later rows with a hole, without x, with a word for x, with an atomic    *)
(* number for a symbol, with a number too large.                           *)
Broken ==
  {<<Atom("C", "1"), Atom("H", Hole)>>, <<Atom("C", "1"), Bare("H")>>,
   <<Atom("C", "1"), Atom("H", "n/a"), Atom("H", Hole)>>,
   <<Atom("C", "1"), Atom("6", "1")>>, <<Atom("C", "1"), Atom("H", "1e999")>>}
States == <<[ev |-> "1"], [ev |-> "2", energy |-> "9"], [ev |-> "3"]>>

File(format, energy, geometry, states, error) ==
  [format |-> format,
   values |-> [energy |-> energy, geometry |-> geometry, states |-> states],
   units |-> {"energy", "geometry"},
   error |-> error]

MCContents ==
  {File("orca", Scalar("7"), g, s, "none") :
     g \in {Missing, Listed(GeometryRows)}, s \in {Missing, Listed(States)}}
  \union {File("orca", Scalar("7"), Listed(g), Missing, "none") : g \in Broken}
  \union {File("orca", Scalar("7"), Missing, Missing, e) : e \in {"IndexError", "OverflowError"}}
  \union {File("xyz", Missing, Listed(GeometryRows), Missing, "none"),
          File("xyz", Scalar("7"), Listed(<< >>), Missing, "none"),
          File(NoFormat, Missing, Missing, Missing, "none")}

Tool(name, pairs, priority, rank, blind, flaw) ==
  [name |-> name, pairs |-> pairs, priority |-> priority, rank |-> rank,
   blind |-> blind, flaw |-> flaw]
MCBackends ==
  {Tool("obabel", {<<"*", "pdb">>}, 10, 2, FALSE, "none"),
   Tool("mine", {<<"orca", "pdb">>, <<"nosuch", "pdb">>}, 10, 1, TRUE, "none"),
   Tool("tolk", {<<"orca", "zzz">>}, 0, 3, FALSE, "none"),
   Tool("broken", {<<"*", "mol">>}, 0, 4, TRUE, "KeyError")}
=============================================================================
