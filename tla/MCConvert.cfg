CONSTANTS
  Hole = Hole
  Numbers = {"6", "1e999"}
  Huge = {"1e999"}
  Words = {"n/a"}
  Contents <- MCContents
  Formats <- MCFormats
  NoFormat = NoFormat
  Backends <- MCBackends
  Targets <- MCTargets
  Forced <- MCForced
  Untouched = Untouched
  Empty = Empty
  Garbage = Garbage
  ToolOutput = ToolOutput
  MaxConversions = 2
  MaxChanges = 1
SPECIFICATION Spec
CHECK_DEADLOCK FALSE
INVARIANTS TypeOK RefusalSparesTarget OutcomeMatchesTarget OneListIsWhole JsonIsComplete
