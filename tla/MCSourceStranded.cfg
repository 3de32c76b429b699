SPECIFICATION Spec
CONSTANTS
  SmallFile = 2
  MaxLength = 4
  MaxCuts = 2
  MaxBorrowed = 2
INVARIANT
  NothingStranded
CHECK_DEADLOCK FALSE
