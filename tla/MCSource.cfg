SPECIFICATION Spec
CONSTANTS
  SmallFile = 2
  MaxLength = 4
  MaxCuts = 2
  MaxBorrowed = 2
INVARIANTS
  TypeOK
  OnlyBorrowedMapStrands
  NoDanglingSlice
  AppendedFileIsWhole
CHECK_DEADLOCK FALSE
