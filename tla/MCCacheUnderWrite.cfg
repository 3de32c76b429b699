CONSTANTS
  Procs = {p1, p2}
  Workers = {w1, w2}
  MaxSize = 2
  MaxWrites = 1
  MaxQueries = 2
  MaxRestarts = 0
  MaxEntries = 1
  Collisions = FALSE
SYMMETRY Symmetric
SPECIFICATION Spec
CHECK_DEADLOCK FALSE
INVARIANT FreshQueryIsRight
