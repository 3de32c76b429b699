CONSTANTS
  Procs = {p1, p2}
  Workers = {w1, w2}
  MaxSize = 2
  MaxWrites = 1
  MaxQueries = 3
  MaxRestarts = 2
  MaxEntries = 1
  Collisions = TRUE
SYMMETRY Symmetric
SPECIFICATION Spec
CHECK_DEADLOCK FALSE
INVARIANTS TypeOK AnswerIsAnAnchor QuietFileIsRight
