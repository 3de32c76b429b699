CONSTANTS
  Alphabet <- MCAlphabet
  Digits <- MCDigits
  Needles <- MCNeedles
  Tables <- MCTables
  Documents <- MCDocuments
  Writes <- MCWrites
  Samples <- MCSamples
  MaxLength = 5
  MaxText = 7
  Preview = 2
  Batch = 2
  RowBatch = 3
  FieldsMax = 2
  FieldMax = 3
  ExactDigits = 2
SPECIFICATION Spec
CHECK_DEADLOCK FALSE
INVARIANTS BackendsAgree HitsAreGreedy NthFromEitherEnd LinesCoverText BlockReadsItsLines FastRowsMatchSlow
INVARIANTS NothingRaises  AllIsEachInTurn ExplainAgrees CutLeavesOneLineOut ScanPointsAtCat
PROPERTIES GrowthKeepsHits GrowthKeepsReadings
