SPECIFICATION FairSpec
CONSTANTS
  MaxLines = 2
  MaxRewrites = 1
  TailLines = 1
  HeadLines = 1
  None = None
  NoLimit = None
  Limits <- MCLimits
  MarkerSets <- MCMarkerSets
INVARIANTS
  TypeOK
  ValueCoversSize
  FinishedMeansEnded
  RaisesOnlyOnLoss
PROPERTIES
  SizesGrow
  IsAWatcher
  TerminatedRunStopsFollow
  GrowthIsReported
CHECK_DEADLOCK FALSE
