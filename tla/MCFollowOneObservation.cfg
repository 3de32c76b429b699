SPECIFICATION FairSpec
CONSTANTS
  MaxLines = 3
  MaxRewrites = 0
  TailLines = 2
  HeadLines = 2
  None = None
  NoLimit = None
  Limits <- MCLimits
  MarkerSets <- MCMarkerSets
INVARIANT
  FinalValueIsFinal
CHECK_DEADLOCK FALSE
