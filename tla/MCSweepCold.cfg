SPECIFICATION FairSpec
CONSTANTS
  Threads = {t1, t2}
  none = none
  pending = pending
  error = error
  NoFormat = none
  Pending = pending
  Error = error
  Formats <- MCFormats
  Priority <- MCPriority
  Builtin <- MCBuiltin
  Order <- MCOrder
  Files <- MCFiles
  Banner <- MCBanner
  Suffix <- MCSuffix
  PathLists <- MCColdPaths
  Quantities <- MCQuantities
  Reads <- MCReads
  Ending <- MCEnding
  Unreadable = {"missing"}
  WorkerCounts = {1, 2}
  MaxSweeps = 2
  MaxRefreshes = 1
  MaxEdits = 0
INVARIANT
  SingleWorkerMatchesMany
CHECK_DEADLOCK FALSE
