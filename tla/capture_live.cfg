CONSTANTS
  Groups <- StatementGroups
  MaxFiles = 2
  MaxEvents = 2
  PipeSize = 3
  FlushEachLine = FALSE
  Faults = {"slow", "disk"}
  MaxTimeouts = 1
  MaxCaptured = 20
  MaxStarts = 0
SPECIFICATION FairSpec
INVARIANT NoLossOnExit
PROPERTIES CatchUp XaiCatchUp StopEndsOrBlocks
CHECK_DEADLOCK FALSE
