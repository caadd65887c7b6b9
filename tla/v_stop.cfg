CONSTANTS
  Groups <- StatementGroups
  MaxFiles = 2
  MaxEvents = 2
  PipeSize = 4
  FlushEachLine = TRUE
  Faults = {"slow"}
  MaxTimeouts = 1
  MaxCaptured = 20
  MaxStarts = 0
SPECIFICATION FairSpec
PROPERTY StopEnds
CHECK_DEADLOCK FALSE
