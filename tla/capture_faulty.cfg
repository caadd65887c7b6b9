CONSTANTS
  Groups <- RowGroups
  MaxFiles = 2
  MaxEvents = 3
  PipeSize = 3
  FlushEachLine = TRUE
  Faults = {"kill", "slow", "list", "dump", "purge", "disk"}
  MaxTimeouts = 1
  MaxCaptured = 3
  MaxStarts = 1
SPECIFICATION Spec
INVARIANTS NoGapInFile ServiceInv
CHECK_DEADLOCK FALSE
