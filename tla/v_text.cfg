CONSTANTS
  Groups <- XidGroups
  MaxFiles = 1
  MaxEvents = 3
  PipeSize = 8
  FlushEachLine = TRUE
  Faults = {}
  MaxTimeouts = 0
  MaxCaptured = 20
  MaxStarts = 0
SPECIFICATION Spec
INVARIANTS TextWritten
CHECK_DEADLOCK FALSE
