CONSTANTS
  Groups <- SavepointGroups
  MaxFiles = 1
  MaxEvents = 4
  PipeSize = 2
  FlushEachLine = TRUE
  Faults = {"kill"}
  MaxTimeouts = 0
  MaxCaptured = 20
  MaxStarts = 1
SPECIFICATION Spec
INVARIANTS ResumeAtTransaction
CHECK_DEADLOCK FALSE
