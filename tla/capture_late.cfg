CONSTANTS
  Groups <- PlainGroups
  MaxFiles = 2
  MaxEvents = 3
  PipeSize = 4
  FlushEachLine = TRUE
  Faults = {"kill", "slow", "list"}
  MaxTimeouts = 1
  MaxCaptured = 4
  MaxStarts = 1
SPECIFICATION Spec
INVARIANTS NoLoss ResumeAtTransaction ResumeCaptured CaptureInv
PROPERTY ImplementsService
CHECK_DEADLOCK FALSE
