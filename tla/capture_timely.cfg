CONSTANTS
  Groups <- PlainGroups
  MaxFiles = 2
  MaxEvents = 5
  PipeSize = 3
  FlushEachLine = TRUE
  Faults = {"kill", "torn"}
  MaxTimeouts = 0
  MaxCaptured = 20
  MaxStarts = 1
SPECIFICATION Spec
INVARIANTS TypeOK NoLoss NoDuplicates PassDrained
INVARIANTS HandshakeInv PositionInv CompleteInv BoundaryInv
PROPERTY XaiMonotonic
CHECK_DEADLOCK FALSE
