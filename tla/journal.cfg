CONSTANTS
  Setting = 2
  Unit = 1
  DefaultUnits = 3
  Word = 16
  Faults = {"open", "write", "kill"}
  MaxFiles = 4
  MaxLines = 4
  MaxStarts = 3
SPECIFICATION Spec
INVARIANTS JournalTypeOK ReadInOrder MarksFrame PredecessorEnded FileSizes JournalInv
PROPERTY ImplementsFile
CHECK_DEADLOCK FALSE
