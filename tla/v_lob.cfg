CONSTANTS
  MaxBufferLine = 7
  LenBufferOut = 2
  SetLens = {2}
  ColLens = {2, 14}
  OtherLens = {1}
  LongLens = {1}
  MaxTextLines = 3
  Texts <- RowTexts
SPECIFICATION Spec
INVARIANTS StartReloaded
CHECK_DEADLOCK FALSE
