CONSTANTS
  MaxBufferLine = 7
  LenBufferOut = 2
  SetLens = {2}
  ColLens = {2, 5, 11}
  OtherLens = {1, 5}
  LongLens = {7, 12}
  MaxTextLines = 4
  Texts <- RowTexts
SPECIFICATION Spec
INVARIANTS BufferTypeOK RoomToRead SavedFits Faithful EachLineSeen LineInv
CHECK_DEADLOCK FALSE
