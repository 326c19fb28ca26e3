CONSTANTS
  Total = 26
  LineSize = 8
  Lines = 4
  MaxTransfer = 8
  Reads <- MCReads
  Writes <- MCWrites
  Words <- MCWords
  Lefts <- MCLefts
  OverDirty = FALSE
SPECIFICATION Spec
INVARIANTS ValidIsDisk NothingLost ReadsReturnLatest
PROPERTIES FlushIsComplete
