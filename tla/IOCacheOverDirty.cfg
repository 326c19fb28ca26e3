CONSTANTS
  Total = 26
  LineSize = 8
  Lines = 4
  MaxTransfer = 8
  Reads <- MCGapReads
  Writes <- MCGapWrites
  Words <- MCWords
  Lefts <- MCLefts
  OverDirty = TRUE
SPECIFICATION Spec
INVARIANTS ValidIsDisk
