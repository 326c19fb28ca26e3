CONSTANTS
  Cell = {s1}
  Val = {0, 1}
  Space = {s1, s2}
  Admin = {bitmap, a}
  Bitmap = bitmap
  InUse <- MCInUse
  TF = TF
  NoBlock = NoBlock
  GoOn = FALSE
SPECIFICATION FairSpec
INVARIANTS TypeOK IInv LogReadable
PROPERTIES Atomic FlushIsDurable MountEnds
