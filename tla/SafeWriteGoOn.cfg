CONSTANTS
  Cell = {s1}
  Val = {0, 1}
  Space = {s1, s2}
  Admin = {bitmap, a}
  Bitmap = bitmap
  InUse <- MCInUse
  TF = TF
  NoBlock = NoBlock
  GoOn = TRUE
SPECIFICATION Spec
INVARIANTS LogReadable
