CONSTANTS
  Block = {b1}
  Buffer = {x1, x2, x3, x4}
  Cell = {w1}
  Val = {0, 1}
  NoBlock = NoBlock
  MaxLocks = 1
  ReuseMayFail = TRUE
SPECIFICATION MCSpec
SYMMETRY Symmetry
INVARIANTS RollbackRestores
