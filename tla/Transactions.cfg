CONSTANTS
  Block = {b1, b2}
  Buffer = {x1, x2, x3, x4}
  Cell = {w1, w2}
  Val = {0, 1}
  NoBlock = NoBlock
  MaxLocks = 2
  ReuseMayFail = FALSE
SPECIFICATION MCSpec
SYMMETRY Symmetry
CONSTRAINT Bounded
INVARIANTS Coherent OriginalIsDisk RulesKept LocksKept BuffersSuffice
PROPERTIES KeepsPromise
