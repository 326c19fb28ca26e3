SPECIFICATION Spec
CONSTANTS
  long = long
  short = short
  Files <- TwoFiles
  Locks = {l, m}
  NoFile = NoFile
  Total = 9
  Fixed = {0, 1, 6, 8}
  PerBitmap = 16
  AlwaysFree = 0
  SpaceListMax = 9
  BlockSize = 2
  AddLimit = 2
  ExtentLimit = 9
  MoveLimit = 2
  MovesMax = 2
  Roving = {2, 5}
  Lengths = {2, 5}
  SizeLimit <- Limits
  Rooms = {1, 9}
  Offsets = {0, 2, 5}
  Lapses = {"shrink"}
SYMMETRY Alike
INVARIANT ExtentsExist
