CONSTANTS
  Total = 7
  PerBitmap = 3
  MaxNeeded = 4
  AlwaysFree = 0
  SpaceListMax = 3
SPECIFICATION Spec
INVARIANTS FindsSpace LogBlocksDiffer SpacesRight
PROPERTIES SearchEnds
CHECK_DEADLOCK FALSE
