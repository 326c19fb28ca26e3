CONSTANTS
  AreaSize = 3
  FirstArea = 1
  MoreAreas = {4, 7, 11}
  MaxEntries = 2
  LeafNodes = 3
  NodeContainers = 2
  Reserved = {1, 2}
  MaxNodes = 11
  Keys = {1, 2, 3, 4, 5, 6, 7, 8, 9, 10, 11}
  BRoot = 1
  AdminBlocks = {2, 3, 4, 5, 6, 7, 8, 9}
  LeafBranches = 4
  NodeBranches = 4
  Gaps = 2
  Blocks = {1, 2, 3}
  Places = {1, 2}
SPECIFICATION AllSpec
INVARIANTS KeysInPlace NodesInPlace OperationsInPlace
PROPERTIES IsKeySet IsNodeSet IsOperationSet
CONSTRAINT FewGaps
CHECK_DEADLOCK FALSE
