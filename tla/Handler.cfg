SPECIFICATION Spec
CONSTANTS
  a = a
  b = b
  l = l
  m = m
  UserNames <- Names
  Chain <- Chained
  MaxNode = 4
  Room = 2
  Locks = {l, m}
  NoLock = NoLock
  Up = Up
  Paths <- MCPaths
  Targets <- MCTargets
  AdminBlocks = {4, 5}
  MaxSize = 1
  Few = 3
  MaxDeleted = 1
  Lapses = {}
CONSTRAINT FewLocks
INVARIANTS ObjectsOkay RecycledInfoRight
PROPERTIES IsNameSpace PacketsAnswered
