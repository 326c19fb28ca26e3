CONSTANTS
  Disks = {d1, d2}
  DosDisks = {d1, d2}
  NoDisk = NoDisk
  Application = app
  Workbench = wb
  Clients = {app, wb}
  NoClient = NoClient
  Sends <- MCSends
  ListLockers = {wb}
  Handles = {h1}
  MaxNodes = 2
  Tries = 2
  MaxInhibits = 1
  Lapses = {}
SPECIFICATION Spec
INVARIANTS TimersRight DosListRight
PROPERTIES IsVolumeSet PacketsAnswered DiskMounted ChangesSaved
