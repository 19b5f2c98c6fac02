SPECIFICATION MCSpec
CONSTANTS
  Resetters = {run}
  MaxGeneration = 2
  p1 = p1
  p2 = p2
  a1 = a1
  a2 = a2
  Procs <- MCProcs
  NoProc = NoProc
  Terminals <- MCTerminals
  Asks <- MCAsks
  Nobody = Nobody
  PipeSize = 1
  WriteLen = 2
INVARIANTS
  TypeOKStdin
  WritesAreWhole
PROPERTIES
  OnlyUnreadInputBlocks
CHECK_DEADLOCK FALSE
