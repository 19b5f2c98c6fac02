CONSTANTS
  Ops = {o1, o2, o3}
  a = a
  b = b
  f = f
  g = g
  Names <- MCNames
  Paths <- MCPaths
  Requests <- MCRequests
  Trees <- MCTrees
  Chunks = 2
  MaxFaults = 1
SPECIFICATION FilesSpec
SYMMETRY MCSymmetry
INVARIANTS
  FilesTypeOK
  PublishedIsComplete
  SuccessHandsOver
  ResetStopsWrites
PROPERTY RenameDestroysNothing
CHECK_DEADLOCK FALSE
