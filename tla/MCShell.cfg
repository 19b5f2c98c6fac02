SPECIFICATION MCSpec
CONSTANTS
  e1 = e1
  e2 = e2
  i1 = i1
  x1 = x1
  Resetters = {run}
  MaxGeneration = 2
  Shells = {x1, x2}
  ShellIds = {i1, i2}
  NoShell = NoShell
  Jobs = {x2}
  MaxShells = 2
  Terminals = {y1, y2}
  NoTerminal = NoTerminal
  Execs <- MCExecs
  NoExec = NoExec
  Echoing = {y2}
  LongLines = {e2}
INVARIANTS
  MapIsRight
  TypeOKParts
  BlocksUntilCompleteUnechoed
  BuffersKeepApart
PROPERTIES
  DoomedShellsEnd
  ExecsReturn
CHECK_DEADLOCK FALSE
