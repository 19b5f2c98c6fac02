SPECIFICATION SpecSessions
CONSTANTS
  s1 = s1
  s2 = s2
  Sessions <- MCSessions
  Streams = {"stdout"}
  TTYs = {}
  SpawnPriorities = {"normal"}
  MaxSessions = 0
  MaxChunks = 1
  Keys = {k1}
  Writers <- MCWriters
  Queues = {q1, q2, q3}
  Resetters = {run}
  Messages <- MCMessages
  Sizes = {1}
  MaxMessages = 1
  MaxBytes = 1
  NoQueue = NoQueue
  MaxGeneration = 1
SYMMETRY MCSymmetry
INVARIANT ExitAfterAllOutput
CHECK_DEADLOCK FALSE
