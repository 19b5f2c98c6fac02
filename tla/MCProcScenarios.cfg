SPECIFICATION MCSpec
CONSTANTS
  s1 = s1
  s2 = s2
  q1 = q1
  q2 = q2
  q3 = q3
  Sessions <- MCSessions
  Streams = {"stdout", "stderr"}
  TTYs = {s2}
  SpawnPriorities = {"normal"}
  MaxSessions = 1
  MaxChunks = 2
  k1 = k1
  k2 = k2
  Keys <- MCKeys
  Writers <- MCWriters
  Queues <- MCQueues
  Resetters = {run}
  Messages <- MCMessages
  Sizes = {1}
  MaxMessages = 2
  MaxBytes = 2
  NoQueue = NoQueue
  MaxGeneration = 2
INVARIANTS
  TypeOKSessions
  ExitIsLast
PROPERTIES
  ImplementsOutputQueues
  DeadSessionsUnregister
  RetiredSessionsEnd
CHECK_DEADLOCK FALSE
