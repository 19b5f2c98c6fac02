SPECIFICATION MCSpec
CONSTANTS
  fast = fast
  slow = slow
  Keys <- MCKeys
  PriorityOf <- MCPriorityOf
  Writers = {w1}
  Queues = {q1, q2}
  Resetters = {run, stop}
  Run = run
  Messages = {m}
  Sizes = {1}
  MaxMessages = 1
  MaxBytes = 1
  NoQueue = NoQueue
  MaxGeneration = 3
  Senders = {g1}
  ControlCapacity = 1
  BurstLimit = 1
INVARIANTS
  TypeOKWriter
  NoSleepWithOutput
  OwnMessagesOnly
  NormalWaitsOneBurst
PROPERTY NormalIsSent
CHECK_DEADLOCK FALSE
