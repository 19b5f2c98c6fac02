SPECIFICATION Spec
CONSTANTS
  Keys = {k1}
  Writers = {w1, w2}
  Queues = {q1, q2, q3}
  Resetters = {run}
  Messages = {m}
  Sizes = {1, 2, 4}
  MaxMessages = 2
  MaxBytes = 3
  NoQueue = NoQueue
  MaxGeneration = 2
SYMMETRY MCSymmetry
INVARIANTS
  TypeOK
  QueueBounds
  NoStaleItems
  NoLostWakeup
  ActiveEntriesHaveItems
  DrainedQueueIsDeleted
PROPERTY ImplementsStreams
CHECK_DEADLOCK FALSE
