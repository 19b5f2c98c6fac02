SPECIFICATION MCSpec
CONSTANTS
  Resetters = {run, stop}
  Run = run
  Stop = stop
  MaxGeneration = 4
  r2 = r2
  r3 = r3
  Runs <- MCRuns
  HelperOf <- MCHelperOf
  Cancels = {c1}
  RunIds = {i1}
  RunKeys = {i1}
  CancelRequests <- MCCancelRequests
  NoId = NoId
  NoRun = NoRun
  Tokens = {k1, k2}
  NoToken = NoToken
INVARIANTS
  TypeOKParts
  CancelReachesItsRun
  RegistryIsRight
  ServesAsSaved
  WriterDiesWithConnection
  LeftoversOnlyIfOvertaken
PROPERTIES
  InterruptedRunsEnd
  TokensBuyFirstCredentials
  StopEndsRun
CHECK_DEADLOCK FALSE
