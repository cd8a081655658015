SPECIFICATION FairSpec
CONSTANTS
  None = None
  t1 = t1
  t2 = t2
  Tasks <- MCTasks
  Kinds = {"run"}
  MaxRuns = 2
  MaxInFlight = 1
  MaxAttempts = 0
  MaxRestarts = 0
  MaxPresses = 1
  Lossy = FALSE
  FetchFails = FALSE
  DiskFails = TRUE
PROPERTIES
  SessionIsFinalized
CHECK_DEADLOCK FALSE
