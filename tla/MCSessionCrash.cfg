SPECIFICATION Spec
CONSTANTS
  None = None
  t1 = t1
  t2 = t2
  Tasks <- MCTasks
  Kinds = {"mow", "run"}
  MaxRuns = 1
  MaxInFlight = 1
  MaxAttempts = 0
  MaxRestarts = 1
  MaxPresses = 0
  Lossy = TRUE
  FetchFails = TRUE
  DiskFails = FALSE
SYMMETRY Symmetry
INVARIANTS
  LatchIsHeld
PROPERTIES
  NothingOnDiskIsLost
  EdgeMeansEnded
CHECK_DEADLOCK FALSE
