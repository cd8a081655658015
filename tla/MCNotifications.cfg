INIT MCInit
NEXT MCNext
CONSTANTS
  None = None
  c1 = c1
  c2 = c2
  Codes <- MCCodes
  j1 = j1
  j2 = j2
  Jobs <- MCJobs
  Page = 2
  SeenCap = 3
  MaxLag = 0
  MaxPosted = 5
  MaxRestarts = 1
  Replays = {r1, r2}
  Logs <- TheLogs
  MaxOptions = 2
  Widths = {1, 24}
  MaxRequests = 3
  MaxTurns = 1
SYMMETRY Symmetry
INVARIANTS
  NothingShownTwice
  ReplayIsOfPick
PROPERTIES
  OldStaysQuiet
  NoneSwallowed
CHECK_DEADLOCK FALSE
