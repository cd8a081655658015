INIT MCInit
NEXT MCNext
SYMMETRY Symmetry
CONSTANTS
  None = None
  Jobs = {j1}
  Summaries <- MCSummaries
  Keeps = {0, 2}
  DiskFails = TRUE
  MaxRestarts = 1
  Refreshes = {r1, r2}
  Objects = {1, 2, 3}
  Heat <- TheHeat
  Walks <- TheWalks
  MaxVisits = 3
  Tasks = {t1, t2}
  Lots <- TheLots
  MaxSessions = 1
  MaxEvents = 2
INVARIANTS
  OneRowPerSession
  PicturesCatchUp
PROPERTIES
  
  HeatmapsKept
CHECK_DEADLOCK FALSE
