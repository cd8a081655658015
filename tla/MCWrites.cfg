SPECIFICATION Spec
CONSTANTS
  None = None
  f1 = f1
  f2 = f2
  p1 = p1
  p2 = p2
  s1 = s1
  s2 = s2
  j1 = j1
  j2 = j2
  v1 = v1
  v2 = v2
  Settings <- TwoSettings
  Parts <- OnePart
  Slots <- OneSlot
  Values <- MCValues
  Edits <- MCEdits
  Default = v1
  Missing <- AllOrNone
  Jobs <- MCJobs
  MaxEdits = 2
INVARIANTS
  SettingsWriteIsFresh
PROPERTIES
  LockIsFreed
  ViewConverges
