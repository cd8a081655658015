SPECIFICATION FairSpec
CONSTANTS
  None = None
  TaskStates = {6}
  Events = {}
  Ops = {}
  Percents = {}
  Positions = {}
  TimeStep = 100
  LastBeat = 1
  MaxTime = 101
  MaxSaves = 1
  MaxRestarts = 1
PROPERTIES
  SilenceIsNoticed
CHECK_DEADLOCK FALSE
