SPECIFICATION Spec
CONSTANTS
  None = None
  TaskStates <- MCTaskStates
  Events <- MCEvents
  Ops <- MCOps
  Percents = {50, 60}
  Positions <- MCPositions
  TimeStep = 60
  MaxTime = 61
  LastBeat = 0
  MaxSaves = 0
  MaxRestarts = 0
INVARIANTS
  SessionActivityCoherent
  SettledAgreesWithTelemetry
PROPERTIES
  OnlyChargingDocksASession
CHECK_DEADLOCK FALSE
