SPECIFICATION FairSpec
CONSTANTS
  None = None
  t1 = t1
  t2 = t2
  c1 = c1
  c2 = c2
  Threads <- TwoThreads
  Commands <- OneCommand
  MaxTries = 3
  FailLimit = 2
  MaxFaults = 2
PROPERTIES
  
  KeyIsRenewed
  CommandsEnd
