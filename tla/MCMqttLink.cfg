SPECIFICATION FairSpec
CONSTANTS
    MaxSetups = 3
    MaxDrops = 2
    MaxRotations = 1
INVARIANTS
    NoSubscriptionLost
    RestoredBeforePushes
PROPERTIES
    Listens
CHECK_DEADLOCK FALSE
