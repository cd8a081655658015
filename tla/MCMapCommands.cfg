SPECIFICATION Spec
CONSTANTS
    None = None
    Pending = Pending
    c1 = c1
    c2 = c2
    f1 = f1
    f2 = f2
    Maps = {0, 1, 2}
    ZoneIds <- SameZones
    Calls = {c1, c2}
    Fetches = {f1, f2}
    Kinds = {"zone"}
    MaxNested = 4
    MaxSwitches = 1
    MaxStarts = 2
    MaxFaults = 1
    MaxPicks = 2
INVARIANTS
    MowsOnGivenMap
    
    SelectionSettles
PROPERTIES
    SelectConverges
CHECK_DEADLOCK FALSE
