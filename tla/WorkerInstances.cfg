SPECIFICATION FairSpec
CONSTANTS
    Proc = {p1, p2}
    Instance = {i1, i2, i3}
    NoInstance = NoInstance
    Targets = {0, 1, 2}
    InitialTarget = 1
    MaxFaults = 2
    MaxChanges = 2
    MaxLateRenewals = 1
PROPERTIES
    LiveWithinTarget
    SuspendedStops
    AlwaysReplaced
