SPECIFICATION OrderedFairSpec
CONSTANTS
    MaxId = 2
    Row <- AllNormal
    Limit = 2
    MaxRangeReclaims = 2
    MaxRetries = 1
    MaxDelays = 1
    MaxStalls = 1
    LeaseToken = {t1}
    RunToken = {r1}
    NoToken = NoToken
PROPERTIES
    StartsInOrder
    LivesOrDies
    EventuallyInOrder
