SPECIFICATION OrderedSpec
CONSTANTS
    MaxId = 2
    Row <- AllNormal
    Limit = 1
    MaxRangeReclaims = 2
    MaxRetries = 1
    MaxDelays = 1
    MaxStalls = 0
    LeaseToken = {t1, t2}
    RunToken = {r1}
    NoToken = NoToken
SYMMETRY TokenSymmetry
PROPERTIES
    StartsInOrder
