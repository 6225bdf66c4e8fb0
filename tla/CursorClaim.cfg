SPECIFICATION Spec
CONSTANTS
    MaxXid = 5
    MaxId = 3
    MaxOpen = 2
    Limit = 2
    Worker = {w1, w2}
CHECK_DEADLOCK FALSE
INVARIANTS
    SettledHeadIsSettled
    NoMessageSkipped
    RangesPartitionClaimed
PROPERTY
    ImplementsFrontier
