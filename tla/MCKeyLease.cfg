SPECIFICATION FairKeyLeaseSpec
CONSTANTS
    Token = {t1, t2}
    NoToken = NoToken
    MaxKeyedId = 4
    Rank <- LateRank
    Compacted = {1, 2, 3}
    MaxFaults = 1
    MaxSweeps = 1
INVARIANTS
    OneRunPerKey
    NewestNeverSkipped
PROPERTIES
    NeverBackwards
    EventuallyResolved
