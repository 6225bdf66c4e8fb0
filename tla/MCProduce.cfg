SPECIFICATION Spec
CONSTANTS
    o1 = o1
    o2 = o2
    o3 = o3
    c1 = c1
    c2 = c2
    LastValue = 1
    t1 = t1
    Op = {o1, o2, o3}
    KeyedCall = {c1, c2}
    Tx = {t1}
    Key = {k1, k2}
    Worker = {w1, w2}
    Scenarios <- MCScenarios
    MaxSize = 2
    MaxRetries = 2
    PartitionSize = 3
    MaxPerTx = 2
    MaxFaults = 1
    MaxHealFailures = 0
SYMMETRY WorkerSymmetry
INVARIANTS
    KeyLandsOnce
    SuccessIsDurable
    PoisonIsolated
    NoWorkStranded
PROPERTIES
    AnsweredOnce
