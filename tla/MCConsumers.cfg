SPECIFICATION ConsumersSpec
CONSTANTS
    p1 = p1
    p2 = p2
    p3 = p3
    r1 = r1
    r2 = r2
    i1 = i1
    i2 = i2
    Parts = {"delivery", "exceptions", "groups", "buffer", "config", "retries"}
    s1 = s1
    s2 = s2
\* DeliveryGroup
    MaxXid = 3
    MaxId = 3
    MaxOpen = 2
    Worker = {w1, w2}
    Limit = 1
    MaxAttempts = 2
    Unmatched = {2}
\* CursorGroup
    RangeToken = {t1}
    ExceptionToken = {r1, r2}
    NoToken = NoToken
\* GroupRegistry
    Declarer = {p1, p2, p3}
    SetOf <- DeclaredSet
    NoSet = NoSet
    NoDeclarer = NoDeclarer
    MaxGroupId = 2
    MaxDeclarations = 4
\* ClaimBuffer
    LocalRange = {r1, r2}
    Expired = {r2}
    Size <- RangeSize
    Behind <- NextOfKey
    QueueSize = 2
    BatchLimit = 2
    Permits = 2
\* GroupConfig
    Declaration <- DeclaredConfigs
    NoDocument = NoDocument
    NoOptions = NoOptions
    Requested <- RequestedOptions
    GroupInstance = {i1, i2}
    RunsExceptions = {i2}
    DefaultTimeout = 1
    DefaultRetries = 1
    TimeoutGrace = 1
    QueueMargin = 1
    RecordMargin = 1
    MaxDeclared = 2
\* Retries
    Policy <- Policies
    MaxDuration = 12
INVARIANTS
    DeliveriesSound
    ExceptionsSound
    GroupRegistrySound
    ClaimsSound
    RetriesSound
PROPERTY OutcomesForward
CHECK_DEADLOCK FALSE
