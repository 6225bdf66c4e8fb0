SPECIFICATION ServicesSpec
CONSTANTS
    Parts = {"retention", "heads", "streams", "schema", "schedules", "status", "cron",
             "evidence", "alerts", "progress", "pass", "session", "log",
             "verdict", "manager", "guards", "consumers"}
    k1 = k1
    p1 = p1
    p2 = p2
    p3 = p3
    a = a
    b = b
    e1 = e1
    e2 = e2
    c1 = c1
    c2 = c2
    m1 = m1
    m2 = m2
    r1 = r1
\* Retention
    MaxId = 4
    IdsPerPartition = 2
    CompactionKey = {k1}
    NoKey = NoKey
    KeyAt <- KeyOfMessage
    AllowDropPastCommitted = FALSE
    BatchSize = 1
\* CompactionHeads
    HeadKey = {k1}
    HeadTx = {t1, t2}
    NoHeadTx = NoHeadTx
    RankAt <- RankOfMessage
    MaxHeadId = 3
\* StreamRegistry
    Name = {a, b}
    NoName = NoName
    Registrant = {p1, p2, p3}
    NameOf <- RegisteredName
    ConfigOf <- RegisteredConfig
    NoRegistrant = NoRegistrant
    MaxStreamId = 2
    MaxPartition = 1
    DropBatch = 1
    MaxSnapshots = 2
\* SchemaVersions
    Migrator = {m1, m2}
    NoMigrator = NoMigrator
    BuildVersion <- BuildOf
    MaxVersion = 4
    MinCompatible <- OldestServed
    NoTxn = {3}
    Irreversible = {4}
    MaxStreams = 1
    MaxMigrations = 2
\* Schedules
    Expression = {e1, e2}
    Times <- ScheduledTimes
    Horizon = 3
    ScheduleCaller = {c1, c2}
    Declares <- DeclaredExpression
    ScheduleWorker = {w1}
    NoWorker = NoWorker
    MaxScheduleId = 2
    MaxManualRuns = 1
\* ScheduleStatus
    StatusGroup = {g1}
    NewestLimit = 1
    MaxRequests = 2
\* Cron
    DaysInMonth <- MonthDays
    LeapMonth = 2
    LeapEvery = 3
    DaysPerWeek = 3
    HoursPerDay = 2
    MinutesPerHour = 2
    SecondsPerMinute = 2
    YearsAhead = 2
    FieldLists <- Fields
    CronStarts <- Starts
    MinRateTimes = 3
    MinRateYears = 1
\* AlertEvidence
    AlertName <- CheckedAlerts
    Measurement <- Measurements
    Threshold = 0
    LockCeiling = 4
    WarnPartitions = 2
    PendingDuration = 1
    MaximumGap = 2
    RetentionTTL = 6
    ReadDelay = 1
    LastTime = 7
    MaxMeasurements = 3
\* AlertHeads
    Checker = {k1, k2}
    AlertOwner = {o1}
    NoChecker = NoChecker
    AlertSeverity = {"warn"}
    NothingFound = NothingFound
    RepeatInterval = 5
    AlertRetention = 2
    LastAlertTick = 4
    MaxAlertRuns = 2
\* CollectorProgress
    LeaseTTL = 2
    InstanceLogTTL = 1
    MaximumAge = 2
    ProgressPending = 3
    ClockSkew = 1
    LastTick = 6
    MaxLeaseWrites = 3
    MaxPasses = 2
\* CollectorPass
    Collector = {k1, k2}
    CollectedStream = {"metrics", "orders"}
    MetricStream = "metrics"
    StreamConcurrency = 1
    MaxPassesBegun = 2
\* SessionMetrics
    Routine = {r1}
    QueueLimit = 1
    MaxSessions = 2
    MaxClaims = 2
    MaxFlushes = 2
\* LogPipeline
    LogCaller = {c1, c2}
    Operation = {"op"}
    OperationOf <- OneOperation
    LogBufferMaxRecords = 2
    SuppressionWindow = 1
    MaxPipelines = 2
    MaxLogCalls = 3
    LastMoment = 1
\* LabVerdict
    Key = {k1}
    Groups <- TwoGroups
    Expect <- ExpectSection
    DisableMessageRecording = FALSE
    MaxRetries = 1
    MaxFaults = 1
    MaxRedeliveries = 1
\* LabManager
    ConsumerRole = {"consumer", "consumer-2"}
    Repetitions = 2
\* LabGuards
    PacedStream = {s1}
    Target = {t1}
    Phases <- ThreePhases
    Scenario <- FourScenarios
    ScheduleTolerance = 0
    LastInstant = 4
\* LabConsumers
    LabProcess = {p1, p2}
    NoLabProcess = NoLabProcess
    LabOrder = {o1}
    InstanceCounts <- CountsInOrder
    MaxRuns = 2
INVARIANTS
    LogIsKept
    StreamRegistrySound
    SchemaSound
    SchedulesSound
    CronSound
    AlertsSound
    TelemetrySound
    LabSound
PROPERTY SuspendedIsSilent
CHECK_DEADLOCK FALSE
