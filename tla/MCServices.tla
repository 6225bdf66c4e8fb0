----------------------------- MODULE MCServices -----------------------------
(***************************************************************************)
(* Small instances of what the library keeps besides its groups (retention, *)
(* compaction heads, streams, schema versions, schedules and cron), of what *)
(* watches it (alerts, the metrics collector, a session's metrics, logs) and *)
(* of the lab that tests it.  They share no state here: a behaviour is one *)
(* component's, the one its first state picks.                             *)
(***************************************************************************)
EXTENDS Retention, CompactionHeads, StreamRegistry, SchemaVersions,
        Schedules, ScheduleStatus, Cron, AlertEvidence, AlertHeads,
        CollectorProgress, CollectorPass, SessionMetrics, LogPipeline,
        LabVerdict, LabManager, LabGuards, LabConsumers, TLC

CONSTANTS k1, p1, p2, p3, a, b, e1, e2, c1, c2, m1, m2, r1,
          Parts   \* the components whose behaviours a run explores

(* Retention: the second message of four is not compacted.                  *)
KeyOfMessage == [i \in 1..4 |-> IF i = 2 THEN NoKey ELSE k1]

(* CompactionHeads: the second message outranks the others.                 *)
RankOfMessage == [i \in 1..3 |-> IF i = 2 THEN 2 ELSE 1]

(* StreamRegistry: two processes register one name, a third another.        *)
RegisteredName == p1 :> a @@ p2 :> a @@ p3 :> b
RegisteredConfig == p1 :> [size |-> 2, ttl |-> 1] @@ p2 :> [size |-> 2, ttl |-> 2]
                    @@ p3 :> [size |-> 3, ttl |-> 2]

(* SchemaVersions: m2 is a build behind; version 3 breaks older builds.     *)
BuildOf == m1 :> 4 @@ m2 :> 3
OldestServed == [v \in 2..4 |-> IF v = 3 THEN 3 ELSE 0]

(* Schedules: two callers declare the schedule with other expressions.      *)
ScheduledTimes == e1 :> {1, 3} @@ e2 :> {2}
DeclaredExpression == c1 :> e1 @@ c2 :> e2

(* Cron: a calendar of two months of two days (three in a leap year) and    *)
(* weeks of three days, so that every carry happens.                        *)
MonthDays == <<2, 2>>
CronRange(star, low, single, by) ==
    [star |-> star, low |-> low, high |-> low, single |-> single, step |-> by]
Every == <<CronRange(TRUE, 0, FALSE, 0)>>
EveryOther == <<CronRange(TRUE, 0, FALSE, 2)>>
Only(n) == <<CronRange(FALSE, n, TRUE, 0)>>
Fields == [minute : {Every, Only(1)}, hour : {Every, Only(1)},
           dom : {Every, Only(3), EveryOther}, month : {Every, Only(2)},
           dow : {Every, Only(0), Only(0) \o Only(2), Only(3)}]
Starts == [y : {2}, mo : {1, 2}, d : {1, 2}, h : {0, 1}, mi : {0, 1}, s : {1}]

(* AlertEvidence: measurements of a compacted and of an uncompacted stream, *)
(* and one that failed.                                                     *)
CheckedAlerts == {"partition_count", "compaction_read_cost"}
ReadingOf(sound, of, count) == [sound |-> sound, status |-> of, count |-> count]
Measurements == {ReadingOf(TRUE, "compacted", 2), ReadingOf(TRUE, "uncompacted", 0),
                 ReadingOf(FALSE, "compacted", 2)}

(* LogPipeline: the callers share one operation's buffer.                   *)
OneOperation == [c \in LogCaller |-> "op"]

(* LabVerdict: the checks of a scenario's [expect] section, in order.       *)
Wanted(c, want) == [check |-> c, want |-> want]
ExpectSection ==
    <<Wanted("lost", "0"), Wanted("unexpected", "0"), Wanted("recovered", "report"),
      Wanted("undelivered", "0"), Wanted("duplicates", "report"), Wanted("unbucketed", "0"),
      Wanted("dead", "report"), Wanted("errors", "report"), Wanted("reclaims", "report")>>
TwoGroups == <<"g1", "g2">>

(* LabGuards: a warmup phase and two measured ones.                         *)
PhaseOf(warmup) == [warmup |-> warmup, unpaced |-> FALSE, rate |-> 1, duration |-> 1]
ThreePhases == <<PhaseOf(TRUE), PhaseOf(FALSE), PhaseOf(FALSE)>>
Declaring(recorded, kept, bounded, headroom) ==
    [recording |-> recorded, want |-> "schedule_kept" :> kept @@ "backlog_bounded" :> bounded
                                      @@ "generator_headroom" :> headroom]
FourScenarios == {Declaring(TRUE, "0", "0", "0"), Declaring(FALSE, "0", "0", "0"),
                  Declaring(TRUE, "report", "undeclared", "report"),
                  Declaring(TRUE, "0", "0", "undeclared")}

(* LabConsumers: a change from no instance to one.                          *)
CountsInOrder == <<0, 1>>

-----------------------------------------------------------------------------
VARIABLE part   \* the component this behaviour is one of

(* The state of the components that do not take part.                      *)
Apart == "apart"

RetentionApart ==
    /\ lastId = Apart /\ row = Apart /\ aged = Apart /\ partitions = Apart
    /\ headOf = Apart /\ exception = Apart /\ held = Apart
    /\ claimedTo = Apart /\ committedTo = Apart /\ settledIds = Apart
    /\ jan = Apart

CompactionHeadsApart ==
    /\ retained = Apart /\ headRow = Apart /\ headLock = Apart
    /\ headTx = Apart /\ nextHeadId = Apart /\ sweeping = Apart
    /\ headSeen = Apart /\ appended = Apart

StreamRegistryApart ==
    /\ streamIds = Apart /\ nameOf = Apart /\ config = Apart
    /\ configLog = Apart /\ tables = Apart /\ parts = Apart
    /\ messages = Apart /\ workers = Apart /\ nameLock = Apart
    /\ reg = Apart /\ drop = Apart

SchemaVersionsApart ==
    /\ migrationLog = Apart /\ applied = Apart /\ halfway = Apart
    /\ knownStreams = Apart /\ schemaLock = Apart /\ migration = Apart /\ begun = Apart
    /\ destroying = Apart

SchedulesApart ==
    /\ clock = Apart /\ scheduleIds = Apart /\ schedule = Apart
    /\ nextAt = Apart /\ rowLock = Apart /\ keys = Apart /\ sent = Apart
    /\ manual = Apart /\ call = Apart /\ due = Apart

ScheduleStatusApart ==
    /\ requests = Apart /\ produced = Apart /\ headId = Apart
    /\ receives = Apart /\ inFlight = Apart /\ outcomes = Apart
    /\ report = Apart

CronApart ==
    /\ cronSpec = Apart /\ cronFrom = Apart /\ cronAt = Apart
    /\ added = Apart /\ yearLimit = Apart /\ cronPc = Apart
    /\ cronResult = Apart /\ minimum = Apart /\ timesLeft = Apart
    /\ cronStart = Apart

AlertEvidenceApart ==
    /\ alertName = Apart /\ pending = Apart /\ checkClock = Apart
    /\ stored = Apart /\ swept = Apart /\ check = Apart

AlertHeadsApart ==
    /\ tick = Apart /\ failing = Apart /\ published = Apart
    /\ alertHead = Apart /\ alertLock = Apart /\ run = Apart
    /\ runs = Apart

CollectorProgressApart ==
    /\ usesPending = Apart /\ now = Apart /\ lease = Apart
    /\ leaseLog = Apart /\ leaseWrites = Apart /\ handovers = Apart
    /\ completions = Apart /\ manned = Apart /\ progress = Apart

CollectorPassApart ==
    /\ registered = Apart /\ pass = Apart /\ passes = Apart
    /\ measured = Apart /\ completed = Apart

SessionMetricsApart ==
    /\ routine = Apart /\ queue = Apart /\ dropped = Apart /\ flush = Apart
    /\ flushes = Apart /\ storedEvents = Apart /\ reported = Apart
    /\ unreported = Apart /\ metricSession = Apart /\ running = Apart
    /\ claimed = Apart /\ lastFlushed = Apart /\ series = Apart
    /\ earned = Apart /\ reader = Apart

LogPipelineApart ==
    /\ moment = Apart /\ pipelines = Apart /\ ring = Apart /\ seen = Apart
    /\ logCall = Apart /\ calls = Apart /\ lines = Apart
    /\ suppressed = Apart /\ narrated = Apart

LabVerdictApart ==
    /\ answer = Apart /\ log = Apart /\ rows = Apart /\ expired = Apart /\ agedRecords = Apart /\ hasty = Apart
    /\ delivery = Apart /\ attempts = Apart /\ successes = Apart
    /\ reclaimed = Apart /\ cursor = Apart /\ fault = Apart
    /\ stage = Apart /\ at = Apart /\ handled = Apart
    /\ checkResults = Apart /\ verdict = Apart

LabManagerApart ==
    /\ step = Apart /\ process = Apart /\ codes = Apart /\ worst = Apart
    /\ outcome = Apart

LabGuardsApart ==
    /\ declared = Apart /\ instant = Apart /\ phase = Apart /\ dueAt = Apart /\ started = Apart
    /\ runPhase = Apart /\ messagesMade = Apart /\ diverging = Apart
    /\ breached = Apart /\ heldUp = Apart /\ guards = Apart

LabConsumersApart ==
    /\ change = Apart /\ sessions = Apart /\ order = Apart
    /\ counter = Apart /\ firsts = Apart /\ snapshot = Apart
    /\ written = Apart /\ settle = Apart

ServicesInit ==
    /\ part \in Parts
    /\ IF part = "retention" THEN RetentionInit ELSE RetentionApart
    /\ IF part = "heads" THEN CompactionHeadsInit ELSE CompactionHeadsApart
    /\ IF part = "streams" THEN StreamRegistryInit ELSE StreamRegistryApart
    /\ IF part = "schema" THEN SchemaVersionsInit ELSE SchemaVersionsApart
    /\ IF part = "schedules" THEN SchedulesInit ELSE SchedulesApart
    /\ IF part = "status" THEN ScheduleStatusInit ELSE ScheduleStatusApart
    /\ IF part = "cron" THEN CronInit ELSE CronApart
    /\ IF part = "evidence" THEN AlertEvidenceInit ELSE AlertEvidenceApart
    /\ IF part = "alerts" THEN AlertHeadsInit ELSE AlertHeadsApart
    /\ IF part = "progress" THEN CollectorProgressInit ELSE CollectorProgressApart
    /\ IF part = "pass" THEN CollectorPassInit ELSE CollectorPassApart
    /\ IF part = "session" THEN SessionMetricsInit ELSE SessionMetricsApart
    /\ IF part = "log" THEN LogPipelineInit ELSE LogPipelineApart
    /\ IF part = "verdict" THEN LabVerdictInit ELSE LabVerdictApart
    /\ IF part = "manager" THEN LabManagerInit ELSE LabManagerApart
    /\ IF part = "guards" THEN LabGuardsInit ELSE LabGuardsApart
    /\ IF part = "consumers" THEN LabConsumersInit ELSE LabConsumersApart

ServicesNext ==
    /\ UNCHANGED part
    /\ IF part = "retention" THEN RetentionNext ELSE UNCHANGED retentionVars
    /\ IF part = "heads" THEN CompactionHeadsNext ELSE UNCHANGED headVars
    /\ IF part = "streams" THEN StreamRegistryNext ELSE UNCHANGED streamRegistryVars
    /\ IF part = "schema" THEN SchemaVersionsNext ELSE UNCHANGED schemaVars
    /\ IF part = "schedules" THEN SchedulesNext ELSE UNCHANGED schedulesVars
    /\ IF part = "status" THEN ScheduleStatusNext ELSE UNCHANGED statusVars
    /\ IF part = "cron" THEN CronNext ELSE UNCHANGED cronVars
    /\ IF part = "evidence" THEN AlertEvidenceNext ELSE UNCHANGED evidenceVars
    /\ IF part = "alerts" THEN AlertHeadsNext ELSE UNCHANGED alertVars
    /\ IF part = "progress" THEN CollectorProgressNext ELSE UNCHANGED progressVars
    /\ IF part = "pass" THEN CollectorPassNext ELSE UNCHANGED passVars
    /\ IF part = "session" THEN SessionMetricsNext ELSE UNCHANGED sessionVars
    /\ IF part = "log" THEN LogPipelineNext ELSE UNCHANGED pipelineVars
    /\ IF part = "verdict" THEN LabVerdictNext ELSE UNCHANGED labVars
    /\ IF part = "manager" THEN LabManagerNext ELSE UNCHANGED managerVars
    /\ IF part = "guards" THEN LabGuardsNext ELSE UNCHANGED guardVars
    /\ IF part = "consumers" THEN LabConsumersNext ELSE UNCHANGED consumerVars

servicesVars == <<part, retentionVars, headVars, streamRegistryVars,
                  schemaVars, schedulesVars, statusVars, cronVars,
                  evidenceVars, alertVars, progressVars, passVars,
                  sessionVars, pipelineVars, labVars, managerVars, guardVars,
                  consumerVars>>

ServicesSpec == ServicesInit /\ [][ServicesNext]_servicesVars

-----------------------------------------------------------------------------
(* What leaves a stream's log was owed to nobody: retention removes only    *)
(* messages that succeeded or were given up, leaves no exception row without *)
(* its message and no head on a removed message (janitor sweep.go, drop.go, *)
(* orphaned heads), and a key's head only moves to later or higher ranked   *)
(* messages while producers and sweeps interleave (compaction upsert, head  *)
(* sweep).                                                                  *)
LogIsKept ==
    /\ part = "retention" => RemovedIsResolved /\ NoOrphanException /\ NoDanglingHead
    /\ part = "heads" => HeadsMoveForward

(* The config log of a stream ends in the config its row holds, and the     *)
(* rows and the tables of streams agree while processes register, rename    *)
(* and destroy them (stream/controller, admin destroy).                     *)
StreamRegistrySound == part = "streams" => LogEndsInConfig /\ RowsAndTablesAgree

(* What the migration log records is what was applied to the tables, with   *)
(* concurrent migrators and interruptions, and a build is admitted only     *)
(* when the schema still serves it (migration).  Of a step outside a        *)
(* transaction that ended before its row was written neither says anything  *)
(* until it is run again: nothing in the code brings the two together.      *)
SchemaSound == part = "schema" => RecordedIsApplied /\ AdmittedIsServed

(* A scheduled time is produced at most once and only the newest due time   *)
(* is (schedule producer, replaceConfig); a message the status calls        *)
(* superseded has a later one on its key, or was swept since (status).      *)
SchedulesSound ==
    /\ part = "schedules" => ScheduledOnce /\ NewestDueOnly
    /\ part = "status" => SupersededWasReplaced

(* Next returns the first matching time and minRate the shortest gap        *)
(* (robfig spec.go, rate.go), against a search of the whole calendar.       *)
CronSound == part = "cron" => NextIsFirst /\ MinRateIsShortest

(* An alert's verdict is the one its whole window of measurements calls for *)
(* (alert evidence); the alert on a silent collector counts only time in    *)
(* which a manager was there, and counts all of it that the lease log still *)
(* shows (collector progress); and an unchanged alert is published again no *)
(* sooner than its repeat interval, whatever runs overlap (record).         *)
AlertsSound ==
    /\ part = "evidence" => VerdictFitsHistory
    /\ part = "progress" => SilenceIsCounted
    /\ part = "alerts" => RepeatsSpaced

(* A completed pass measured every stream and group it listed (collector),  *)
(* every goroutine event is stored, pending or counted as dropped, a series *)
(* holds its own session's events, what is reported outstanding is running  *)
(* (metric producer), and a log line that is left out is accounted for by   *)
(* the lines that remain (log pipeline).                                    *)
TelemetrySound ==
    /\ part = "pass" => CompletedPassIsWhole
    /\ part = "session" => EventsAccountedFor /\ SeriesIsOwn /\ OutstandingIsReal
    /\ part = "log" => NothingLostUnsaid

(* The lab passes a run only when the library did nothing wrong in it that   *)
(* the records still show, and fails it only when the library did or          *)
(* retention outran a record (checker); the exit code is that of the worst    *)
(* repetition and none leaves a child behind (manager); a run that fails its  *)
(* guards has a measured phase that did not hold, and the converse where the  *)
(* scenario requires the guards (guards); the handler totals the checker      *)
(* settles on are whole (progress).                                           *)
LabSound ==
    /\ part = "verdict" => VerdictFitsRun
    /\ part = "manager" => RunIsAccountedFor
    /\ part = "guards" => GuardsFitPhases
    /\ part = "consumers" => SettledTotalIsWhole
=============================================================================
