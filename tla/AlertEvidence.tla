--------------------------- MODULE AlertEvidence ---------------------------
(***************************************************************************)
(* How a check of an alert turns retained measurements into a verdict.     *)
(*                                                                         *)
(* The collector stores measurements with the database's time.  A check    *)
(* reads the database clock, then the measurements of a window that ends   *)
(* there, judges every one of them and walks back from the newest for as   *)
(* long as they stay active: the observed span, not the time spent         *)
(* waiting, must reach the pending duration before the alert is active.    *)
(* Measurements keep landing, and retention keeps removing, while a check  *)
(* runs.                                                                   *)
(***************************************************************************)
EXTENDS Integers, Sequences, FiniteSets, FiniteSetsExt, TLC

CONSTANTS
    AlertName,        \* which of the measured alerts are checked
    Measurement,      \* the measurements the collector may store
    Threshold,        \* JobPayload.Threshold; 0 takes the alert's default
    LockCeiling,      \* partitions one transaction may lock
    WarnPartitions,   \* partitions past which compaction reads are slow
    PendingDuration,
    MaximumGap,
    RetentionTTL,     \* of the metrics stream; 0 keeps everything
    ReadDelay,        \* bound: time between a check's two reads
    LastTime,         \* bound: the clock
    MaxMeasurements   \* bound: measurements stored

ASSUME PolicyIsValid ==
    /\ AlertName \subseteq {"partition_count", "compaction_read_cost", "worker_liveness"}
    /\ Measurement \subseteq [sound : BOOLEAN,
                              status : {"compacted", "uncompacted", "unknown"},
                              count : Nat]
    /\ Threshold \in Nat /\ LockCeiling \in Nat /\ WarnPartitions \in Nat
    /\ PendingDuration \in Nat \ {0} /\ MaximumGap \in Nat \ {0}
    /\ RetentionTTL \in Nat /\ ReadDelay \in Nat

VARIABLES
    alertName,   \* the alert under check, "none" before it
    pending,     \* FALSE when the payload says DisablePending
    checkClock,  \* the database's clock
    stored,      \* every measurement of the series ever stored, oldest first
    swept,       \* how many of them retention has removed
    check        \* the running check

evidenceVars == <<alertName, pending, checkClock, stored, swept, check>>

NoCheck == [pc |-> "idle"]

AlertEvidenceInit ==
    /\ alertName = "none"
    /\ pending = FALSE
    /\ checkClock = 0
    /\ stored = <<>>
    /\ swept = 0
    /\ check = NoCheck

(* What happens once the check holds its samples cannot touch them. *)
BeforeRead == check.pc \in {"idle", "read"}

(* A check reads its rows ReadDelay after the clock at the latest: one     *)
(* that took longer than RetentionTTL - Window would find rows of its      *)
(* window swept.                                                           *)
Tick ==
    /\ checkClock < LastTime /\ BeforeRead
    /\ check.pc = "read" => checkClock < check.current + ReadDelay
    /\ checkClock' = checkClock + 1
    /\ UNCHANGED <<alertName, pending, stored, swept, check>>

(* The collector's pass lands a measurement of the series. *)
StoreMeasurement(measurement) ==
    /\ Len(stored) < MaxMeasurements /\ BeforeRead
    /\ stored' = Append(stored, [at |-> checkClock, measurement |-> measurement])
    /\ UNCHANGED <<alertName, pending, checkClock, swept, check>>

SweepMeasurement ==
    /\ RetentionTTL > 0 /\ BeforeRead
    /\ swept < Len(stored)
    /\ stored[swept + 1].at < checkClock - RetentionTTL
    /\ swept' = swept + 1
    /\ UNCHANGED <<alertName, pending, checkClock, stored, check>>

-----------------------------------------------------------------------------
(* JobPayload.Window, the reach of one check *)
WindowOfSpan(hold) == IF hold THEN PendingDuration + MaximumGap ELSE MaximumGap
Window(hold) == IF hold THEN PendingDuration + 2 * MaximumGap ELSE MaximumGap

(* One observation's condition, evaluateMeasurement of the three alerts.   *)
(* sound: the measurement has the alert's name, kind and unit, its value   *)
(* is a count, and its metadata accounts for that count.                   *)
ByCount(m, threshold) == IF m.count < threshold THEN "healthy" ELSE "active"

PartitionCount(m) ==
    ByCount(m, IF Threshold = 0 THEN LockCeiling \div 2 ELSE Threshold)

CompactionReadCost(m) ==
    CASE m.status = "unknown" -> "insufficient"
      [] m.status = "uncompacted" -> "healthy"
      [] OTHER -> ByCount(m, IF Threshold = 0 THEN WarnPartitions ELSE Threshold)

WorkerLiveness(m) == ByCount(m, 1)

evaluateMeasurement(m) ==
    IF ~m.sound THEN "insufficient"
    ELSE CASE alertName = "partition_count" -> PartitionCount(m)
           [] alertName = "compaction_read_cost" -> CompactionReadCost(m)
           [] alertName = "worker_liveness" -> WorkerLiveness(m)

(* GetMeasurementHistory: the window ends at a clock read before the rows  *)
(* are.  A stream that retains less than the window is refused.            *)
ReadClock(name, hold) ==
    /\ check.pc = "idle"
    /\ alertName' = name /\ pending' = hold
    /\ check' = IF RetentionTTL > 0 /\ RetentionTTL <= Window(hold)
                THEN [pc |-> "refused"]
                ELSE [pc |-> "read", current |-> checkClock]
    /\ UNCHANGED <<checkClock, stored, swept>>

(* The rows of a set, the newest id first. *)
NewestFirst(kept) ==
    LET nth[n \in 1..Cardinality(kept)] ==
            IF n = 1 THEN Max(kept) ELSE Max({i \in kept : i < nth[n - 1]})
    IN  nth

(* The rows of the window, newest first; ties in time are newest id first. *)
KeyMessages(first, last) ==
    LET nth == NewestFirst({i \in swept + 1..Len(stored) : stored[i].at \in first..last})
    IN  [n \in DOMAIN nth |->
            [at |-> stored[nth[n]].at,
             state |-> evaluateMeasurement(stored[nth[n]].measurement)]]

(* The verdict the newest sample settles by itself, if it does. *)
VerdictOfNewest(samples, current) ==
    IF samples = <<>> \/ current - samples[1].at > MaximumGap THEN "insufficient"
    ELSE IF samples[1].state /= "active" \/ ~pending THEN samples[1].state
    ELSE "scan"

ReadHistory ==
    /\ check.pc = "read"
    /\ LET samples == KeyMessages(check.current - Window(pending), check.current)
           verdict == VerdictOfNewest(samples, check.current)
       IN  check' = [pc |-> IF verdict = "scan" THEN "walk" ELSE "done",
                     verdict |-> verdict,
                     current |-> check.current, known |-> Len(stored),
                     samples |-> samples, next |-> 2,
                     earliest |-> IF verdict = "scan" THEN samples[1].at ELSE 0]
    /\ UNCHANGED <<alertName, pending, checkClock, stored, swept>>

(* The three reasons EvaluateHistory's walk stops at a sample. *)
Breaks(sample) ==
    \/ sample.at < check.current - Window(pending)
    \/ check.earliest - sample.at > MaximumGap
    \/ sample.state /= "active"

Conclude ==
    LET observedDuration == check.samples[1].at - check.earliest
    IN  check' = [check EXCEPT !.pc = "done",
                               !.verdict = IF observedDuration < PendingDuration
                                           THEN "pending" ELSE "active"]

(* One sample of the walk.  An older row of a time already seen is passed. *)
WalkBack ==
    /\ check.pc = "walk"
    /\ IF check.next > Len(check.samples)
       THEN Conclude
       ELSE LET sample == check.samples[check.next]
            IN  IF sample.at = check.earliest
                THEN check' = [check EXCEPT !.next = @ + 1]
                ELSE IF Breaks(sample)
                THEN Conclude
                ELSE check' = [check EXCEPT !.next = @ + 1, !.earliest = sample.at]
    /\ UNCHANGED <<alertName, pending, checkClock, stored, swept>>

AlertEvidenceNext ==
    \/ Tick
    \/ \E measurement \in Measurement : StoreMeasurement(measurement)
    \/ SweepMeasurement
    \/ \E name \in AlertName, hold \in BOOLEAN : ReadClock(name, hold)
    \/ ReadHistory
    \/ WalkBack

AlertEvidenceSpec == AlertEvidenceInit /\ [][AlertEvidenceNext]_evidenceVars

-----------------------------------------------------------------------------
(* What the verdict is supposed to mean, over everything ever stored: the  *)
(* series as a function of time (the last row of a time counts), no window *)
(* and no retention.                                                       *)
KnownTimes == {stored[i].at : i \in {j \in 1..check.known : stored[j].at <= check.current}}

StateAt(t) ==
    evaluateMeasurement(stored[Max({i \in 1..check.known : stored[i].at = t})].measurement)

(* The condition was seen at every observation from t to the newest one,   *)
(* and the observations were never more than MaximumGap apart.             *)
ActiveSince(t) ==
    \A u \in KnownTimes :
        u >= t => /\ StateAt(u) = "active"
                  /\ u = t \/ \E v \in KnownTimes : v >= t /\ v < u /\ u - v <= MaximumGap

Meaning ==
    IF KnownTimes = {} \/ check.current - Max(KnownTimes) > MaximumGap THEN "insufficient"
    ELSE IF StateAt(Max(KnownTimes)) /= "active" \/ ~pending THEN StateAt(Max(KnownTimes))
    ELSE IF \E t \in KnownTimes : Max(KnownTimes) - t >= PendingDuration /\ ActiveSince(t)
    THEN "active"
    ELSE "pending"

(* A check's verdict is what the whole history of the series means at the  *)
(* moment the check read the clock: the bounded window, the rows retention *)
(* removed, rows that share a time and rows that land during the check     *)
(* never turn an alert that is due into a pending one, nor the reverse.    *)
VerdictFitsHistory == check.pc = "done" => check.verdict = Meaning
=============================================================================
