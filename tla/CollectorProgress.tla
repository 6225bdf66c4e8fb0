------------------------- MODULE CollectorProgress -------------------------
(***************************************************************************)
(* The alert that watches the metrics collector itself.                    *)
(*                                                                         *)
(* A collector that does not run stores nothing, so its progress is judged *)
(* from two other records: the time of its last complete pass, and the log *)
(* of the system manager's leases, which says for how long somebody was    *)
(* there to run it.  Only time covered by leases counts: a system that was *)
(* shut down is not unhealthy.  The pass is stamped by the clock of the    *)
(* collector's process, everything else by the database's.                 *)
(***************************************************************************)
EXTENDS Integers, Sequences, FiniteSets, FiniteSetsExt, SequencesExt

CONSTANTS
    LeaseTTL,          \* how long a claim or a renewal of the manager lasts
    InstanceLogTTL,    \* how long a lease is remembered after its expiry
    MaximumAge,        \* how old the last completed pass may be
    ProgressPending,   \* JobPayload.PendingDuration
    ClockSkew,         \* how far the collector's clock is off the database's
    LastTick,          \* bound: the clock
    MaxLeaseWrites,    \* bound: claims and renewals together
    MaxPasses          \* bound: completed passes

ASSUME ProgressPolicyIsValid ==
    /\ LeaseTTL \in Nat \ {0} /\ InstanceLogTTL \in Nat
    /\ MaximumAge \in Nat \ {0} /\ ProgressPending \in Nat \ {0}
    /\ ClockSkew \in Nat

VARIABLES
    usesPending,     \* FALSE when the payload says DisablePending
    now,             \* the database's clock
    lease,           \* the manager's row: [createdAt, expiresAt], or NoLease
    leaseLog,        \* worker_instance_log: every claim and renewal, as a set
    leaseWrites,     \* history: the times of the claims and the renewals
    handovers,       \* history: the times of the claims that have a lease
    completions,     \* the stamps of the completed passes, oldest first
    manned,          \* history: the ticks at which the manager held its lease
    progress         \* the running check

progressVars ==
    <<usesPending, now, lease, leaseLog, leaseWrites, handovers, completions,
      manned, progress>>

NoLease == [createdAt |-> 0, expiresAt |-> 0]
NotYet == -1

CollectorProgressInit ==
    /\ usesPending \in BOOLEAN
    /\ now = 1
    /\ lease = NoLease
    /\ leaseLog = {} /\ leaseWrites = <<>> /\ handovers = {}
    /\ completions = <<>>
    /\ manned = {}
    /\ progress = [pc |-> "idle"]

LeaseHeld == lease.expiresAt > now

AdvanceClock ==
    /\ now < LastTick /\ progress.pc /= "done"
    /\ now' = now + 1
    /\ manned' = IF LeaseHeld THEN manned \union {now} ELSE manned
    /\ UNCHANGED <<usesPending, lease, leaseLog, leaseWrites, handovers, completions,
                   progress>>

WriteLease(row) ==
    /\ Len(leaseWrites) < MaxLeaseWrites /\ progress.pc /= "done"
    /\ lease' = row
    /\ leaseLog' = leaseLog \union {row}
    /\ leaseWrites' = Append(leaseWrites, now)
    /\ handovers' = handovers \union {row.createdAt}
    /\ UNCHANGED <<usesPending, now, completions, manned, progress>>

(* RegisterInstance and RenewInstance; both append to the log in their     *)
(* own transaction.                                                        *)
ClaimLease == ~LeaseHeld /\ WriteLease([createdAt |-> now, expiresAt |-> now + LeaseTTL])

RenewManager ==
    /\ LeaseHeld
    /\ lease.expiresAt /= now + LeaseTTL
    /\ WriteLease([lease EXCEPT !.expiresAt = now + LeaseTTL])

(* ReleaseInstance: the row goes, what the log says of its expiry stays. *)
ReleaseLease ==
    /\ lease /= NoLease /\ progress.pc /= "done"
    /\ lease' = NoLease
    /\ UNCHANGED <<usesPending, now, leaseLog, leaseWrites, handovers, completions,
                   manned, progress>>

SweepExpiredInstanceLogs ==
    LET kept == {row \in leaseLog : row.expiresAt >= now - InstanceLogTTL}
    IN  /\ kept /= leaseLog /\ progress.pc /= "done"
        /\ leaseLog' = kept
        /\ UNCHANGED <<usesPending, now, lease, leaseWrites, handovers, completions,
                       manned, progress>>

(* The collector's last step of a pass; it needs a manager to run it.  The *)
(* stamp is the collector's own time.Now.                                  *)
CompletePass ==
    /\ LeaseHeld /\ Len(completions) < MaxPasses /\ progress.pc /= "done"
    /\ \E stamp \in (now - ClockSkew .. now + ClockSkew) \intersect (Nat \ {0}) :
           completions' = Append(completions, stamp)
    /\ UNCHANGED <<usesPending, now, lease, leaseLog, leaseWrites, handovers, manned, progress>>

-----------------------------------------------------------------------------
(* The head of the measurement's key: the last that was produced. *)
Latest(stamps) == IF stamps = <<>> THEN NotYet ELSE Last(stamps)

ReadCompletion ==
    /\ progress.pc = "idle"
    /\ progress' = [pc |-> "read", completedAt |-> Latest(completions)]
    /\ UNCHANGED <<usesPending, now, lease, leaseLog, leaseWrites, handovers, completions,
                   manned>>

(* ListInstanceSnapshots: the leases that reach into the window. *)
InstanceHistory == {row \in leaseLog : row.expiresAt >= now - ProgressPending}

(* They are listed with the newest claim first, of one claim the latest     *)
(* expiry first; this is the last of some of them.                          *)
LastListed(rows) ==
    CHOOSE row \in rows : \A other \in rows :
       \/ row.createdAt < other.createdAt
       \/ row.createdAt = other.createdAt /\ row.expiresAt <= other.expiresAt

(* One row of continuousLeaseStart's loop, given the start found so far. *)
ExtendCoverageAcrossGaps(startedAt, row) ==
    IF startedAt = NotYet
    THEN IF row.expiresAt > now THEN row.createdAt ELSE NotYet
    ELSE row.createdAt
ExtendCoverage(startedAt, row) ==
    IF startedAt = NotYet
    THEN IF row.expiresAt > now THEN row.createdAt ELSE NotYet
    ELSE IF row.expiresAt < startedAt THEN startedAt ELSE row.createdAt

(* Where the loop is after the first rows of the list. *)
continuousLeaseStart ==
    LET startedAt[rows \in SUBSET InstanceHistory] ==
            IF rows = {} THEN NotYet
            ELSE ExtendCoverage(startedAt[rows \ {LastListed(rows)}], LastListed(rows))
    IN  startedAt[InstanceHistory]

(* The latest of what the unhealthy time is counted from. *)
unhealthySince(completedAt) ==
    Max({continuousLeaseStart, now - ProgressPending}
        \union (IF completedAt = NotYet THEN {} ELSE {completedAt + MaximumAge}))

(* A stamp after the evaluation is no evidence. *)
evaluateHistory(completedAt) ==
    IF completedAt > now THEN "insufficient"
    ELSE IF completedAt /= NotYet /\ now - completedAt < MaximumAge THEN "healthy"
    ELSE IF continuousLeaseStart = NotYet THEN "insufficient"
    ELSE IF usesPending /\ now - unhealthySince(completedAt) < ProgressPending THEN "pending"
    ELSE "active"

JudgeProgress ==
    /\ progress.pc = "read"
    /\ progress' = [pc |-> "done", completedAt |-> progress.completedAt,
                    verdict |-> evaluateHistory(progress.completedAt)]
    /\ UNCHANGED <<usesPending, now, lease, leaseLog, leaseWrites, handovers, completions,
                   manned>>

CollectorProgressNext ==
    \/ AdvanceClock \/ ClaimLease \/ RenewManager \/ ReleaseLease
    \/ SweepExpiredInstanceLogs \/ CompletePass
    \/ ReadCompletion \/ JudgeProgress

CollectorProgressSpec == CollectorProgressInit /\ [][CollectorProgressNext]_progressVars

-----------------------------------------------------------------------------
PendingSpan == now - ProgressPending .. now - 1

Overdue(t, completedAt) == completedAt = NotYet \/ t >= completedAt + MaximumAge

(* The claims made in the pending span are all recent enough for the sweep *)
(* to have left the leases before them: no claim in the span is older than *)
(* an expired lease is kept.                                               *)
RecordReaches == \A t \in handovers : t > now - ProgressPending => t >= now - InstanceLogTTL

(* The alert on a silent collector goes active only when, at every moment  *)
(* of the pending span, the last completed pass was too old and a manager  *)
(* had claimed or renewed within the last LeaseTTL (a released lease       *)
(* counts until it would have expired).  It does go active when the pass   *)
(* was too old and a manager held its lease throughout, unless a claim in  *)
(* the span is older than the lease log reaches back: the log keeps a      *)
(* lease for a time of its own, and with a longer pending span the lease   *)
(* before that claim may have been swept.  Handovers, lapses, releases and *)
(* the collector's clock change neither.                                   *)
SilenceIsCounted ==
    (progress.pc = "done" /\ usesPending) =>
        LET overdue == \A t \in PendingSpan \union {now} : Overdue(t, progress.completedAt)
        IN  /\ progress.verdict = "active" =>
                   /\ overdue
                   /\ \A t \in PendingSpan : \E u \in t - LeaseTTL + 1 .. t : u \in Range(leaseWrites)
            /\ (overdue /\ PendingSpan \subseteq manned /\ LeaseHeld /\ RecordReaches)
                   => progress.verdict = "active"
=============================================================================
