----------------------------- MODULE AlertHeads -----------------------------
(***************************************************************************)
(* What a check publishes: alerts as compacted messages, one head per      *)
(* alert and owner.                                                        *)
(*                                                                         *)
(* A check lists the streams, evaluates each, and records each result in a *)
(* transaction that locks the head, compares, and produces.  Two checks of *)
(* one alert overlap when a run outlives its lease.  Retention removes old *)
(* alerts, the head with them.                                             *)
(***************************************************************************)
EXTENDS Integers, Sequences, FiniteSets, FiniteSetsExt

CONSTANTS
    Checker,          \* overlapping runs of one alert's job
    AlertOwner,       \* the streams under check
    NoChecker,
    AlertSeverity,    \* of a finding; NewAlert admits one, "warn"
    NothingFound,
    RepeatInterval,   \* declared on the worker row
    AlertRetention,   \* of the alerts stream; 0 keeps everything
    LastAlertTick,    \* bound: the clock
    MaxAlertRuns           \* bound: runs of the job

ASSUME AlertConfigIsValid ==
    /\ NoChecker \notin Checker
    /\ NothingFound \notin AlertSeverity
    /\ RepeatInterval \in Nat \ {0} /\ AlertRetention \in Nat

VARIABLES
    tick,       \* wall clock and database clock
    failing,    \* the owners whose condition holds right now
    published,  \* owner -> every alert published, oldest first
    alertHead,  \* owner -> position of the head in published, 0 when none
    alertLock,  \* owner -> the checker whose transaction holds the head row
    run,        \* checker -> its progress through one run
    runs

alertVars == <<tick, failing, published, alertHead, alertLock, run, runs>>

Idle == [pc |-> "idle"]

AlertHeadsInit ==
    /\ tick = 0
    /\ failing \in SUBSET AlertOwner
    /\ published = [o \in AlertOwner |-> <<>>]
    /\ alertHead = [o \in AlertOwner |-> 0]
    /\ alertLock = [o \in AlertOwner |-> NoChecker]
    /\ run = [c \in Checker |-> Idle]
    /\ runs = 0

(* NewAlertController: the repeat interval a claim applies. *)
ClampedRepeatNot == RepeatInterval
ClampedRepeat ==
    IF AlertRetention > 0 /\ RepeatInterval >= AlertRetention
    THEN AlertRetention \div 2
    ELSE RepeatInterval

TickOn ==
    /\ tick < LastAlertTick
    /\ tick' = tick + 1
    /\ UNCHANGED <<failing, published, alertHead, alertLock, run, runs>>

ConditionChanges(o) ==
    /\ failing' = (failing \union {o}) \ (failing \intersect {o})
    /\ UNCHANGED <<tick, published, alertHead, alertLock, run, runs>>

(* The janitor removes the head's message, and the head, once expired. *)
ExpireAlert(o) ==
    /\ AlertRetention > 0 /\ alertHead[o] /= 0
    /\ published[o][alertHead[o]].createdAt < tick - AlertRetention
    /\ alertHead' = [alertHead EXCEPT ![o] = 0]
    /\ UNCHANGED <<tick, failing, published, alertLock, run, runs>>

-----------------------------------------------------------------------------
(* evaluateStreams: the streams listed at the start are taken one by one. *)
StartCheck(c) ==
    /\ run[c].pc = "idle" /\ runs < MaxAlertRuns
    /\ run' = [run EXCEPT ![c] = [pc |-> "next", todo |-> AlertOwner]]
    /\ runs' = runs + 1
    /\ UNCHANGED <<tick, failing, published, alertHead, alertLock>>

(* Evaluate sees the condition as it is now; a pending or insufficient     *)
(* result, or an error, leaves the owner's head alone.                     *)
EvaluateOwner(c, o) ==
    /\ run[c].pc = "next" /\ o \in run[c].todo
    /\ \E severity \in AlertSeverity :
           run' = [run EXCEPT ![c] = [pc |-> "judged", todo |-> @.todo \ {o}, owner |-> o,
                      found |-> IF o \in failing THEN severity ELSE NothingFound]]
    /\ UNCHANGED <<tick, failing, published, alertHead, alertLock, runs>>

EvaluateUnsure(c, o) ==
    /\ run[c].pc = "next" /\ o \in run[c].todo
    /\ run' = [run EXCEPT ![c].todo = @ \ {o}]
    /\ UNCHANGED <<tick, failing, published, alertHead, alertLock, runs>>

(* Record's transaction starts; its rows carry this time. *)
BeginRecord(c) ==
    /\ run[c].pc = "judged"
    /\ run' = [run EXCEPT ![c] = [pc |-> "waiting", todo |-> @.todo, owner |-> @.owner,
                                  found |-> @.found, at |-> tick]]
    /\ UNCHANGED <<tick, failing, published, alertHead, alertLock, runs>>

(* LockHead: the upsert creates the row or waits for its lock, even when   *)
(* the key has no message yet.                                             *)
MayLockAny(o) == TRUE
MayLock(o) == alertLock[o] = NoChecker

LockHead(c) ==
    /\ run[c].pc = "waiting"
    /\ MayLock(run[c].owner)
    /\ alertLock' = [alertLock EXCEPT ![run[c].owner] = c]
    /\ run' = [run EXCEPT ![c] = [pc |-> "locked", todo |-> @.todo, owner |-> @.owner,
                                  found |-> @.found, at |-> @.at,
                                  head |-> alertHead[@.owner]]]
    /\ UNCHANGED <<tick, failing, published, alertHead, runs>>

(* classify: what to publish, if anything, against the head just read *)
classify(found, o, head) ==
    LET last == published[o][head]
        activeHead == head /= 0 /\ last.status = "active"
        due == tick - last.createdAt >= ClampedRepeat
    IN  IF found /= NothingFound
        THEN IF activeHead /\ found = last.severity /\ ~due THEN {}
             ELSE {[status |-> "active", severity |-> found]}
        ELSE IF activeHead THEN {[status |-> "resolved", severity |-> last.severity]}
             ELSE {}

FinishRecord(c) ==
    /\ alertLock' = [alertLock EXCEPT ![run[c].owner] = NoChecker]
    /\ run' = [run EXCEPT ![c] = [pc |-> "next", todo |-> @.todo]]
    /\ UNCHANGED <<tick, failing, runs>>

(* The alert produced becomes the head: same key, compaction enabled. *)
PublishAlert(c) ==
    LET o == run[c].owner
        verdict == classify(run[c].found, o, run[c].head)
    IN  /\ run[c].pc = "locked"
        /\ \E alert \in verdict :
               published' = [published EXCEPT ![o] =
                   Append(@, [status |-> alert.status, severity |-> alert.severity,
                              createdAt |-> run[c].at, landedAt |-> tick])]
        /\ alertHead' = [alertHead EXCEPT ![o] = Len(published[o]) + 1]
        /\ FinishRecord(c)

PublishNothing(c) ==
    /\ run[c].pc = "locked"
    /\ classify(run[c].found, run[c].owner, run[c].head) = {}
    /\ FinishRecord(c)
    /\ UNCHANGED <<published, alertHead>>

(* The transaction fails; the run goes on with the other streams. *)
RecordFails(c) ==
    /\ run[c].pc = "locked"
    /\ FinishRecord(c)
    /\ UNCHANGED <<published, alertHead>>

(* produceCheckSummary, then the job's message is resolved. *)
EndCheck(c) ==
    /\ run[c].pc = "next" /\ run[c].todo = {}
    /\ run' = [run EXCEPT ![c] = Idle]
    /\ UNCHANGED <<tick, failing, published, alertHead, alertLock, runs>>

AlertHeadsNext ==
    \/ TickOn
    \/ \E o \in AlertOwner : ConditionChanges(o) \/ ExpireAlert(o)
    \/ \E c \in Checker :
          \/ StartCheck(c) \/ BeginRecord(c) \/ LockHead(c)
          \/ PublishAlert(c) \/ PublishNothing(c) \/ RecordFails(c) \/ EndCheck(c)
          \/ \E o \in AlertOwner : EvaluateOwner(c, o) \/ EvaluateUnsure(c, o)

AlertHeadsSpec == AlertHeadsInit /\ [][AlertHeadsNext]_alertVars

-----------------------------------------------------------------------------
(* An alert's messages alternate between active and resolved, beginning    *)
(* with active; the only message that repeats the one before it is an      *)
(* active alert, of another severity or published at least the repeat      *)
(* interval in force after it.  Neither two overlapping runs nor a head    *)
(* swept by retention publish a second alert early.                        *)
RepeatsSpaced ==
    \A o \in AlertOwner : \A i \in 1..Len(published[o]) :
        IF i = 1 THEN published[o][i].status = "active"
        ELSE \/ published[o][i].status /= published[o][i - 1].status
             \/ /\ published[o][i].status = "active"
                /\ \/ published[o][i].severity /= published[o][i - 1].severity
                   \/ published[o][i].landedAt - published[o][i - 1].createdAt >= ClampedRepeat
=============================================================================
