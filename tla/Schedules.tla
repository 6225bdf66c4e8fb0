------------------------------ MODULE Schedules ------------------------------
(***************************************************************************)
(* One schedule: its registration and replacement, suspension, deletion,   *)
(* and the schedule producers that turn its due times into messages        *)
(* (pkg/schedule, pkg/scheduler).  Cron models what an expression's Next    *)
(* computes; here an expression is the set of times it stands for.         *)
(*                                                                         *)
(* Every call reads the row, reads the database clock, and writes in a     *)
(* transaction of its own; a producing transaction holds the row lock from *)
(* its reread of the row to its commit, and its clock is its start.        *)
(***************************************************************************)
EXTENDS Integers, Sequences, FiniteSets, FiniteSetsExt

CONSTANTS
    Expression,
    Times,          \* the scheduled times of each expression
    Horizon,        \* bound: the clock stops here
    ScheduleCaller, \* processes that register, unsuspend, suspend or delete
    Declares,       \* the expression each caller registers
    ScheduleWorker, \* schedule producer instances, live and superseded ones
    NoWorker,
    MaxScheduleId,  \* bound: schedule rows ever inserted
    MaxManualRuns   \* bound: RunSchedule calls that produce

ASSUME SchedulesBounds ==
    /\ Horizon \in Nat /\ MaxScheduleId \in Nat \ {0} /\ MaxManualRuns \in Nat
    /\ \A e \in Expression : Times[e] \subseteq Nat
    /\ \A c \in ScheduleCaller : Declares[c] \in Expression
    /\ NoWorker \notin ScheduleWorker

NoSchedule == 0
Never == 0

VARIABLES
    clock,       \* the database's now()
    scheduleIds, \* ids drawn
    schedule,    \* schedule_config: [id, expr, suspended]
    nextAt,      \* schedule_cursor.next_scheduled_at
    rowLock,     \* the producing transaction that holds the row
    keys,        \* idempotency keys of the target stream
    sent,        \* messages produced on schedule, oldest first
    manual,      \* messages RunSchedule produced
    call,        \* each caller's operation
    due          \* what each producing transaction read

schedulesVars ==
    <<clock, scheduleIds, schedule, nextAt, rowLock, keys, sent, manual, call, due>>
scheduleRow == <<scheduleIds, schedule, nextAt>>

NoRow == [id |-> NoSchedule, expr |-> CHOOSE e \in Expression : TRUE, suspended |-> FALSE]
IdleCall == [pc |-> "idle", id |-> NoSchedule, expr |-> NoRow.expr, next |-> Never]
NotDue == [at |-> 0, time |-> 0, expr |-> NoRow.expr]

SchedulesInit ==
    /\ clock = 0 /\ scheduleIds = 0
    /\ schedule = NoRow /\ nextAt = Never
    /\ rowLock = NoWorker
    /\ keys = {} /\ sent = <<>> /\ manual = 0
    /\ call = [c \in ScheduleCaller |-> IdleCall]
    /\ due = [w \in ScheduleWorker |-> NotDue]

\* ScheduleExpression.Next: the first time strictly after t, Never if none.
NextTime(e, t) == IF \E u \in Times[e] : u > t THEN Min({u \in Times[e] : u > t}) ELSE Never

TickClock ==
    /\ clock < Horizon
    /\ clock' = clock + 1
    /\ UNCHANGED <<scheduleRow, rowLock, keys, sent, call, due, manual>>

-----------------------------------------------------------------------------
(* Register. *)

\* The lookup outside any transaction.
BeginRegister(c) ==
    /\ call[c].pc = "idle"
    /\ call' = [call EXCEPT ![c] =
                  IF schedule.id # NoSchedule
                  THEN [pc |-> "found", id |-> schedule.id, expr |-> schedule.expr, next |-> Never]
                  ELSE [IdleCall EXCEPT !.pc = "locking", !.next = NextTime(Declares[c], clock)]]
    /\ UNCHANGED <<clock, scheduleRow, rowLock, keys, sent, due, manual>>

\* The advisory lock, the second lookup, the two inserts: the transaction's
\* clock is from before the wait.  Never: the expression has no time left.
InsertSchedule(c) ==
    /\ call[c].pc = "locking"
    /\ \/ /\ schedule.id # NoSchedule
          /\ call' = [call EXCEPT ![c] = [pc |-> "found", id |-> schedule.id,
                                          expr |-> schedule.expr, next |-> Never]]
          /\ UNCHANGED scheduleRow
       \/ /\ schedule.id = NoSchedule /\ call[c].next # Never
          /\ scheduleIds < MaxScheduleId
          /\ scheduleIds' = scheduleIds + 1
          /\ schedule' = [id |-> scheduleIds', expr |-> Declares[c], suspended |-> FALSE]
          /\ nextAt' = call[c].next
          /\ call' = [call EXCEPT ![c] = IdleCall]
       \/ /\ schedule.id = NoSchedule /\ call[c].next = Never
          /\ call' = [call EXCEPT ![c] = IdleCall]
          /\ UNCHANGED scheduleRow
    /\ UNCHANGED <<clock, rowLock, keys, sent, due, manual>>

\* replaceConfig before its transaction: a changed expression is seeded.
SeedReplacement(c) ==
    /\ call[c].pc = "found"
    /\ IF call[c].expr = Declares[c]
       THEN call' = [call EXCEPT ![c].pc = "replacing"]
       ELSE LET next == NextTime(Declares[c], clock)
            IN call' = [call EXCEPT ![c] =
                          IF next = Never THEN IdleCall
                          ELSE [@ EXCEPT !.pc = "replacing", !.next = next]]
    /\ UNCHANGED <<clock, scheduleRow, rowLock, keys, sent, due, manual>>

\* The row is updated by the id the lookup found; none left: interrupted.
ReplaceSchedule(c) ==
    /\ call[c].pc = "replacing"
    /\ rowLock = NoWorker
    /\ IF schedule.id = call[c].id
       THEN /\ schedule' = [schedule EXCEPT !.expr = Declares[c]]
            /\ nextAt' = IF call[c].next = Never THEN nextAt ELSE call[c].next
       ELSE UNCHANGED <<schedule, nextAt>>
    /\ call' = [call EXCEPT ![c] = IdleCall]
    /\ UNCHANGED <<clock, scheduleIds, rowLock, keys, sent, due, manual>>

-----------------------------------------------------------------------------
(* Suspend, Unsuspend, Delete. *)

SuspendSchedule ==
    /\ schedule.id # NoSchedule /\ ~schedule.suspended
    /\ rowLock = NoWorker
    /\ schedule' = [schedule EXCEPT !.suspended = TRUE]
    /\ UNCHANGED <<clock, scheduleIds, nextAt, rowLock, keys, sent, call, due, manual>>

\* Reads the row and seeds the next time; the row of its id takes it.
BeginUnsuspend(c) ==
    /\ call[c].pc = "idle" /\ schedule.id # NoSchedule
    /\ LET next == NextTime(schedule.expr, clock)
       IN /\ next # Never
          /\ call' = [call EXCEPT ![c] = [pc |-> "unsuspending", id |-> schedule.id,
                                          expr |-> schedule.expr, next |-> next]]
    /\ UNCHANGED <<clock, scheduleRow, rowLock, keys, sent, due, manual>>

\* The config row is found by name, the cursor row by id.
UnsuspendSchedule(c) ==
    /\ call[c].pc = "unsuspending"
    /\ rowLock = NoWorker
    /\ IF schedule.id = NoSchedule
       THEN UNCHANGED <<schedule, nextAt>>
       ELSE /\ schedule' = [schedule EXCEPT !.suspended = FALSE]
            /\ nextAt' = IF schedule.id = call[c].id THEN call[c].next ELSE nextAt
    /\ call' = [call EXCEPT ![c] = IdleCall]
    /\ UNCHANGED <<clock, scheduleIds, rowLock, keys, sent, due, manual>>

DeleteSchedule ==
    /\ schedule.id # NoSchedule
    /\ rowLock = NoWorker
    /\ schedule' = NoRow /\ nextAt' = Never
    /\ UNCHANGED <<clock, scheduleIds, rowLock, keys, sent, call, due, manual>>

\* RunSchedule: the stored message now, suspended or not, under a key of its
\* own; what it found may be gone by then.

BeginRunSchedule(c) ==
    /\ call[c].pc = "idle" /\ schedule.id # NoSchedule
    /\ call' = [call EXCEPT ![c] = [pc |-> "running", id |-> schedule.id,
                                    expr |-> schedule.expr, next |-> Never]]
    /\ UNCHANGED <<clock, scheduleRow, rowLock, keys, sent, due, manual>>

RunSchedule(c) ==
    /\ call[c].pc = "running" /\ manual < MaxManualRuns
    /\ manual' = manual + 1
    /\ call' = [call EXCEPT ![c] = IdleCall]
    /\ UNCHANGED <<clock, scheduleRow, rowLock, keys, sent, due>>

-----------------------------------------------------------------------------
(* The schedule producers. *)

\* The reread under the lock leaves out the suspended test.
claimDueUnchecked(w) == schedule.id # NoSchedule /\ nextAt <= clock /\ rowLock = NoWorker

\* FOR UPDATE SKIP LOCKED.
claimDue(w) ==
    /\ schedule.id # NoSchedule /\ ~schedule.suspended
    /\ nextAt <= clock
    /\ rowLock = NoWorker

\* The oldest due time.
newestDueFirst(e, from, at) == from

\* The newest due time: older ones are dropped, not produced late.
newestDue(e, from, at) == Max({from} \cup {u \in Times[e] : from < u /\ u <= at})

ClaimDue(w) ==
    /\ claimDue(w)
    /\ rowLock' = w
    /\ due' = [due EXCEPT ![w] = [at |-> clock, expr |-> schedule.expr,
                                  time |-> newestDue(schedule.expr, nextAt, clock)]]
    /\ UNCHANGED <<clock, scheduleRow, keys, sent, call, manual>>

\* A key of its own per produce.
IdempotencyKeyFresh(id, time) == <<id, time, Len(sent)>>

IdempotencyKey(id, time) == <<id, time>>

\* Produce, advance or suspend, and the idempotency claim, in one commit.
CommitDue(w) ==
    LET d == due[w]
        key == IdempotencyKey(schedule.id, d.time)
        next == NextTime(d.expr, d.at)
    IN /\ rowLock = w
       /\ rowLock' = NoWorker
       /\ keys' = keys \cup {key}
       /\ sent' = IF key \in keys THEN sent
                  ELSE Append(sent, [id |-> schedule.id, time |-> d.time, at |-> d.at, expr |-> d.expr])
       /\ IF next = Never
          THEN schedule' = [schedule EXCEPT !.suspended = TRUE] /\ UNCHANGED nextAt
          ELSE nextAt' = next /\ UNCHANGED schedule
       /\ due' = [due EXCEPT ![w] = NotDue]
       /\ UNCHANGED <<clock, scheduleIds, call, manual>>

\* A failed produce, a lost connection, the instance's stop.
RollBackDue(w) ==
    /\ rowLock = w
    /\ rowLock' = NoWorker
    /\ due' = [due EXCEPT ![w] = NotDue]
    /\ UNCHANGED <<clock, scheduleRow, keys, sent, call, manual>>

RegisterSchedule(c) ==
    BeginRegister(c) \/ InsertSchedule(c) \/ SeedReplacement(c) \/ ReplaceSchedule(c)
Unsuspend(c) == BeginUnsuspend(c) \/ UnsuspendSchedule(c)

\* One due schedule of a scan; the scan itself is read without a lock, so any
\* schedule may be tried at any time.
produceDue(w) == ClaimDue(w) \/ CommitDue(w) \/ RollBackDue(w)

SchedulesNext ==
    \/ TickClock
    \/ \E c \in ScheduleCaller : RegisterSchedule(c) \/ Unsuspend(c) \/ BeginRunSchedule(c) \/ RunSchedule(c)
    \/ SuspendSchedule \/ DeleteSchedule
    \/ \E w \in ScheduleWorker : produceDue(w)

SchedulesSpec == SchedulesInit /\ [][SchedulesNext]_schedulesVars

-----------------------------------------------------------------------------
(* Properties. *)

\* A scheduled time of a schedule is produced at most once, also when a
\* replacement or an unsuspend that read the clock before the produce moves
\* the cursor back onto a time already produced (schedule.IdempotencyKey).
ScheduledOnce ==
    \A i, j \in DOMAIN sent :
        sent[i].id = sent[j].id /\ sent[i].time = sent[j].time => i = j

\* After downtime a schedule produces its newest due time and no other: what
\* is produced is due, and no later time of the expression was due as well.
NewestDueOnly ==
    \A i \in DOMAIN sent :
        /\ sent[i].time <= sent[i].at
        /\ ~\E u \in Times[sent[i].expr] : sent[i].time < u /\ u <= sent[i].at

\* Nothing is produced on time for a schedule that is suspended or gone when
\* the message commits, however stale the scan that found it due.
SuspendedIsSilent ==
    [][sent' # sent => schedule.id # NoSchedule /\ ~schedule.suspended]_schedulesVars

\* The cursor stands on a time of the expression in force: the newest
\* declaration decides when the schedule runs next (replaceConfig's comment).
CursorOnSchedule == schedule.id # NoSchedule => nextAt \in Times[schedule.expr]
=============================================================================
