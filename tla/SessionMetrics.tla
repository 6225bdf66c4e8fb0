--------------------------- MODULE SessionMetrics ---------------------------
(***************************************************************************)
(* The metrics side-channel of one consumer instance (MetricProducer), and *)
(* the snapshot of abandoned handlers read back from what it produced.     *)
(*                                                                         *)
(* Handlers queue abandoned and cleared events without blocking and add to *)
(* the session's counters.  A flusher swaps the queue out under the lock,  *)
(* then the drop counter, produces the batch and reports what was dropped; *)
(* then it produces the counters when they changed.  The events survive a  *)
(* session in the queue; the counters start again with each session.       *)
(***************************************************************************)
EXTENDS Integers, Sequences, FiniteSets

CONSTANTS
    Routine,        \* handler calls that outlive their hard timeout
    QueueLimit,     \* pendingGoRoutineEventsLimit
    MaxSessions,    \* bound: calls of Consume
    MaxClaims,      \* bound: messages claimed
    MaxFlushes      \* bound: flush ticks

ASSUME LimitIsPositive ==
    /\ QueueLimit \in Nat \ {0} /\ MaxSessions \in Nat
    /\ IsFiniteSet(Routine)

VARIABLES
    routine,        \* routine -> "running", "abandoned" or "cleared"
    queue,          \* pendingGoRoutineEvents
    dropped,        \* droppedGoRoutineEvents
    flush,          \* the flusher: [pc, events, dropped, failed]
    flushes,
    storedEvents,   \* the events on __system.metrics
    reported,       \* drops told on the SQL0052 line
    unreported,     \* history: drops a cancelled tick kept to itself
    metricSession,  \* 0 before the first
    running,        \* the session's Run has not returned
    claimed,        \* the session counter
    lastFlushed,    \* lastFlushedCounters
    series,         \* session -> totals landed for it
    earned,         \* history: session -> messages it really claimed
    reader          \* AbandonedRoutineSnapshot in progress

sessionVars == <<routine, queue, dropped, flush, flushes, storedEvents, reported, unreported,
                 metricSession, running, claimed, lastFlushed, series, earned, reader>>

Waiting == [pc |-> "waiting", events |-> <<>>, dropped |-> 0, failed |-> FALSE]

SessionMetricsInit ==
    /\ routine = [r \in Routine |-> "running"]
    /\ queue = <<>> /\ dropped = 0
    /\ flush = Waiting /\ flushes = 0
    /\ storedEvents = {} /\ reported = 0 /\ unreported = 0
    /\ metricSession = 0 /\ running = FALSE
    /\ claimed = 0 /\ lastFlushed = 0
    /\ series = [s \in 1..MaxSessions |-> <<>>]
    /\ earned = [s \in 1..MaxSessions |-> 0]
    /\ reader = [pc |-> "idle"]

Flusher == <<flush, flushes, storedEvents, reported, unreported>>
Session == <<metricSession, running, claimed, lastFlushed, series, earned>>

-----------------------------------------------------------------------------
(* enqueue, under goRoutineEventsLock *)
Enqueue(event) ==
    IF Len(queue) = QueueLimit
    THEN dropped' = dropped + 1 /\ UNCHANGED queue
    ELSE queue' = Append(queue, event) /\ UNCHANGED dropped

(* CallSafely: the hard timeout writes the handler off; its late return is *)
(* recorded by a goroutine started after that.                             *)
RecordAbandoned(r) ==
    /\ routine[r] = "running" /\ running
    /\ routine' = [routine EXCEPT ![r] = "abandoned"]
    /\ Enqueue([type |-> "abandoned", of |-> r])
    /\ UNCHANGED <<Flusher, Session, reader>>

RecordCleared(r) ==
    /\ routine[r] = "abandoned"
    /\ routine' = [routine EXCEPT ![r] = "cleared"]
    /\ Enqueue([type |-> "cleared", of |-> r])
    /\ UNCHANGED <<Flusher, Session, reader>>

RecordClaimed ==
    /\ running /\ earned[metricSession] < MaxClaims
    /\ claimed' = claimed + 1
    /\ earned' = [earned EXCEPT ![metricSession] = @ + 1]
    /\ UNCHANGED <<routine, queue, dropped, Flusher, metricSession, running, lastFlushed, series, reader>>

(* Consume: a new session begins once the last one's goroutines are gone. *)
CountersAfterResetKept == claimed
CountersAfterReset == 0

StartSession ==
    /\ ~running /\ metricSession < MaxSessions
    /\ metricSession' = metricSession + 1 /\ running' = TRUE
    /\ claimed' = CountersAfterReset
    /\ lastFlushed' = 0
    /\ UNCHANGED <<routine, queue, dropped, Flusher, series, earned, reader>>

(* The context is cancelled.  A tick under way goes on; one that has not   *)
(* begun never does, and what is queued stays queued.                      *)
StopSession ==
    /\ running /\ flush.pc = "waiting"
    /\ running' = FALSE
    /\ UNCHANGED <<routine, queue, dropped, Flusher, metricSession, claimed, lastFlushed, series, earned, reader>>

-----------------------------------------------------------------------------
(* flushGoRoutineEvents, a step per access to what the handlers share *)
TakeEvents ==
    /\ running /\ flush.pc = "waiting" /\ flushes < MaxFlushes
    /\ flush' = [flush EXCEPT !.pc = "taken", !.events = queue]
    /\ flushes' = flushes + 1
    /\ queue' = <<>>
    /\ UNCHANGED <<routine, dropped, storedEvents, reported, unreported, Session, reader>>

TakeDropped ==
    /\ flush.pc = "taken"
    /\ flush' = [flush EXCEPT !.pc = "produce", !.dropped = dropped]
    /\ dropped' = 0
    /\ UNCHANGED <<routine, queue, flushes, storedEvents, reported, unreported, Session, reader>>

EventsOf(batch) == {batch[i] : i \in DOMAIN batch}

(* The batch lands whole or not at all.  One that returns an error is      *)
(* dropped, not requeued; it has landed all the same when only the answer  *)
(* to its commit was lost.                                                 *)
DroppedWithBatchNone(batch) == 0
DroppedWithBatch(batch) == Len(batch)

ProduceEvents(ok, lands) ==
    /\ flush.pc = "produce"
    /\ ok => lands
    /\ storedEvents' = IF lands THEN storedEvents \union EventsOf(flush.events) ELSE storedEvents
    /\ flush' = [flush EXCEPT !.pc = "report", !.events = <<>>,
                              !.failed = ~ok,
                              !.dropped = @ + IF ok THEN 0 ELSE DroppedWithBatch(flush.events)]
    /\ UNCHANGED <<routine, queue, dropped, flushes, reported, unreported, Session, reader>>

(* A tick the shutdown interrupts keeps its drops to itself. *)
ReportDrops(cancelled) ==
    /\ flush.pc = "report"
    /\ IF cancelled
       THEN unreported' = unreported + flush.dropped /\ UNCHANGED reported
       ELSE reported' = reported + flush.dropped /\ UNCHANGED unreported
    /\ flush' = [Waiting EXCEPT !.pc = "counters"]
    /\ UNCHANGED <<routine, queue, dropped, flushes, storedEvents, Session, reader>>

(* flushSessionCounters: an unchanged total produces nothing, a failed     *)
(* batch leaves lastFlushed, so the next tick tries again.                 *)
FlushCounters(ok) ==
    /\ flush.pc = "counters"
    /\ flush' = Waiting
    /\ IF claimed = lastFlushed \/ ~ok
       THEN UNCHANGED <<series, lastFlushed>>
       ELSE /\ series' = [series EXCEPT ![metricSession] = Append(@, claimed)]
            /\ lastFlushed' = claimed
    /\ UNCHANGED <<routine, queue, dropped, flushes, storedEvents, reported, unreported,
                   metricSession, running, claimed, earned, reader>>

-----------------------------------------------------------------------------
(* AbandonedRoutineSnapshot: the two event types are read one after the    *)
(* other; the pairs are matched in memory.                                 *)
FirstReadCleared == "cleared"
FirstRead == "abandoned"
SecondRead == IF FirstRead = "abandoned" THEN "cleared" ELSE "abandoned"

RoutinesOf(type) == {r \in Routine : [type |-> type, of |-> r] \in storedEvents}

OpenRoutines == RoutinesOf("abandoned") \ RoutinesOf("cleared")

EventTimestamps ==
    /\ reader.pc = "idle"
    /\ reader' = [pc |-> "half", type |-> FirstRead, seen |-> RoutinesOf(FirstRead), open |-> OpenRoutines]
    /\ UNCHANGED <<routine, queue, dropped, Flusher, Session>>

toAbandonedRoutineSnapshot ==
    /\ reader.pc = "half"
    /\ LET second == RoutinesOf(SecondRead)
           outstanding == IF reader.type = "abandoned" THEN reader.seen \ second
                          ELSE second \ reader.seen
       IN  reader' = [pc |-> "done", outstanding |-> outstanding,
                      open |-> reader.open \union OpenRoutines]
    /\ UNCHANGED <<routine, queue, dropped, Flusher, Session>>

SessionMetricsNext ==
    \/ \E r \in Routine : RecordAbandoned(r) \/ RecordCleared(r)
    \/ RecordClaimed \/ StartSession \/ StopSession
    \/ TakeEvents \/ TakeDropped
    \/ \E ok, lands \in BOOLEAN : ProduceEvents(ok, lands)
    \/ \E ok \in BOOLEAN : ReportDrops(ok) \/ FlushCounters(ok)
    \/ EventTimestamps \/ toAbandonedRoutineSnapshot

SessionMetricsSpec == SessionMetricsInit /\ [][SessionMetricsNext]_sessionVars

-----------------------------------------------------------------------------
RecordedEvents ==
    Cardinality({r \in Routine : routine[r] /= "running"})
    + Cardinality({r \in Routine : routine[r] = "cleared"})

(* No event vanishes: every abandoned or cleared event ever recorded is    *)
(* queued, in the flusher's hands, on the stream, or counted as dropped,   *)
(* although handlers queue and drop between the flusher's two swaps.       *)
EventsAccountedFor ==
    RecordedEvents <= Len(queue) + Len(flush.events) + Cardinality(storedEvents)
               + dropped + flush.dropped + reported + unreported

(* A session's series holds its own work only, and never falls: what       *)
(* landed for a session never exceeds what that session claimed.           *)
SeriesIsOwn ==
    \A s \in 1..MaxSessions : \A i \in DOMAIN series[s] :
        /\ series[s][i] <= earned[s]
        /\ i > 1 => series[s][i - 1] < series[s][i]

(* A handler reported as still outstanding was so on the stream at one of  *)
(* the snapshot's two reads: batches that land in between never make a     *)
(* handler that has returned look abandoned.                               *)
OutstandingIsReal ==
    reader.pc = "done" => reader.outstanding \subseteq reader.open
=============================================================================
