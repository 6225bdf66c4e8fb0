---------------------------- MODULE CollectorPass ----------------------------
(***************************************************************************)
(* One pass of the metrics collector.                                      *)
(*                                                                         *)
(* The system's series are produced one by one; then the streams are       *)
(* listed and collected by concurrent goroutines, a few at a time, the     *)
(* first error cancelling the rest; the completion timestamp is produced   *)
(* last.  Streams are created and destroyed meanwhile, and a second        *)
(* instance may run a pass of its own while a first one that lost its      *)
(* lease still runs.                                                       *)
(***************************************************************************)
EXTENDS Integers, Sequences, FiniteSets

CONSTANTS
    Collector,           \* collector instances
    CollectedStream,     \* the streams there may be
    MetricStream,        \* __system.metrics, one of them
    StreamConcurrency,   \* goroutines of one pass
    MaxPassesBegun       \* bound: passes begun

ASSUME CollectorConfigIsValid ==
    /\ MetricStream \in CollectedStream
    /\ StreamConcurrency \in Nat \ {0}

VARIABLES
    registered,    \* the streams that exist
    pass,          \* collector -> the pass it runs
    passes,        \* passes begun
    measured,      \* the measurements landed: [pass, owner, series]
    completed      \* the passes whose completion timestamp landed

passVars == <<registered, pass, passes, measured, completed>>

Rest == [pc |-> "rest"]

CollectorPassInit ==
    /\ registered \in {all \in SUBSET CollectedStream : MetricStream \in all}
    /\ pass = [c \in Collector |-> Rest]
    /\ passes = 0
    /\ measured = {}
    /\ completed = {}

WorkerSeries == <<"unclaimed_workers", "oldest_unclaimed_age", "failing_workers">>
ScheduleSeries == <<"overdue_schedules", "oldest_due_age", "suspended_schedules">>
AlertSeries == <<"active_alerts", "resolved_alerts">>

SystemSeries == WorkerSeries \o ScheduleSeries \o AlertSeries

(* collectStream: the metrics stream's own traffic is left out, its writes *)
(* would change what they measure.                                         *)
StreamSeries(s) ==
    IF s = MetricStream THEN <<"partitions", "unclaimed">>
    ELSE <<"partitions", "unclaimed", "compacted", "consumer_groups">>

Measure(c, owner, series) ==
    measured' = measured \union {[pass |-> pass[c].number, owner |-> owner, series |-> series]}

ChangeStreams ==
    /\ \E s \in CollectedStream \ {MetricStream} :
          registered' = (registered \union {s}) \ (registered \intersect {s})
    /\ UNCHANGED <<pass, passes, measured, completed>>

BeginPass(c) ==
    /\ pass[c].pc = "rest" /\ passes < MaxPassesBegun
    /\ passes' = passes + 1
    /\ pass' = [pass EXCEPT ![c] = [pc |-> "system", number |-> passes + 1, next |-> 1]]
    /\ UNCHANGED <<registered, measured, completed>>

ProduceSystemSeries(c) ==
    /\ pass[c].pc = "system" /\ pass[c].next <= Len(SystemSeries)
    /\ Measure(c, "system", SystemSeries[pass[c].next])
    /\ pass' = [pass EXCEPT ![c].next = @ + 1]
    /\ UNCHANGED <<registered, passes, completed>>

ListStreams(c) ==
    /\ pass[c].pc = "system" /\ pass[c].next > Len(SystemSeries)
    /\ pass' = [pass EXCEPT ![c] = [pc |-> "streams", number |-> @.number,
                                    listed |-> registered, waiting |-> registered,
                                    at |-> [s \in registered |-> -2], failed |-> FALSE]]
    /\ UNCHANGED <<registered, passes, measured, completed>>

-----------------------------------------------------------------------------
(* at[s]: the reads of the stream's snapshot still to come, negative: its  *)
(* own row, its groups' names, one snapshot for each; then the next series *)
(* to produce.                                                             *)
Collecting(c) ==
    {s \in pass[c].listed \ pass[c].waiting : pass[c].at[s] <= Len(StreamSeries(s))}

(* group.Go: a goroutine starts when one of StreamConcurrency is free,     *)
(* even once the group has failed.                                         *)
StartStream(c, s) ==
    /\ pass[c].pc = "streams" /\ s \in pass[c].waiting
    /\ Cardinality(Collecting(c)) < StreamConcurrency
    /\ pass' = [pass EXCEPT ![c].waiting = @ \ {s}]
    /\ UNCHANGED <<registered, passes, measured, completed>>

EndedPass(s) == Len(StreamSeries(s)) + 1

(* The goroutine's error cancels the group: a stream destroyed since it    *)
(* was listed has no tables, one of its groups is gone by the time its     *)
(* snapshot is read, a produce fails, or the group has already been        *)
(* cancelled.                                                              *)
FailedByPrevious(c) == pass[c].failed
FailedBy(c) == TRUE

FailStream(c, s) ==
    /\ pass[c].pc = "streams" /\ s \in Collecting(c)
    /\ pass' = [pass EXCEPT ![c].at[s] = EndedPass(s), ![c].failed = FailedBy(c)]
    /\ UNCHANGED <<registered, passes, measured, completed>>

Reading(c, s, at) ==
    /\ pass[c].pc = "streams" /\ s \in Collecting(c) /\ pass[c].at[s] = at
    /\ s \in registered
    /\ pass' = [pass EXCEPT ![c].at[s] = at + 1]
    /\ UNCHANGED <<registered, passes, measured, completed>>

ReadStreamSnapshot(c, s) == Reading(c, s, -2)

ListConsumerGroups(c, s) == Reading(c, s, -1)

ConsumerGroupSnapshot(c, s) == Reading(c, s, 0)

ProduceStreamSeries(c, s) ==
    /\ pass[c].pc = "streams" /\ s \in Collecting(c) /\ pass[c].at[s] > 0
    /\ Measure(c, s, StreamSeries(s)[pass[c].at[s]])
    /\ pass' = [pass EXCEPT ![c].at[s] = @ + 1]
    /\ UNCHANGED <<registered, passes, completed>>

(* group.Wait *)
GroupDoneOnceStarted(c) == pass[c].waiting = {}
GroupDone(c) == pass[c].waiting = {} /\ Collecting(c) = {}

ProduceCompletion(c) ==
    /\ pass[c].pc = "streams" /\ GroupDone(c) /\ ~pass[c].failed
    /\ completed' = completed \union {[number |-> pass[c].number, streams |-> pass[c].listed]}
    /\ pass' = [pass EXCEPT ![c] = Rest]
    /\ UNCHANGED <<registered, passes, measured>>

(* A failed pass produces no completion; the next tick starts over. *)
FailPass(c) ==
    /\ \/ pass[c].pc = "system"
       \/ pass[c].pc = "streams" /\ GroupDone(c)
    /\ pass' = [pass EXCEPT ![c] = Rest]
    /\ UNCHANGED <<registered, passes, measured, completed>>

CollectorPassNext ==
    \/ ChangeStreams
    \/ \E c \in Collector :
          \/ BeginPass(c) \/ ProduceSystemSeries(c) \/ ListStreams(c)
          \/ ProduceCompletion(c) \/ FailPass(c)
          \/ \E s \in CollectedStream :
                StartStream(c, s) \/ FailStream(c, s)
                \/ ReadStreamSnapshot(c, s) \/ ListConsumerGroups(c, s)
                \/ ConsumerGroupSnapshot(c, s) \/ ProduceStreamSeries(c, s)

CollectorPassSpec == CollectorPassInit /\ [][CollectorPassNext]_passVars

-----------------------------------------------------------------------------
(* The completion timestamp is honest: when it has landed for a pass,      *)
(* every series of the system and of every stream the pass listed has      *)
(* landed in that pass, whatever failed, was destroyed or overlapped.      *)
CompletedPassIsWhole ==
    \A done \in completed :
        /\ \A i \in DOMAIN SystemSeries :
               [pass |-> done.number, owner |-> "system", series |-> SystemSeries[i]] \in measured
        /\ \A s \in done.streams : \A i \in DOMAIN StreamSeries(s) :
               [pass |-> done.number, owner |-> s, series |-> StreamSeries(s)[i]] \in measured
=============================================================================
