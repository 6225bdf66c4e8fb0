---------------------------- MODULE LabConsumers ----------------------------
(***************************************************************************)
(* The lab's consumer processes in a run that keeps aggregate counters.    *)
(*                                                                         *)
(* A process moves its instances to the declared counts, its handlers      *)
(* count before their delivery commits, and a goroutine of its own writes  *)
(* snapshots of the counters.  The checker, another process, waits for the *)
(* cursor and then for a snapshot of every series taken after that.        *)
(* The counters are those of handler invocations, failures included: a     *)
(* failed delivery is parked, the cursor passes it, and it is retried.     *)
(***************************************************************************)
EXTENDS Integers, Sequences, FiniteSets, FiniteSetsExt

CONSTANTS
    LabProcess,        \* consumer processes
    NoLabProcess,
    LabOrder,             \* messages of the stream
    InstanceCounts,    \* the declared counts of instances, in order
    MaxRuns            \* bound: handler invocations of one message

ASSUME CountsAreDeclared ==
    /\ InstanceCounts \in Seq(Nat) /\ InstanceCounts # <<>>
    /\ MaxRuns \in Nat \ {0}

VARIABLES
    change,       \* process -> the consumer change it applies; 0 once it stops
    sessions,     \* process -> sessions that run
    order,        \* message -> where its delivery is
    counter,      \* process -> handler invocations counted
    firsts,       \* ghost: process -> those the cursor waits for
    snapshot,     \* process -> the snapshot being written: "none", or its time
    written,      \* process -> its latest snapshot on disk
    settle        \* the checker: its step and the snapshots it loaded

consumerVars == <<change, sessions, order, counter, firsts, snapshot, written, settle>>

NoSnapshot == [after |-> FALSE, count |-> -1]
Untaken == [at |-> "log", by |-> NoLabProcess, runs |-> 0]

LabConsumersInit ==
    /\ change = [p \in LabProcess |-> 1]
    /\ sessions = [p \in LabProcess |-> 0]
    /\ order = [m \in LabOrder |-> Untaken]
    /\ counter = [p \in LabProcess |-> 0]
    /\ firsts = [p \in LabProcess |-> 0]
    /\ snapshot = [p \in LabProcess |-> "none"]
    /\ written = [p \in LabProcess |-> NoSnapshot]
    /\ settle = [pc |-> "drain", loaded |-> [p \in LabProcess |-> NoSnapshot]]

WantedSessions(p) == IF change[p] = 0 THEN 0 ELSE InstanceCounts[change[p]]
Busy(p) == {m \in LabOrder : order[m].by = p}

(* SetCount: the highest-numbered session is stopped and waited for, or    *)
(* one more is registered and started.                                     *)
StartConsumer(p) ==
    /\ sessions[p] < WantedSessions(p)
    /\ sessions' = [sessions EXCEPT ![p] = @ + 1]
    /\ UNCHANGED <<change, order, counter, firsts, snapshot, written, settle>>

StopConsumer(p) ==
    /\ sessions[p] > WantedSessions(p)
    /\ Cardinality(Busy(p)) < sessions[p]
    /\ sessions' = [sessions EXCEPT ![p] = @ - 1]
    /\ UNCHANGED <<change, order, counter, firsts, snapshot, written, settle>>

NextChange(p) ==
    /\ sessions[p] = WantedSessions(p) /\ change[p] \in 1..(Len(InstanceCounts) - 1)
    /\ change' = [change EXCEPT ![p] = @ + 1]
    /\ UNCHANGED <<sessions, order, counter, firsts, snapshot, written, settle>>

(* The manager stops the consumers once the checker has exited. *)
StopRole(p) ==
    /\ settle.pc \in {"settled", "unknown"} /\ change[p] # 0
    /\ change' = [change EXCEPT ![p] = 0]
    /\ UNCHANGED <<sessions, order, counter, firsts, snapshot, written, settle>>

-----------------------------------------------------------------------------
TakeOrder(p, m) ==
    /\ Cardinality(Busy(p)) < sessions[p]
    /\ order[m].at \in {"log", "parked"} /\ order[m].runs < MaxRuns
    /\ order' = [order EXCEPT ![m] = [at |-> IF @.at = "log" THEN "first" ELSE "retry", by |-> p, runs |-> @.runs + 1]]
    /\ UNCHANGED <<change, sessions, counter, firsts, snapshot, written, settle>>

(* Handle: the counter moves, then the outcome is returned. *)
CountOrder(p, m) ==
    /\ order[m].by = p /\ order[m].at \in {"first", "retry"}
    /\ counter' = [counter EXCEPT ![p] = @ + 1]
    /\ firsts' = IF order[m].at = "first" THEN [firsts EXCEPT ![p] = @ + 1] ELSE firsts
    /\ order' = [order EXCEPT ![m].at = "counted"]
    /\ UNCHANGED <<change, sessions, snapshot, written, settle>>

(* The delivery commits, resolved or parked: either way the cursor passes. *)
CommitOrder(m) ==
    /\ order[m].at = "counted"
    /\ \E outcome \in {"resolved", "parked"} :
          order' = [order EXCEPT ![m].at = outcome, ![m].by = NoLabProcess]
    /\ UNCHANGED <<change, sessions, counter, firsts, snapshot, written, settle>>

-----------------------------------------------------------------------------
(* Snapshot takes the time, then loads the counters.  All that matters of  *)
(* the time is whether the checker had seen the drain.                     *)
SnapshotTime == IF settle.pc = "drain" THEN "before" ELSE "after"

BeginSnapshot(p) ==
    /\ snapshot[p] = "none"
    /\ change[p] = 0 => sessions[p] = 0
    /\ snapshot' = [snapshot EXCEPT ![p] = SnapshotTime]
    /\ UNCHANGED <<change, sessions, order, counter, firsts, written, settle>>

WriteSnapshot(p) ==
    /\ snapshot[p] # "none"
    /\ written' = [written EXCEPT ![p] = [after |-> snapshot[p] = "after", count |-> counter[p]]]
    /\ snapshot' = [snapshot EXCEPT ![p] = "none"]
    /\ UNCHANGED <<change, sessions, order, counter, firsts, settle>>

-----------------------------------------------------------------------------
PassedOrders(m) == order[m].at \in {"resolved", "parked"} \/ order[m].runs > 1

DrainSeen ==
    /\ settle.pc = "drain" /\ \A m \in LabOrder : PassedOrders(m)
    /\ settle' = [settle EXCEPT !.pc = "settle"]
    /\ UNCHANGED <<change, sessions, order, counter, firsts, snapshot, written>>

LoadedSeries == {p \in LabProcess : written[p] # NoSnapshot}

(* A faulty variant: the latest of the series' latest snapshots. *)
NewestIsAfterDrain == \E p \in LoadedSeries : written[p].after

(* ReadOldestHandlerSnapshot is not before the drain; zero without series. *)
OldestIsAfterDrain == LoadedSeries # {} /\ \A p \in LoadedSeries : written[p].after

ReloadProgress ==
    /\ settle.pc = "settle"
    /\ settle' = [pc |-> IF OldestIsAfterDrain THEN "settled" ELSE "settle", loaded |-> written]
    /\ UNCHANGED <<change, sessions, order, counter, firsts, snapshot, written>>

SpendBudget ==
    /\ settle.pc \in {"drain", "settle"}
    /\ settle' = [settle EXCEPT !.pc = "unknown"]
    /\ UNCHANGED <<change, sessions, order, counter, firsts, snapshot, written>>

LabConsumersNext ==
    \/ \E p \in LabProcess :
          \/ StartConsumer(p) \/ StopConsumer(p) \/ NextChange(p) \/ StopRole(p)
          \/ BeginSnapshot(p) \/ WriteSnapshot(p)
          \/ \E m \in LabOrder : TakeOrder(p, m) \/ CountOrder(p, m)
    \/ \E m \in LabOrder : CommitOrder(m)
    \/ DrainSeen \/ ReloadProgress \/ SpendBudget

LabConsumersSpec == LabConsumersInit /\ [][LabConsumersNext]_consumerVars

-----------------------------------------------------------------------------
(* A settled total misses nothing the cursor waited for: the snapshot      *)
(* loaded for a series counts every first delivery of that process,        *)
(* however the counting, the commits, the snapshots and the two waits of   *)
(* the checker interleave.                                                 *)
SettledTotalIsWhole ==
    settle.pc = "settled" =>
        \A p \in LabProcess : settle.loaded[p] # NoSnapshot => settle.loaded[p].count >= firsts[p]

=============================================================================
