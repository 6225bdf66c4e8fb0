---------------------------- MODULE DeliveryGroup ----------------------------
(***************************************************************************)
(* A fan-out (delivery) consumer group: fanOut materializes one delivery   *)
(* row per message and moves the group's mark, cursor.committed, and the   *)
(* runners work the rows off one by one (deliveryconsumer: fanout.go,      *)
(* claim.go, outcome.go).                                                  *)
(*                                                                         *)
(* fanOut is two statements.  The first reads the visible head and the     *)
(* xmax of its snapshot; the second has a snapshot of its own, waits for   *)
(* the cursor row lock, materializes what that snapshot sees above the     *)
(* mark, and moves the mark to a head proven by that snapshot's xmin.      *)
(***************************************************************************)
EXTENDS MessageLog, FiniteSetsExt

CONSTANTS
    Worker,       \* instances that run fanOut
    Limit,        \* FanOutBatchLimit
    MaxAttempts,  \* resolved Retry.MaxRetries
    Unmatched     \* ids the version, binding and compaction filters leave out

ASSUME DeliveryBounds ==
    Limit \in Nat \ {0} /\ MaxAttempts \in Nat \ {0} /\ Unmatched \subseteq Id

VARIABLES
    mark,         \* consumer_group_cursor.committed
    pendingHead,  \* consumer_group_cursor.pending_head
    pendingXid,   \* consumer_group_cursor.pending_xid, 0 = NULL
    phase,        \* where each worker is in fanOut
    pair,         \* each worker's (snapshotHead, snapshotXmax)
    xmin,         \* pg_snapshot_xmin of each worker's scan statement
    view,         \* the ids each worker's scan statement sees
    status,       \* status of each delivery row, "none" = no row
    attempts      \* attempts of each delivery row

markVars == <<mark, pendingHead, pendingXid>>
workerVars == <<phase, pair, xmin, view>>
rowVars == <<status, attempts>>
vars == <<logVars, markVars, workerVars, rowVars>>

Pair == [head : 0 .. MaxId, xid : 0 .. MaxXid + 1]
NoPair == [head |-> 0, xid |-> 0]

-----------------------------------------------------------------------------
\* The group is registered at the beginning of the stream.
Init ==
    /\ LogInit
    /\ mark = 0 /\ pendingHead = 0 /\ pendingXid = 0
    /\ phase = [w \in Worker |-> "idle"]
    /\ pair = [w \in Worker |-> NoPair]
    /\ xmin = [w \in Worker |-> 0]
    /\ view = [w \in Worker |-> {}]
    /\ status = [i \in Id |-> "none"]
    /\ attempts = [i \in Id |-> 0]

\* fanOut, first statement.  Nothing visible above the mark and nothing above the
\* stored pair ends the tick.
TakePair(w, h, x) ==
    /\ phase[w] = "idle"
    /\ IsVisibleHead(h) /\ IsXmax(x)
    /\ ~ (h <= mark /\ h <= pendingHead)
    /\ pair' = [pair EXCEPT ![w] = [head |-> h, xid |-> x]]
    /\ phase' = [phase EXCEPT ![w] = "paired"]
    /\ UNCHANGED <<logVars, markVars, rowVars, xmin, view>>

\* fanOut, second statement starts: its snapshot is fixed before it waits for the
\* cursor row lock.
BeginScan(w, m) ==
    /\ phase[w] = "paired"
    /\ IsXmin(m)
    /\ xmin' = [xmin EXCEPT ![w] = m]
    /\ view' = [view EXCEPT ![w] = {i \in Id : Visible(i)}]
    /\ phase' = [phase EXCEPT ![w] = "scanning"]
    /\ UNCHANGED <<logVars, markVars, rowVars, pair>>

\* The batch CTE: the lowest Limit ids the snapshot sees above the mark.
Above(w) == {i \in view[w] : i > mark}
Batch(w) == {i \in Above(w) : Cardinality({j \in Above(w) : j <= i}) <= Limit}

\* The gate CTE.
Gates(w) ==
    {mark}
      \cup (IF xmin[w] >= pair[w].xid THEN {pair[w].head} ELSE {})
      \cup (IF pendingXid # 0 /\ xmin[w] >= pendingXid THEN {pendingHead} ELSE {})

\* Faulty variant: the LIMIT does not hold the mark back.
Uncapped(w, gate) == gate

\* The mark CTE: a full batch caps the mark at the last id that was scanned.
Capped(w, gate) ==
    IF Cardinality(Batch(w)) = Limit THEN Smaller(gate, Max(Batch(w))) ELSE gate

\* Faulty variant: ON CONFLICT DO UPDATE.
Rematerialize(w) ==
    [i \in Id |-> IF i \in Batch(w) \ Unmatched THEN "ready" ELSE status[i]]

\* ON CONFLICT DO NOTHING: a row that exists is left as it is.
Materialize(w) ==
    [i \in Id |-> IF i \in Batch(w) \ Unmatched /\ status[i] = "none"
                  THEN "ready" ELSE status[i]]

\* fanOut, second statement gets the row lock and commits.
FanOut(w) ==
    /\ phase[w] = "scanning"
    /\ \E gate \in Gates(w) :
         /\ \A g \in Gates(w) : g <= gate
         /\ mark' = Capped(w, gate)
    /\ status' = Materialize(w)
    /\ pendingHead' = Larger(pendingHead, pair[w].head)
    /\ pendingXid' = Larger(pendingXid, pair[w].xid)
    /\ phase' = [phase EXCEPT ![w] = "idle"]
    /\ pair' = [pair EXCEPT ![w] = NoPair]
    /\ xmin' = [xmin EXCEPT ![w] = 0]
    /\ view' = [view EXCEPT ![w] = {}]
    /\ UNCHANGED <<logVars, attempts>>

\* A worker dies or its statement fails before the scan commits.
AbandonFanOut(w) ==
    /\ phase[w] # "idle"
    /\ phase' = [phase EXCEPT ![w] = "idle"]
    /\ pair' = [pair EXCEPT ![w] = NoPair]
    /\ xmin' = [xmin EXCEPT ![w] = 0]
    /\ view' = [view EXCEPT ![w] = {}]
    /\ UNCHANGED <<logVars, markVars, rowVars>>

-----------------------------------------------------------------------------
\* claimMessagesWithLifecycle: no lease, so a row whose runner dies stays
\* 'processing'.
ClaimDelivery(i) ==
    /\ status[i] = "ready"
    /\ status' = [status EXCEPT ![i] = "processing"]
    /\ attempts' = [attempts EXCEPT ![i] = @ + 1]
    /\ UNCHANGED <<logVars, markVars, workerVars>>

\* The outcome of a run; it is not guarded by a token.
Record(i, outcome) ==
    /\ status[i] = "processing"
    /\ status' = [status EXCEPT ![i] = outcome]
    /\ UNCHANGED <<logVars, markVars, workerVars, attempts>>

RecordSuccess(i) == Record(i, "done")
RecordFailure(i) == attempts[i] < MaxAttempts /\ Record(i, "ready")
RecordTerminal(i) == Record(i, "dead")

-----------------------------------------------------------------------------
FanOutStep(w) ==
    \/ \E h \in 0 .. MaxId, x \in 1 .. MaxXid + 1 : TakePair(w, h, x)
    \/ \E m \in 1 .. MaxXid + 1 : BeginScan(w, m)
    \/ FanOut(w)
    \/ AbandonFanOut(w)

DeliveryStep(i) ==
    \/ ClaimDelivery(i)
    \/ RecordSuccess(i)
    \/ RecordFailure(i)
    \/ RecordTerminal(i)

Next ==
    \/ Produce /\ UNCHANGED <<markVars, workerVars, rowVars>>
    \/ \E w \in Worker : FanOutStep(w)
    \/ \E i \in Id : DeliveryStep(i)

Spec == Init /\ [][Next]_vars

-----------------------------------------------------------------------------
TypeOK ==
    /\ LogTypeOK
    /\ mark \in 0 .. MaxId
    /\ pendingHead \in 0 .. MaxId
    /\ pendingXid \in 0 .. MaxXid + 1
    /\ phase \in [Worker -> {"idle", "paired", "scanning"}]
    /\ pair \in [Worker -> Pair]
    /\ xmin \in [Worker -> 0 .. MaxXid + 1]
    /\ view \in [Worker -> SUBSET Id]
    /\ status \in [Id -> {"none", "ready", "processing", "done", "dead"}]
    /\ attempts \in [Id -> 0 .. MaxAttempts]

\* The mark never passes a message without a delivery row: "a proof is only
\* usable here if everything under its head is VISIBLE to that snapshot" and the
\* LIMIT must not let the mark run ahead of the scan (fanout.go).  It does not
\* hold when producers overlap; OnlyOvertakenPassed says what does.
NoMessagePassed ==
    \A i \in Id \ Unmatched : i <= mark /\ Visible(i) => status[i] # "none"

\* A committed message with a higher id was drawn by a lower transaction id, so a
\* fence taken at that message says nothing about the transaction of i.
Overtaken(i) == \E j \in Id : j > i /\ Visible(j) /\ owner[j] < owner[i]

\* What the fence of fanOut does keep, however many producers are open: of the
\* messages it can see the mark passes without a delivery row only an overtaken
\* one, through racing fan-outs, abandoned scans and full batches.
OnlyOvertakenPassed ==
    \A i \in Id \ Unmatched :
        i <= mark /\ Visible(i) /\ ~ Overtaken(i) => status[i] # "none"

\* The mark never goes back, and the eager rescans of rows above it, by racing
\* peers with old snapshots too, never bring a resolved delivery back to life
\* (fanout.go: "rescanning it next tick a no-op").
ForwardStep ==
    /\ mark <= mark'
    /\ \A i \in Id : status[i] \in {"done", "dead"} => status'[i] = status[i]

Forward == [][ForwardStep]_<<mark, status>>
=============================================================================
