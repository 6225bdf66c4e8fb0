----------------------------- MODULE ClaimBuffer -----------------------------
(***************************************************************************)
(* The message consumer inside one process: prefetch, dispatch, the        *)
(* handler goroutines and shutdown over claimBuffer and rangeState         *)
(* (pkg/consume/messageconsumer) and the bounded queue between them.       *)
(*                                                                         *)
(* The map of ranges has a lock, a range's results do not: a handler looks *)
(* its range up, writes its result and adds to the counter in separate     *)
(* steps, and shutdown takes every range out of the map in between.        *)
(*                                                                         *)
(* A handler that overruns its hard timeout resolves as a failure, its     *)
(* abandoned goroutine touches no range.  Key leases are KeyLease's, what  *)
(* a commit does to the group is CursorGroup's.                            *)
(***************************************************************************)
EXTENDS Integers, Sequences, FiniteSets

CONSTANTS
    LocalRange,          \* the ranges this process may claim
    Expired,        \* those of them a worker that crashed had claimed before
    Size,           \* [LocalRange -> Nat]: messages of a range
    Behind,         \* [LocalRange -> [indexes -> index or 0]]: the next message of an ordered key
    QueueSize,
    BatchLimit,
    Permits         \* MessageConcurrency

ASSUME ClaimBufferBounds ==
    /\ Expired \subseteq LocalRange
    /\ Size \in [LocalRange -> Nat]
    /\ \A r \in LocalRange :
         /\ Behind[r] \in [1 .. Size[r] -> 0 .. Size[r]]
         /\ \A i, j \in 1 .. Size[r] : Behind[r][i] = Behind[r][j] /\ Behind[r][i] # 0 => i = j
    /\ QueueSize \in Nat /\ BatchLimit \in Nat

VARIABLES
    leaseOf,        \* [LocalRange -> the lease in the database]
    settledTo,      \* [LocalRange -> messages a commit has covered]
    recordedAs,     \* [LocalRange -> what the commits recorded per message]
    tracked,        \* claimBuffer.ranges
    results,        \* [LocalRange -> outcome per message, or "none"]
    resolvedCount,  \* rangeState.resolved
    dispatchedCount,\* rangeState.dispatched
    snapshotTaken,  \* rangeState.committed
    staleMark,      \* rangeState.stale
    buffer,         \* the queue of items <<range, index>>
    prefetcher,     \* what prefetch is doing
    dispatcher,     \* "idle", "permit" or "stopped"
    handlers,       \* goroutines of processChain
    runnerAt        \* "running", "cancelled", "closing" or "closed"

leaseVars == <<leaseOf, settledTo, recordedAs>>
rangeVars == <<tracked, results, resolvedCount, dispatchedCount, snapshotTaken, staleMark>>
bufferVars == <<leaseVars, rangeVars, buffer, prefetcher, dispatcher, handlers, runnerAt>>

Position(r) == 1 .. Size[r]
PrefetchWaits == [pc |-> "waiting", room |-> 0, items |-> {}]
NoResults(r) == [i \in Position(r) |-> "none"]

ClaimBufferInit ==
    /\ leaseOf = [r \in LocalRange |-> "unclaimed"]
    /\ settledTo = [r \in LocalRange |-> 0]
    /\ recordedAs = [r \in LocalRange |-> NoResults(r)]
    /\ tracked = {}
    /\ results = [r \in LocalRange |-> NoResults(r)]
    /\ resolvedCount = [r \in LocalRange |-> 0]
    /\ dispatchedCount = [r \in LocalRange |-> 0]
    /\ snapshotTaken = [r \in LocalRange |-> FALSE]
    /\ staleMark = [r \in LocalRange |-> FALSE]
    /\ buffer = <<>>
    /\ prefetcher = PrefetchWaits
    /\ dispatcher = "idle"
    /\ handlers = {}
    /\ runnerAt = "running"

-----------------------------------------------------------------------------
(* prefetch *)

\* WaitForRoom: a full batch fits, or the debounce timer fired with some room.
WaitForRoom ==
    /\ runnerAt = "running" /\ prefetcher.pc = "waiting"
    /\ Len(buffer) < QueueSize
    /\ prefetcher' = [prefetcher EXCEPT !.pc = "claiming", !.room = QueueSize - Len(buffer)]
    /\ UNCHANGED <<leaseVars, rangeVars, buffer, dispatcher, handlers, runnerAt>>

\* Faulty variant: a full batch is claimed whatever the room.
ClaimLimitOfBatch(room) == BatchLimit

ClaimLimit(room) == IF room < BatchLimit THEN room ELSE BatchLimit

\* Messages nothing of their range runs before.
ChainHeads(r) == {i \in Position(r) : \A j \in Position(r) : Behind[r][j] # i}

\* ClaimMessagesWithCursor gave a range; add tracks it before it enqueues.  The
\* limit sizes a fresh claim only: an expired range comes back whole.
ClaimInto(r) ==
    /\ prefetcher.pc = "claiming" /\ leaseOf[r] = "unclaimed"
    /\ r \in Expired \/ Size[r] <= ClaimLimit(prefetcher.room)
    /\ leaseOf' = [leaseOf EXCEPT ![r] = "live"]
    /\ tracked' = tracked \cup {r}
    /\ prefetcher' = [pc |-> "adding", room |-> 0, items |-> {<<r, i>> : i \in ChainHeads(r)}]
    /\ UNCHANGED <<settledTo, recordedAs, results, resolvedCount, dispatchedCount, snapshotTaken,
                   staleMark, buffer, dispatcher, handlers, runnerAt>>

\* Caught up, quarantined, every message compacted away, or a transient error.
ClaimNothing ==
    /\ prefetcher.pc = "claiming"
    /\ prefetcher' = PrefetchWaits
    /\ UNCHANGED <<leaseVars, rangeVars, buffer, dispatcher, handlers, runnerAt>>

EnQueue ==
    /\ prefetcher.pc = "adding"
    /\ Len(buffer) < QueueSize
    /\ \E item \in prefetcher.items :
         /\ buffer' = Append(buffer, item)
         /\ prefetcher' = IF prefetcher.items = {item} THEN PrefetchWaits
                          ELSE [prefetcher EXCEPT !.items = @ \ {item}]
    /\ UNCHANGED <<leaseVars, rangeVars, dispatcher, handlers, runnerAt>>

\* Every blocking call of prefetch returns once the context is done.
StopPrefetch ==
    /\ runnerAt = "cancelled" /\ prefetcher.pc # "stopped"
    /\ prefetcher' = [PrefetchWaits EXCEPT !.pc = "stopped"]
    /\ UNCHANGED <<leaseVars, rangeVars, buffer, dispatcher, handlers, runnerAt>>

-----------------------------------------------------------------------------
(* dispatch *)

AcquirePermit ==
    /\ dispatcher = "idle" /\ Cardinality(handlers) < Permits
    /\ dispatcher' = "permit"
    /\ UNCHANGED <<leaseVars, rangeVars, buffer, prefetcher, handlers, runnerAt>>

Handler(item, pc, kind) == [item |-> item, pc |-> pc, kind |-> kind]

CountDispatch(r) ==
    dispatchedCount' = [dispatchedCount EXCEPT ![r] = IF r \in tracked THEN @ + 1 ELSE @]

\* waitForNext, then a goroutine for the item.
Dispatch ==
    /\ dispatcher = "permit" /\ buffer # <<>>
    /\ buffer' = Tail(buffer)
    /\ CountDispatch(Head(buffer)[1])
    /\ dispatcher' = "idle"
    /\ handlers' = handlers \cup {Handler(Head(buffer), "start", "none")}
    /\ UNCHANGED <<leaseVars, tracked, results, resolvedCount, snapshotTaken, staleMark,
                   prefetcher, runnerAt>>

StopDispatch ==
    /\ runnerAt = "cancelled" /\ dispatcher # "stopped"
    /\ dispatcher' = "stopped"
    /\ UNCHANGED <<leaseVars, rangeVars, buffer, prefetcher, handlers, runnerAt>>

-----------------------------------------------------------------------------
(* processChain *)

Become(g, h) == handlers' = (handlers \ {g}) \cup {h}
Leave(g) == handlers' = handlers \ {g}

\* The lease no longer covers a run: the message stays unresolved.
LeaveStale(g) ==
    /\ g.pc = "start"
    /\ staleMark' = [staleMark EXCEPT ![g.item[1]] = @ \/ g.item[1] \in tracked]
    /\ Leave(g)
    /\ UNCHANGED <<leaseVars, tracked, results, resolvedCount, dispatchedCount, snapshotTaken,
                   buffer, prefetcher, dispatcher, runnerAt>>

\* runItem: the handler ran, or its key's lease spoke for it.
RunItem(g, kind) ==
    /\ g.pc = "start"
    /\ Become(g, Handler(g.item, "lookup", kind))
    /\ UNCHANGED <<leaseVars, rangeVars, buffer, prefetcher, dispatcher, runnerAt>>

\* lookup: a range that is gone was settled elsewhere.
LookupRange(g) ==
    /\ g.pc = "lookup"
    /\ IF g.item[1] \in tracked THEN Become(g, Handler(g.item, "write", g.kind)) ELSE Leave(g)
    /\ UNCHANGED <<leaseVars, rangeVars, buffer, prefetcher, dispatcher, runnerAt>>

WriteResult(g) ==
    /\ g.pc = "write"
    /\ results' = [results EXCEPT ![g.item[1]][g.item[2]] = g.kind]
    /\ Become(g, Handler(g.item, "count", g.kind))
    /\ UNCHANGED <<leaseVars, tracked, resolvedCount, dispatchedCount, snapshotTaken, staleMark,
                   buffer, prefetcher, dispatcher, runnerAt>>

\* The item an ordered key runs next after this one, if any.
Successor(g) == <<g.item[1], Behind[g.item[1]][g.item[2]]>>
HasSuccessor(g) == Behind[g.item[1]][g.item[2]] # 0

\* resolveDeferredBehind resolves the rest of the chain before the range is checked.
CountResult(g) ==
    /\ g.pc = "count"
    /\ resolvedCount' = [resolvedCount EXCEPT ![g.item[1]] = @ + 1]
    /\ Become(g, IF g.kind = "deferred" /\ HasSuccessor(g)
                 THEN Handler(Successor(g), "lookup", "deferred")
                 ELSE Handler(g.item, "check", g.kind))
    /\ UNCHANGED <<leaseVars, tracked, results, dispatchedCount, snapshotTaken, staleMark,
                   buffer, prefetcher, dispatcher, runnerAt>>

\* What follows the item: the next of its key, deferred if this one did not
\* succeed.
Follow(g) ==
    IF ~HasSuccessor(g) \/ g.kind = "deferred" \/ g.item[1] \notin tracked THEN Leave(g)
    ELSE Become(g, IF g.kind = "success" THEN Handler(Successor(g), "start", "none")
                                         ELSE Handler(Successor(g), "lookup", "deferred"))

\* Faulty variant: the counter alone decides who commits.
MayTakeSnapshotCounted(r) == r \in tracked /\ resolvedCount[r] = Size[r]

\* isRangeResolved and tryGetSnapshot's CompareAndSwap.
MayTakeSnapshot(r) == r \in tracked /\ resolvedCount[r] = Size[r] /\ ~snapshotTaken[r]

CommitIfResolved(g) ==
    LET r == g.item[1]
    IN  /\ g.pc = "check"
        /\ IF MayTakeSnapshot(r)
           THEN /\ snapshotTaken' = [snapshotTaken EXCEPT ![r] = TRUE]
                /\ Become(g, Handler(g.item, "commit", g.kind))
           ELSE UNCHANGED snapshotTaken /\ Follow(g)
        /\ UNCHANGED <<leaseVars, tracked, results, resolvedCount, dispatchedCount, staleMark,
                       buffer, prefetcher, dispatcher, runnerAt>>

\* Commit in the database: the whole range, under its lease.
CommitLands(r) ==
    /\ leaseOf[r] = "live"
    /\ leaseOf' = [leaseOf EXCEPT ![r] = "freed"]
    /\ settledTo' = [settledTo EXCEPT ![r] = Size[r]]
    /\ recordedAs' = [recordedAs EXCEPT ![r] = results[r]]

\* commitRange: it landed (perhaps unheard, then the range stays tracked), the
\* lease was lost, or it failed.
CommitRangeOf(g) ==
    LET r == g.item[1]
    IN  /\ g.pc = "commit"
        /\ \/ CommitLands(r) /\ tracked' \in {tracked, tracked \ {r}}
           \/ leaseOf[r] # "live" /\ tracked' = tracked \ {r} /\ UNCHANGED leaseVars
           \/ UNCHANGED <<tracked, leaseVars>>
        /\ Follow(g)
        /\ UNCHANGED <<results, resolvedCount, dispatchedCount, snapshotTaken, staleMark,
                       buffer, prefetcher, dispatcher, runnerAt>>

-----------------------------------------------------------------------------
(* shutdown *)

\* The context is done: a stop, or a fatal error of prefetch.
CancelRunner ==
    /\ runnerAt = "running"
    /\ runnerAt' = "cancelled"
    /\ UNCHANGED <<leaseVars, rangeVars, buffer, prefetcher, dispatcher, handlers>>

\* drain ends with the last handler or with the shutdown budget; removeAll.
CloseOpenRanges ==
    /\ runnerAt = "cancelled" /\ prefetcher.pc = "stopped" /\ dispatcher = "stopped"
    /\ runnerAt' = "closing"
    /\ prefetcher' = [prefetcher EXCEPT !.items = tracked]
    /\ tracked' = {}
    /\ UNCHANGED <<leaseVars, results, resolvedCount, dispatchedCount, snapshotTaken, staleMark,
                   buffer, dispatcher, handlers>>

\* Faulty variant: the last resolved message, whatever lies before it.
ContiguousResolvedLast(r, n) ==
    n \in 0 .. Size[r] /\ (n > 0 => results[r][n] # "none") /\ \A i \in n + 1 .. Size[r] : results[r][i] = "none"

\* contiguousResolved: n messages from the front are resolved, not the next.
ContiguousResolved(r, n) ==
    /\ n \in 0 .. Size[r]
    /\ \A i \in 1 .. n : results[r][i] # "none"
    /\ n < Size[r] => results[r][n + 1] = "none"

\* ForceReclaimRange for a range nobody started.
Surrender(r) ==
    /\ dispatchedCount[r] = 0 /\ ~staleMark[r]
    /\ leaseOf' = [leaseOf EXCEPT ![r] = IF @ = "live" THEN "surrendered" ELSE @]
    /\ UNCHANGED <<settledTo, recordedAs>>

\* PartialCommit of the resolved prefix; the lease keeps the rest.
CommitPrefix(r) ==
    /\ dispatchedCount[r] > 0 \/ staleMark[r]
    /\ \E n \in 0 .. Size[r] :
         /\ ContiguousResolved(r, n)
         /\ IF n > settledTo[r] /\ leaseOf[r] = "live"
            THEN /\ settledTo' = [settledTo EXCEPT ![r] = n]
                 /\ recordedAs' = [recordedAs EXCEPT ![r] =
                      [i \in Position(r) |-> IF i <= n THEN results[r][i] ELSE @[i]]]
            ELSE UNCHANGED <<settledTo, recordedAs>>
    /\ UNCHANGED leaseOf

\* closeRange, one range after the other; it lands or rides out the lease.
CloseRange ==
    /\ runnerAt = "closing"
    /\ \E r \in prefetcher.items :
         /\ Surrender(r) \/ CommitPrefix(r) \/ UNCHANGED leaseVars
         /\ prefetcher' = [prefetcher EXCEPT !.items = @ \ {r}]
    /\ UNCHANGED <<rangeVars, buffer, dispatcher, handlers, runnerAt>>

RunnerReturns ==
    /\ runnerAt = "closing" /\ prefetcher.items = {}
    /\ runnerAt' = "closed"
    /\ UNCHANGED <<leaseVars, rangeVars, buffer, prefetcher, dispatcher, handlers>>

\* The lease expired and another worker reclaimed it under a new token.
LoseLease(r) ==
    /\ leaseOf[r] = "live"
    /\ leaseOf' = [leaseOf EXCEPT ![r] = "lost"]
    /\ UNCHANGED <<settledTo, recordedAs, rangeVars, buffer, prefetcher, dispatcher, handlers, runnerAt>>

-----------------------------------------------------------------------------
HandlerOutcome == {"success", "exception"}

HandlerStep(g) ==
    \/ LeaveStale(g) \/ \E kind \in HandlerOutcome : RunItem(g, kind)
    \/ LookupRange(g) \/ WriteResult(g) \/ CountResult(g)
    \/ CommitIfResolved(g) \/ CommitRangeOf(g)

ClaimBufferNext ==
    \/ WaitForRoom \/ ClaimNothing \/ EnQueue \/ StopPrefetch
    \/ \E r \in LocalRange : ClaimInto(r) \/ LoseLease(r)
    \/ AcquirePermit \/ Dispatch \/ StopDispatch
    \/ \E g \in handlers : HandlerStep(g)
    \/ CancelRunner \/ CloseOpenRanges \/ CloseRange \/ RunnerReturns

ClaimBufferSpec == ClaimBufferInit /\ [][ClaimBufferNext]_bufferVars

-----------------------------------------------------------------------------
(* Properties *)

\* What a commit covers, each message's handler resolved and is recorded as it
\* resolved it: neither a handler still between its result and its count nor a
\* straggler of shutdown lets a commit pass an unresolved message
\* (rangeState.resolve, contiguousResolved, claimBuffer.removeAll).
CoveredIsResolved ==
    \A r \in LocalRange : \A i \in Position(r) :
        i <= settledTo[r] => recordedAs[r][i] # "none" /\ recordedAs[r][i] = results[r][i]

\* Of the handlers that see a range fully resolved one commits it
\* (tryGetSnapshot), and a range given back at shutdown has not run.
OneCommitterPerRange ==
    \A r \in LocalRange :
        /\ Cardinality({g \in handlers : g.item[1] = r /\ g.pc = "commit"}) <= 1
        /\ leaseOf[r] = "surrendered" =>
             /\ results[r] = NoResults(r)
             /\ \A g \in handlers : g.item[1] # r

\* Prefetch never blocks with a freshly claimed range half added: the queue still
\* has the room that was there when the claim was sized (WaitForRoom, min(room,
\* BatchLimit)).  A reclaimed range is not sized by it and may block there.
AddedRangeFits ==
    prefetcher.pc = "adding" /\ (\E item \in prefetcher.items : item[1] \notin Expired)
        => Len(buffer) + Cardinality(prefetcher.items) <= QueueSize
=============================================================================
