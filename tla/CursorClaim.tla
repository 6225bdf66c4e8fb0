----------------------------- MODULE CursorClaim -----------------------------
(***************************************************************************)
(* The snapshot fence of a cursor consumer group: how the workers of one   *)
(* group advance consumer_group_cursor.claimed over a log whose ids commit *)
(* out of order (messageconsumer: claim.go, fresh_claim.go; group          *)
(* registration: group.go).                                                *)
(*                                                                         *)
(* A worker first reads the visible head and the cursor in one statement   *)
(* snapshot and then draws a transaction id, so every producer that could  *)
(* still commit an id at or below that head has a smaller transaction id.  *)
(* The claim statement takes its own snapshot, waits for the cursor row    *)
(* lock, and passes a head only when its snapshot's xmin has reached the   *)
(* transaction id paired with the head.                                    *)
(***************************************************************************)
EXTENDS MessageLog

CONSTANTS
    Worker,   \* the group's message consumer instances
    Limit     \* messages per claim (BatchLimit)

ASSUME ClaimBounds == Limit \in Nat \ {0}

VARIABLES
    registered,  \* the group's cursor row exists
    claimed,     \* consumer_group_cursor.claimed
    settledHead, \* consumer_group_cursor.settled_head
    pendingHead, \* consumer_group_cursor.pending_head
    pendingXid,  \* consumer_group_cursor.pending_xid, 0 = NULL
    phase,       \* where each worker is in claimMessagesWithCursor
    snapshot,    \* each worker's ClaimSnapshotRow
    xmin,        \* pg_snapshot_xmin of each worker's claim statement
    start,       \* history: the position the group was registered at
    handed,      \* history: message ids read by fresh claims
    ranges       \* history: ranges (low, high] that fresh claims leased

cursorVars == <<registered, claimed, settledHead, pendingHead, pendingXid>>
workerVars == <<phase, snapshot, xmin>>
historyVars == <<start, handed, ranges>>
vars == <<logVars, cursorVars, workerVars, historyVars>>

Range == [low : 0 .. MaxId, high : 0 .. MaxId]
Snapshot == [head : 0 .. MaxId, xid : 0 .. MaxXid, claimed : 0 .. MaxId]
NoSnapshot == [head |-> 0, xid |-> 0, claimed |-> 0]

-----------------------------------------------------------------------------
Init ==
    /\ LogInit
    /\ registered = FALSE
    /\ claimed = 0 /\ settledHead = 0 /\ pendingHead = 0 /\ pendingXid = 0
    /\ phase = [w \in Worker |-> "idle"]
    /\ snapshot = [w \in Worker |-> NoSnapshot]
    /\ xmin = [w \in Worker |-> 0]
    /\ start = 0 /\ handed = {} /\ ranges = {}

\* insertCursor at CursorPositionBeginning: the column defaults.
RegisterAtBeginning ==
    /\ ~registered
    /\ registered' = TRUE
    /\ UNCHANGED <<claimed, settledHead, pendingHead, pendingXid>>
    /\ UNCHANGED <<logVars, workerVars, historyVars>>

\* insertCursor at CursorPositionHead: the visible MAX(id) is taken as settled,
\* so an id below it that commits later is skipped.
RegisterAtHead(h) ==
    /\ ~registered
    /\ IsVisibleHead(h)
    /\ registered' = TRUE
    /\ claimed' = h /\ settledHead' = h /\ start' = h
    /\ UNCHANGED <<pendingHead, pendingXid>>
    /\ UNCHANGED <<logVars, workerVars, handed, ranges>>

\* readClaimSnapshot, up to the statement snapshot.  A poll that sees the head
\* it has already proven and claimed returns without changing anything.
ReadClaimSnapshot(w, h) ==
    /\ registered
    /\ phase[w] = "idle"
    /\ IsVisibleHead(h)
    /\ ~ (h = pendingHead /\ pendingHead = settledHead /\ claimed = settledHead)
    /\ phase' = [phase EXCEPT ![w] = "snapped"]
    /\ snapshot' = [snapshot EXCEPT ![w] = [head |-> h, xid |-> 0, claimed |-> claimed]]
    /\ UNCHANGED <<logVars, cursorVars, historyVars, xmin>>

\* Faulty variant: the observation takes the snapshot's xmax, which bounds only
\* the transactions that have ended, instead of a transaction id of its own.
ObserveXmax(w) ==
    /\ phase[w] = "snapped"
    /\ \E m \in Xid : IsXmax(m) /\ snapshot' = [snapshot EXCEPT ![w].xid = m]
    /\ phase' = [phase EXCEPT ![w] = "observed"]
    /\ UNCHANGED <<logVars, cursorVars, historyVars, xmin>>

\* readClaimSnapshot evaluates pg_current_xact_id(); the read then ends its own
\* transaction.
DrawObservationXid(w) ==
    /\ phase[w] = "snapped"
    /\ nextXid <= MaxXid
    /\ txn' = [txn EXCEPT ![nextXid] = "committed"]
    /\ nextXid' = nextXid + 1
    /\ snapshot' = [snapshot EXCEPT ![w].xid = nextXid]
    /\ phase' = [phase EXCEPT ![w] = "observed"]
    /\ UNCHANGED <<lastId, owner, cursorVars, historyVars, xmin>>

\* The claim statement starts: its snapshot is fixed before it waits for the
\* cursor row lock.
BeginFreshClaim(w, m) ==
    /\ phase[w] = "observed"
    /\ IsXmin(m)
    /\ xmin' = [xmin EXCEPT ![w] = m]
    /\ phase' = [phase EXCEPT ![w] = "claiming"]
    /\ UNCHANGED <<logVars, cursorVars, historyVars, snapshot>>

\* Faulty variants: a fence that trusts the fresh observation, or the stored pair.
TrustFreshPair(w) ==
    {settledHead, snapshot[w].head}
      \cup (IF xmin[w] >= pendingXid THEN {pendingHead} ELSE {})
TrustStoredPair(w) ==
    {settledHead, pendingHead}
      \cup (IF xmin[w] >= snapshot[w].xid THEN {snapshot[w].head} ELSE {})

\* The gate CTE: the highest head proven by the statement's xmin.
ProvenPairs(w) ==
    {settledHead}
      \cup (IF xmin[w] >= snapshot[w].xid THEN {snapshot[w].head} ELSE {})
      \cup (IF xmin[w] >= pendingXid THEN {pendingHead} ELSE {})

\* Faulty variant: old_values read without FOR UPDATE.
SnapshotLow(w) == snapshot[w].claimed

\* The lowest position a claim starts from: old_values reads the row it has
\* locked, so it is the cursor's current one.
ClaimLow(w) == claimed

\* LEAST(claimed + limit, gate.head)
ClaimHigh(gate) == Smaller(claimed + Limit, gate)

\* The claim statement gets the row lock and commits with the lease and the
\* rows of the range, read by a later statement of the same transaction.
FreshClaimMessagesWithCursor(w) ==
    /\ phase[w] = "claiming"
    /\ \E gate \in ProvenPairs(w) :
         /\ \A h \in ProvenPairs(w) : h <= gate
         /\ LET low  == ClaimLow(w)
                high == ClaimHigh(gate)
            IN  /\ claimed' = high
                /\ settledHead' = gate
                /\ handed' = handed \cup {i \in low + 1 .. high : Visible(i)}
                /\ ranges' = IF low = high THEN ranges
                             ELSE ranges \cup {[low |-> low, high |-> high]}
    /\ pendingHead' = Larger(pendingHead, snapshot[w].head)
    /\ pendingXid' = Larger(pendingXid, snapshot[w].xid)
    /\ phase' = [phase EXCEPT ![w] = "idle"]
    /\ snapshot' = [snapshot EXCEPT ![w] = NoSnapshot]
    /\ xmin' = [xmin EXCEPT ![w] = 0]
    /\ UNCHANGED <<logVars, registered, start>>

\* A worker dies or its statement fails before the claim commits; nothing is
\* left in the database.
AbandonClaim(w) ==
    /\ phase[w] # "idle"
    /\ phase' = [phase EXCEPT ![w] = "idle"]
    /\ snapshot' = [snapshot EXCEPT ![w] = NoSnapshot]
    /\ xmin' = [xmin EXCEPT ![w] = 0]
    /\ UNCHANGED <<logVars, cursorVars, historyVars>>

Claim(w) ==
    \/ \E h \in 0 .. MaxId : ReadClaimSnapshot(w, h)
    \/ DrawObservationXid(w)
    \/ \E m \in 1 .. MaxXid + 1 : BeginFreshClaim(w, m)
    \/ FreshClaimMessagesWithCursor(w)
    \/ AbandonClaim(w)

Next ==
    \/ Produce /\ UNCHANGED <<cursorVars, workerVars, historyVars>>
    \/ RegisterAtBeginning
    \/ \E h \in 0 .. MaxId : RegisterAtHead(h)
    \/ \E w \in Worker : Claim(w)

Spec == Init /\ [][Next]_vars

-----------------------------------------------------------------------------
TypeOK ==
    /\ LogTypeOK
    /\ registered \in BOOLEAN
    /\ claimed \in 0 .. MaxId
    /\ settledHead \in 0 .. MaxId
    /\ pendingHead \in 0 .. MaxId
    /\ pendingXid \in 0 .. MaxXid
    /\ phase \in [Worker -> {"idle", "snapped", "observed", "claiming"}]
    /\ snapshot \in [Worker -> Snapshot]
    /\ xmin \in [Worker -> 0 .. MaxXid + 1]
    /\ start \in 0 .. MaxId
    /\ handed \in SUBSET Id
    /\ ranges \in SUBSET Range

\* settled_head is the "highest id proven to have nothing uncommitted at or
\* below it": the gate never passes an id above the group's starting position
\* whose producer can still commit or abort, whatever observations, peers and
\* producers interleave.
SettledHeadIsSettled ==
    \A i \in start + 1 .. settledHead : Settled(i)

\* A fresh claim never skips a message: every row between the starting position
\* and claimed was read by the claim that passed it, so no producer commits an id
\* the cursor has already gone past.
NoMessageSkipped ==
    \A i \in start + 1 .. claimed : Visible(i) => i \in handed

\* Racing workers of one group never lease overlapping ranges, and their ranges
\* together cover everything from the starting position to claimed.
RangesPartitionClaimed ==
    /\ \A r, s \in ranges : r # s => r.high <= s.low \/ s.high <= r.low
    /\ \A i \in start + 1 .. claimed : \E r \in ranges : r.low < i /\ i <= r.high

-----------------------------------------------------------------------------
\* The fate of an id as the log decides it.
Fate(i) ==
    CASE ~Settled(i) -> "open"
      [] Settled(i) /\ Visible(i) -> "row"
      [] OTHER -> "gap"

Frontier == INSTANCE ClaimFrontier WITH
    LastId <- MaxId,
    fate <- [i \in Id |-> Fate(i)],
    frontier <- IF registered THEN claimed ELSE -1,
    handed <- handed

\* The fenced claim protocol implements the abstract frontier: each step of a
\* producer decides fates, and each claim that moves the cursor hands out exactly
\* the rows of a range whose fates are all decided.
ImplementsFrontier == Frontier!Spec
=============================================================================
