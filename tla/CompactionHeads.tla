--------------------------- MODULE CompactionHeads ---------------------------
(***************************************************************************)
(* The compaction head of a key as a lock.                                 *)
(*                                                                         *)
(* LockHead makes sure the key has a head row, locks it until the caller's *)
(* transaction resolves and returns the head message; the caller decides   *)
(* on it and may append a message that takes the head.  Producers that do  *)
(* not lock first append to the same keys, and retention removes messages  *)
(* together with the head rows that point at them.                         *)
(***************************************************************************)
EXTENDS Integers, FiniteSets, FiniteSetsExt

CONSTANTS
    HeadKey,       \* message keys
    HeadTx,        \* producer transactions, one at a time each
    NoHeadTx,
    RankAt,        \* message id -> its (schema_version, compaction_rank)
    MaxHeadId      \* bound: messages produced

ASSUME HeadBounds ==
    /\ MaxHeadId \in Nat /\ \A i \in 1..MaxHeadId : RankAt[i] \in Nat
    /\ NoHeadTx \notin HeadTx

VARIABLES
    retained,     \* committed messages: [id, key]
    headRow,      \* key -> head message, EmptyRow, or NoHeadRow
    headLock,     \* key -> the transaction that holds the row lock
    headTx,       \* transaction -> its state
    nextHeadId,   \* the id sequence
    sweeping,     \* messages the sweep has deleted and not committed
    headSeen,     \* ghost: key -> the head last read since its head expired, 0 without
    appended      \* ghost: what LockHead returned and what the append replaced

headVars == <<retained, headRow, headLock, headTx, nextHeadId, sweeping, headSeen, appended>>

EmptyRow == 0
NoHeadRow == -1
NoHeadWork == [pc |-> "idle"]

\* (schema_version, compaction_rank, message_id), compared in that order
Outranks(i, j) == RankAt[i] > RankAt[j] \/ (RankAt[i] = RankAt[j] /\ i > j)

CompactionHeadsInit ==
    /\ retained = {}
    /\ headRow = [k \in HeadKey |-> NoHeadRow]
    /\ headLock = [k \in HeadKey |-> NoHeadTx]
    /\ headTx = [t \in HeadTx |-> NoHeadWork]
    /\ nextHeadId = 1
    /\ sweeping = {}
    /\ headSeen = [k \in HeadKey |-> 0]
    /\ appended = {}

BeginHeadTx(t, k, locks) ==
    /\ headTx[t] = NoHeadWork
    /\ headTx' = [headTx EXCEPT ![t] =
                    [pc |-> IF locks THEN "lock" ELSE "append", key |-> k, locks |-> locks,
                     read |-> 0, id |-> 0, row |-> NoHeadRow]]
    /\ UNCHANGED <<retained, headRow, headLock, nextHeadId, sweeping, headSeen, appended>>

\* Another transaction's lock is not waited for.
MayTakeLockAny(t, k) == TRUE

MayTakeLock(t, k) == headLock[k] \in {NoHeadTx, t}

HeadMessage(k) == IF headRow[k] > 0 THEN headRow[k] ELSE 0

\* ensureAndLockHead, then getHeadMessage
LockHeadRow(t) ==
    LET k == headTx[t].key IN
    /\ headTx[t].pc = "lock"
    /\ MayTakeLock(t, k)
    /\ headLock' = [headLock EXCEPT ![k] = t]
    /\ headTx' = [headTx EXCEPT ![t].pc = "append", ![t].read = HeadMessage(k),
                                ![t].row = IF headRow[k] = NoHeadRow THEN EmptyRow ELSE headRow[k]]
    /\ UNCHANGED <<retained, headRow, nextHeadId, sweeping, headSeen, appended>>

\* The insert draws its id before the upsert reaches the head row.
DrawHeadId(t) ==
    /\ headTx[t].pc = "append" /\ nextHeadId <= MaxHeadId
    /\ headTx' = [headTx EXCEPT ![t].pc = "upsert", ![t].id = nextHeadId]
    /\ nextHeadId' = nextHeadId + 1
    /\ UNCHANGED <<retained, headRow, headLock, sweeping, headSeen, appended>>

TakesHead(i, row) == row <= 0 \/ Outranks(i, row)

UpsertHead(t) ==
    LET k == headTx[t].key IN
    /\ headTx[t].pc = "upsert"
    /\ MayTakeLock(t, k)
    /\ headLock' = [headLock EXCEPT ![k] = t]
    /\ headTx' = [headTx EXCEPT ![t].pc = "commit",
                     ![t].row = IF TakesHead(headTx[t].id, headRow[k]) THEN headTx[t].id ELSE headRow[k]]
    /\ UNCHANGED <<retained, headRow, nextHeadId, sweeping, headSeen, appended>>

Unlocked(t) == [k \in HeadKey |-> IF headLock[k] = t THEN NoHeadTx ELSE headLock[k]]

\* A transaction commits after its append, or without one after LockHead.
CommitHeadTx(t) ==
    LET x == headTx[t] IN
    /\ x.pc = "commit" \/ (x.pc = "append" /\ x.locks)
    /\ headRow' = [headRow EXCEPT ![x.key] = x.row]
    /\ retained' = IF x.id = 0 THEN retained ELSE retained \union {[id |-> x.id, key |-> x.key]}
    /\ appended' = IF x.locks /\ x.row = x.id /\ x.id # 0
                   THEN appended \union {[read |-> x.read, replaced |-> HeadMessage(x.key)]}
                   ELSE appended
    /\ headLock' = Unlocked(t)
    /\ headTx' = [headTx EXCEPT ![t] = NoHeadWork]
    /\ UNCHANGED <<nextHeadId, sweeping, headSeen>>

RollbackHeadTx(t) ==
    /\ headTx[t] # NoHeadWork
    /\ headLock' = Unlocked(t)
    /\ headTx' = [headTx EXCEPT ![t] = NoHeadWork]
    /\ UNCHANGED <<retained, headRow, nextHeadId, sweeping, headSeen, appended>>

(* ------------------------------- retention ------------------------------ *)

SweepHeadMessage ==
    /\ sweeping = {} /\ retained # {}
    /\ sweeping' = {CHOOSE m \in retained : \A n \in retained : m.id <= n.id}
    /\ UNCHANGED <<retained, headRow, headLock, headTx, nextHeadId, headSeen, appended>>

\* The delete of the head row waits for its lock and looks at the row again.
CommitHeadSweep ==
    \E m \in sweeping :
        /\ headRow[m.key] = m.id => headLock[m.key] = NoHeadTx
        /\ headRow' = IF headRow[m.key] = m.id THEN [headRow EXCEPT ![m.key] = NoHeadRow] ELSE headRow
        /\ headSeen' = IF headRow[m.key] = m.id THEN [headSeen EXCEPT ![m.key] = 0] ELSE headSeen
        /\ retained' = retained \ {m}
        /\ sweeping' = {}
        /\ UNCHANGED <<headLock, headTx, nextHeadId, appended>>

\* SKIP LOCKED leaves a key in use alone.
SweepEmptyRow(k) ==
    /\ headRow[k] = EmptyRow /\ headLock[k] = NoHeadTx
    /\ headRow' = [headRow EXCEPT ![k] = NoHeadRow]
    /\ UNCHANGED <<retained, headLock, headTx, nextHeadId, sweeping, headSeen, appended>>

(* --------------------------------- reads -------------------------------- *)

\* The join of the head row and its message: no row when either is missing.
getHead(k) == IF [id |-> HeadMessage(k), key |-> k] \in retained THEN HeadMessage(k) ELSE 0

GetHead(k) ==
    /\ headSeen' = [headSeen EXCEPT ![k] = getHead(k)]
    /\ UNCHANGED <<retained, headRow, headLock, headTx, nextHeadId, sweeping, appended>>

ListHeads ==
    /\ headSeen' = [k \in HeadKey |-> getHead(k)]
    /\ UNCHANGED <<retained, headRow, headLock, headTx, nextHeadId, sweeping, appended>>

CompactionHeadsNext ==
    \/ \E t \in HeadTx :
          \/ \E k \in HeadKey, locks \in BOOLEAN : BeginHeadTx(t, k, locks)
          \/ LockHeadRow(t) \/ DrawHeadId(t) \/ UpsertHead(t)
          \/ CommitHeadTx(t) \/ RollbackHeadTx(t)
    \/ SweepHeadMessage \/ CommitHeadSweep
    \/ \E k \in HeadKey : SweepEmptyRow(k) \/ GetHead(k)
    \/ ListHeads

CompactionHeadsSpec == CompactionHeadsInit /\ [][CompactionHeadsNext]_headVars

-----------------------------------------------------------------------------
(***************************************************************************)
(* A transaction that locks a key's head, decides on it and appends        *)
(* replaces exactly the head it was shown: no producer, locking or not,    *)
(* gets between, and neither does the janitor.  And a reader that was      *)
(* shown a head is not shown a lower ranked one before the head expires,   *)
(* in whichever order ids were drawn and transactions committed.           *)
(***************************************************************************)
HeadsMoveForward ==
    /\ \A a \in appended : a.read = a.replaced
    /\ \A k \in HeadKey :
          headSeen[k] # 0 =>
             headRow[k] = headSeen[k] \/ (headRow[k] > 0 /\ Outranks(headRow[k], headSeen[k]))

=============================================================================
