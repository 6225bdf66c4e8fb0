---------------------------- MODULE ClaimProofs ----------------------------
(***************************************************************************)
(* Proofs about CursorClaim and KeyLease, for every number of workers,     *)
(* transactions, ids, claims, messages of a key and faults, every batch    *)
(* limit, every rank and every choice of the compacted messages.           *)
(***************************************************************************)
EXTENDS CursorClaim, KeyLease, TLAPS

(***************************************************************************)
(* The cursor claim.                                                       *)
(*                                                                         *)
(* The safety invariants are not inductive: what the gate passes depends   *)
(* on pairs (head, xid) that were observed earlier, by this worker or by a *)
(* peer, and on the xmin of a statement snapshot that may be old when the  *)
(* row lock is granted.  IInv says what each of them guarantees:           *)
(*   - LogInv: a transaction id is unused until Postgres assigns it, and   *)
(*     an id of the log is drawn in order by an assigned transaction;      *)
(*   - Fenced(h, x): every id up to h was drawn by a transaction below x,  *)
(*     which stays true of an observed pair and of the GREATEST of two;    *)
(*   - below the xmin of a claim statement every transaction has ended;    *)
(*   - so a proven head has only decided ids at or below it (CursorInv).   *)
(***************************************************************************)

LogInv ==
    /\ \A x \in Xid : txn[x] = "unused" <=> x >= nextXid
    /\ \A i \in Id : owner[i] = 0 <=> i > lastId
    /\ \A i \in Id : owner[i] < nextXid

Fenced(h, x) ==
    /\ h <= lastId
    /\ x < nextXid
    /\ \A i \in Id : i <= h => owner[i] < x

WorkerInv ==
    /\ Fenced(pendingHead, pendingXid)
    /\ \A w \in Worker :
         /\ phase[w] # "idle" => registered
         /\ phase[w] = "snapped" => snapshot[w].head <= lastId
         /\ phase[w] \in {"observed", "claiming"} => Fenced(snapshot[w].head, snapshot[w].xid)
         /\ phase[w] = "claiming" => \A x \in Xid : x < xmin[w] => x \in Ended

CursorInv ==
    /\ ~registered => claimed = 0 /\ settledHead = 0
    /\ start <= claimed /\ claimed <= settledHead /\ settledHead <= lastId
    /\ \A r \in ranges : r.high <= claimed
    /\ SettledHeadIsSettled
    /\ NoMessageSkipped
    /\ RangesPartitionClaimed

IInv == TypeOK /\ LogInv /\ WorkerInv /\ CursorInv

-----------------------------------------------------------------------------
\* The initial states satisfy the invariant.
LEMMA InitInv == Init => IInv
  <1> SUFFICES ASSUME Init PROVE IInv
    OBVIOUS
  <1> USE LogBounds DEF Init, LogInit
  <1>1. TypeOK
    <2>1. LogTypeOK
      BY DEF LogTypeOK, TxnStatus, Xid, Id
    <2>2. NoSnapshot \in Snapshot
      BY DEF NoSnapshot, Snapshot
    <2>3. registered \in BOOLEAN
      OBVIOUS
    <2>4. phase \in [Worker -> {"idle", "snapped", "observed", "claiming"}]
      OBVIOUS
    <2>. QED BY <2>1, <2>2, <2>3, <2>4 DEF TypeOK
  <1>2. LogInv
    BY DEF LogInv, Xid, Id
  <1>3. WorkerInv
    BY DEF WorkerInv, Fenced, Id
  <1>4. CursorInv
    BY DEF CursorInv, SettledHeadIsSettled, NoMessageSkipped, RangesPartitionClaimed
  <1>. QED BY <1>1, <1>2, <1>3, <1>4 DEF IInv

\* A produce that only changes the log keeps the invariant when it leaves the
\* decided ids and the drawn ids alone.
LEMMA LogStep ==
  ASSUME IInv, LogTypeOK', LogInv',
         UNCHANGED <<cursorVars, workerVars, historyVars>>,
         lastId <= lastId', nextXid <= nextXid',
         \A i \in Id : owner[i] # 0 => owner'[i] = owner[i],
         \A x \in Ended : txn'[x] = txn[x]
  PROVE  IInv'
  <1> USE LogBounds DEF IInv, cursorVars, workerVars, historyVars
  <1>1. TypeOK'
    BY DEF TypeOK
  <1>2. \A h, x \in Nat : Fenced(h, x) => Fenced(h, x)'
    <2> SUFFICES ASSUME NEW h \in Nat, NEW x \in Nat, Fenced(h, x) PROVE Fenced(h, x)'
      OBVIOUS
    <2>1. h <= lastId' /\ x < nextXid'
      BY DEF TypeOK, LogTypeOK, Fenced
    <2>2. ASSUME NEW i \in Id, i <= h PROVE owner'[i] < x
      BY <2>2 DEF TypeOK, LogTypeOK, LogInv, Fenced, Id
    <2>. QED BY <2>1, <2>2 DEF Fenced
  <1>3. WorkerInv'
    <2>1. Fenced(pendingHead, pendingXid)'
      BY <1>2 DEF WorkerInv, TypeOK, Fenced
    <2>2. ASSUME NEW w \in Worker, phase[w] = "snapped" PROVE snapshot[w].head <= lastId'
      BY <2>2 DEF WorkerInv, TypeOK, LogTypeOK, Snapshot
    <2>3. ASSUME NEW w \in Worker, phase[w] \in {"observed", "claiming"}
          PROVE  Fenced(snapshot[w].head, snapshot[w].xid)'
      BY <1>2, <2>3 DEF WorkerInv, TypeOK, Snapshot, Fenced
    <2>4. ASSUME NEW w \in Worker, phase[w] = "claiming", NEW x \in Xid, x < xmin[w]
          PROVE  x \in Ended'
      BY <2>4 DEF WorkerInv, Ended
    <2>. QED BY <2>1, <2>2, <2>3, <2>4 DEF WorkerInv
  <1>4. ASSUME NEW i \in Id, Settled(i) 
        PROVE  Settled(i)' /\ (Visible(i)' => Visible(i))
    <2>1. owner[i] \in Xid /\ owner[i] \in Ended
      BY <1>4 DEF TypeOK, LogTypeOK, LogInv, Settled, Ended, Xid, TxnStatus
    <2>. QED BY <2>1, <1>4 DEF Settled, Visible, Ended
  <1>5. CursorInv'
    <2>1. \A i \in start + 1 .. settledHead : i \in Id /\ Settled(i)
      BY DEF CursorInv, SettledHeadIsSettled, TypeOK, Id
    <2>2. SettledHeadIsSettled'
      BY <2>1, <1>4 DEF SettledHeadIsSettled
    <2>3. NoMessageSkipped'
      <3>1. \A i \in start + 1 .. claimed : i \in start + 1 .. settledHead
        BY DEF CursorInv, TypeOK
      <3>. QED BY <3>1, <2>1, <1>4 DEF CursorInv, NoMessageSkipped
    <2>4. RangesPartitionClaimed'
      BY DEF CursorInv, RangesPartitionClaimed
    <2>. QED BY <2>2, <2>3, <2>4 DEF CursorInv, TypeOK, LogTypeOK
  <1>. QED BY <1>1, <1>3, <1>5

\* Assigning the next transaction id keeps the log consistent.
LEMMA AssignXid ==
  ASSUME IInv, nextXid <= MaxXid, NEW s \in {"running", "committed"},
         txn' = [txn EXCEPT ![nextXid] = s], nextXid' = nextXid + 1,
         UNCHANGED <<lastId, owner>>
  PROVE  /\ LogTypeOK' /\ LogInv'
         /\ \A x \in Ended : txn'[x] = txn[x]
  BY LogBounds DEF IInv, TypeOK, LogTypeOK, LogInv, TxnStatus, Xid, Id, Ended

\* Producers' steps keep the invariant.
LEMMA ProduceInv ==
  ASSUME IInv, Produce, UNCHANGED <<cursorVars, workerVars, historyVars>>
  PROVE  IInv'
  <1> USE LogBounds
  <1>1. CASE ClaimIdempotencyKey
    <2>1. nextXid <= nextXid' /\ lastId <= lastId'
      BY <1>1 DEF ClaimIdempotencyKey, IInv, TypeOK, LogTypeOK
    <2>2. LogTypeOK' /\ LogInv' /\ \A x \in Ended : txn'[x] = txn[x]
      BY <1>1, AssignXid DEF ClaimIdempotencyKey
    <2>. QED BY <1>1, <2>1, <2>2, LogStep DEF ClaimIdempotencyKey
  <1>2. ASSUME NEW x \in Xid, InsertMessage(x) PROVE IInv'
    <2>1. x < nextXid
      BY <1>2 DEF InsertMessage, IInv, TypeOK, LogTypeOK, LogInv, Xid
    <2>2. LogTypeOK' /\ LogInv'
      BY <1>2, <2>1 DEF InsertMessage, IInv, TypeOK, LogTypeOK, LogInv, Xid, Id
    <2>3. nextXid <= nextXid' /\ lastId <= lastId'
      BY <1>2 DEF InsertMessage, IInv, TypeOK, LogTypeOK
    <2>4. \A i \in Id : owner[i] # 0 => owner'[i] = owner[i]
      BY <1>2 DEF InsertMessage, IInv, TypeOK, LogTypeOK, LogInv, Id
    <2>. QED BY <1>2, <2>2, <2>3, <2>4, LogStep DEF InsertMessage
  <1>3. ASSUME NEW x \in Xid, CommitProduce(x) \/ AbortProduce(x) PROVE IInv'
    <2>1. LogTypeOK' /\ LogInv'
      BY <1>3 DEF CommitProduce, AbortProduce, IInv, TypeOK, LogTypeOK, LogInv, TxnStatus
    <2>2. nextXid <= nextXid' /\ lastId <= lastId'
      BY <1>3 DEF CommitProduce, AbortProduce, IInv, TypeOK, LogTypeOK
    <2>3. \A y \in Ended : txn'[y] = txn[y]
      BY <1>3 DEF CommitProduce, AbortProduce, IInv, TypeOK, LogTypeOK, Ended
    <2>. QED BY <1>3, <2>1, <2>2, <2>3, LogStep DEF CommitProduce, AbortProduce
  <1>. QED BY <1>1, <1>2, <1>3 DEF Produce

\* Registering the group, at the beginning or at the visible head, keeps the
\* invariant.
LEMMA RegisterInv ==
  ASSUME IInv, RegisterAtBeginning \/ \E h \in 0 .. MaxId : RegisterAtHead(h)
  PROVE  IInv'
  <1> USE LogBounds DEF logVars, workerVars, historyVars
  <1>1. CASE RegisterAtBeginning
    <2> USE <1>1 DEF RegisterAtBeginning, IInv
    <2>1. TypeOK'
      BY DEF TypeOK, LogTypeOK
    <2>2. LogInv'
      BY DEF LogInv
    <2>3. WorkerInv'
      BY DEF WorkerInv, Fenced, Ended
    <2>4. CursorInv'
      BY DEF CursorInv, SettledHeadIsSettled, NoMessageSkipped, RangesPartitionClaimed,
             Settled, Visible
    <2>. QED BY <2>1, <2>2, <2>3, <2>4
  <1>2. ASSUME NEW h \in 0 .. MaxId, RegisterAtHead(h) PROVE IInv'
    <2> USE <1>2 DEF RegisterAtHead, IInv
    <2>1. TypeOK'
      BY DEF TypeOK, LogTypeOK
    <2>2. LogInv'
      BY DEF LogInv
    <2>3. WorkerInv'
      BY DEF WorkerInv, Fenced, Ended
    <2>4. CursorInv'
      <3>1. h <= lastId
        BY DEF IsVisibleHead, Visible, LogInv, TypeOK, LogTypeOK, Id
      <3>2. \A r \in ranges : r.high <= h
        BY DEF CursorInv, TypeOK, Range
      <3>3. start' + 1 .. settledHead' = {} /\ start' + 1 .. claimed' = {}
        OBVIOUS
      <3>4. SettledHeadIsSettled' /\ NoMessageSkipped' /\ RangesPartitionClaimed'
        BY <3>3 DEF SettledHeadIsSettled, NoMessageSkipped, RangesPartitionClaimed, CursorInv
      <3>. QED BY <3>1, <3>2, <3>4 DEF CursorInv
    <2>. QED BY <2>1, <2>2, <2>3, <2>4
  <1>. QED BY <1>1, <1>2

\* CursorInv speaks of the cursor, the log and the history only.
LEMMA CursorFrame ==
  ASSUME CursorInv, UNCHANGED <<logVars, cursorVars, historyVars>>
  PROVE  CursorInv'
  BY DEF CursorInv, SettledHeadIsSettled, NoMessageSkipped, RangesPartitionClaimed,
         Settled, Visible, logVars, cursorVars, historyVars

\* Every transaction below the xmin of a snapshot has ended.
LEMMA BelowXmin ==
  ASSUME IInv, NEW m \in 1 .. MaxXid + 1, IsXmin(m), NEW x \in Xid, x < m
  PROVE  x \in Ended
  <1> USE LogBounds DEF Xid
  <1>1. x < nextXid
    <2>1. CASE m \in Running
      BY <2>1 DEF Running, IInv, LogInv, TypeOK, LogTypeOK
    <2>2. CASE IsXmax(m)
      <3>1. m - 1 \in Ended
        BY <2>2 DEF IsXmax
      <3>2. m - 1 < nextXid
        BY <3>1 DEF Ended, IInv, LogInv, TypeOK, LogTypeOK
      <3>. QED BY <3>2 DEF IInv, TypeOK, LogTypeOK
    <2>. QED BY <2>1, <2>2 DEF IsXmin
  <1>2. x \notin Running
    BY DEF IsXmin, Running
  <1>. QED BY <1>1, <1>2 DEF Running, Ended, IInv, LogInv, TypeOK, LogTypeOK, TxnStatus

\* The steps of a worker up to its claim, and giving up, keep the invariant.
LEMMA ObserveInv ==
  ASSUME IInv, NEW w \in Worker,
         \/ \E h \in 0 .. MaxId : ReadClaimSnapshot(w, h)
         \/ DrawObservationXid(w)
         \/ \E m \in 1 .. MaxXid + 1 : BeginFreshClaim(w, m)
         \/ AbandonClaim(w)
  PROVE  IInv'
  <1> USE LogBounds DEF logVars, cursorVars, historyVars
  <1>1. ASSUME NEW h \in 0 .. MaxId, ReadClaimSnapshot(w, h) PROVE IInv'
    <2> USE <1>1 DEF ReadClaimSnapshot, IInv
    <2>1. TypeOK'
      BY DEF TypeOK, LogTypeOK, Snapshot
    <2>2. LogInv'
      BY DEF LogInv
    <2>3. h <= lastId
      BY DEF IsVisibleHead, Visible, LogInv, TypeOK, LogTypeOK, Id
    <2>4. WorkerInv'
      BY <2>3 DEF WorkerInv, Fenced, Ended, TypeOK
    <2>. QED BY <2>1, <2>2, <2>4, CursorFrame
  <1>2. CASE DrawObservationXid(w)
    <2> USE <1>2 DEF DrawObservationXid, IInv
    <2>1. LogTypeOK' /\ LogInv' /\ \A x \in Ended : txn'[x] = txn[x]
      BY AssignXid
    <2>2. TypeOK'
      BY <2>1 DEF TypeOK, LogTypeOK, Snapshot
    <2>3. WorkerInv'
      <3>1. Fenced(pendingHead, pendingXid)'
        BY DEF WorkerInv, Fenced, TypeOK, LogTypeOK
      <3>2. Fenced(snapshot[w].head, snapshot[w].xid)'
        BY DEF WorkerInv, Fenced, TypeOK, LogTypeOK, LogInv, Snapshot
      <3>3. ASSUME NEW v \in Worker, v # w, phase[v] \in {"observed", "claiming"}
            PROVE  Fenced(snapshot[v].head, snapshot[v].xid)'
        BY <3>3 DEF WorkerInv, Fenced, TypeOK, LogTypeOK, Snapshot
      <3>4. \A x \in Ended : x \in Ended'
        BY <2>1 DEF Ended
      <3>. QED BY <3>1, <3>2, <3>3, <3>4 DEF WorkerInv, TypeOK
    <2>4. CursorInv'
      <3>1. ASSUME NEW i \in Id
            PROVE  (Settled(i) => Settled(i)') /\ Visible(i)' = Visible(i)
        <4>1. owner[i] # nextXid
          BY DEF LogInv, TypeOK, LogTypeOK
        <4>. QED BY <4>1 DEF Settled, Visible, TypeOK, LogTypeOK, Xid
      <3>2. \A i \in start + 1 .. settledHead : i \in Id
        BY DEF TypeOK, Id
      <3>3. \A i \in start + 1 .. claimed : i \in Id
        BY DEF TypeOK, Id
      <3>. QED BY <3>1, <3>2, <3>3
            DEF CursorInv, SettledHeadIsSettled, NoMessageSkipped, RangesPartitionClaimed
    <2>. QED BY <2>1, <2>2, <2>3, <2>4
  <1>3. ASSUME NEW m \in 1 .. MaxXid + 1, BeginFreshClaim(w, m) PROVE IInv'
    <2> USE <1>3 DEF BeginFreshClaim
    <2>1. TypeOK'
      BY DEF IInv, TypeOK, LogTypeOK
    <2>2. LogInv'
      BY DEF IInv, LogInv
    <2>3. \A x \in Xid : x < m => x \in Ended
      BY BelowXmin
    <2>4. WorkerInv'
      BY <2>3 DEF IInv, WorkerInv, Fenced, Ended, TypeOK
    <2>. QED BY <2>1, <2>2, <2>4, CursorFrame DEF IInv
  <1>4. CASE AbandonClaim(w)
    <2> USE <1>4 DEF AbandonClaim, IInv
    <2>1. TypeOK'
      BY DEF TypeOK, LogTypeOK, Snapshot, NoSnapshot
    <2>2. LogInv'
      BY DEF LogInv
    <2>3. WorkerInv'
      BY DEF WorkerInv, Fenced, Ended, TypeOK
    <2>. QED BY <2>1, <2>2, <2>3, CursorFrame
  <1>. QED BY <1>1, <1>2, <1>3, <1>4

\* What a claim does to the cursor: the gate only passes ids that are decided,
\* the claimed position stays below it, and the rows in between are handed out.
LEMMA ClaimFacts ==
  ASSUME IInv, NEW w \in Worker, FreshClaimMessagesWithCursor(w)
  PROVE  /\ settledHead' \in settledHead .. lastId
         /\ claimed' \in claimed .. settledHead'
         /\ \A i \in start + 1 .. settledHead' : Settled(i)
         /\ handed' = handed \cup {i \in claimed + 1 .. claimed' : Visible(i)}
         /\ ranges' = IF claimed = claimed' THEN ranges
                      ELSE ranges \cup {[low |-> claimed, high |-> claimed']}
  <1> USE LogBounds, ClaimBounds DEF IInv
  <1>1. PICK gate \in ProvenPairs(w) :
          /\ \A h \in ProvenPairs(w) : h <= gate
          /\ claimed' = Smaller(claimed + Limit, gate)
          /\ settledHead' = gate
          /\ handed' = handed \cup {i \in claimed + 1 .. claimed' : Visible(i)}
          /\ ranges' = IF claimed = claimed' THEN ranges
                       ELSE ranges \cup {[low |-> claimed, high |-> claimed']}
    BY DEF FreshClaimMessagesWithCursor, ClaimLow, ClaimHigh
  <1>2. ASSUME NEW h \in 0 .. MaxId, NEW x \in 0 .. MaxXid, Fenced(h, x), xmin[w] >= x,
               NEW i \in Id, i <= h
        PROVE  Settled(i)
    <2>1. owner[i] \in Xid /\ owner[i] < xmin[w]
      BY <1>2 DEF Fenced, LogInv, TypeOK, LogTypeOK, Id, Xid
    <2>2. owner[i] \in Ended
      BY <2>1 DEF FreshClaimMessagesWithCursor, WorkerInv
    <2>. QED BY <2>1, <2>2 DEF Settled, Ended, Xid
  <1>3. Fenced(snapshot[w].head, snapshot[w].xid) /\ Fenced(pendingHead, pendingXid)
    BY DEF FreshClaimMessagesWithCursor, WorkerInv
  <1>4. /\ snapshot[w].head \in 0 .. MaxId /\ snapshot[w].xid \in 0 .. MaxXid
        /\ pendingHead \in 0 .. MaxId /\ pendingXid \in 0 .. MaxXid
    BY DEF TypeOK, Snapshot
  <1>5. gate \in settledHead .. lastId
    BY <1>1, <1>3, <1>4 DEF ProvenPairs, Fenced, CursorInv, TypeOK, LogTypeOK
  <1>6. ASSUME NEW i \in start + 1 .. gate PROVE Settled(i)
    <2>1. i \in Id /\ i <= gate
      BY <1>5 DEF TypeOK, LogTypeOK, Id
    <2>2. CASE gate = settledHead
      BY <2>2 DEF CursorInv, SettledHeadIsSettled
    <2>3. CASE gate = snapshot[w].head /\ xmin[w] >= snapshot[w].xid
      BY <2>1, <2>3, <1>2, <1>3, <1>4
    <2>4. CASE gate = pendingHead /\ xmin[w] >= pendingXid
      BY <2>1, <2>4, <1>2, <1>3, <1>4
    <2>. QED BY <1>1, <2>2, <2>3, <2>4 DEF ProvenPairs
  <1>7. claimed' \in claimed .. gate
    BY <1>1, <1>5 DEF Smaller, CursorInv, TypeOK, LogTypeOK
  <1>. QED BY <1>1, <1>5, <1>6, <1>7

\* A fresh claim keeps the invariant.
LEMMA FreshClaimInv ==
  ASSUME IInv, NEW w \in Worker, FreshClaimMessagesWithCursor(w)
  PROVE  IInv'
  <1> USE LogBounds DEF logVars
  <1>1. /\ phase' = [phase EXCEPT ![w] = "idle"]
        /\ snapshot' = [snapshot EXCEPT ![w] = NoSnapshot]
        /\ xmin' = [xmin EXCEPT ![w] = 0]
        /\ UNCHANGED <<nextXid, txn, lastId, owner, registered, start>>
    BY DEF FreshClaimMessagesWithCursor
  <1>2. /\ phase[w] = "claiming"
        /\ pendingHead' = Larger(pendingHead, snapshot[w].head)
        /\ pendingXid' = Larger(pendingXid, snapshot[w].xid)
    BY DEF FreshClaimMessagesWithCursor
  <1>3. /\ settledHead' \in settledHead .. lastId
        /\ claimed' \in claimed .. settledHead'
        /\ \A i \in start + 1 .. settledHead' : Settled(i)
        /\ handed' = handed \cup {i \in claimed + 1 .. claimed' : Visible(i)}
        /\ ranges' = IF claimed = claimed' THEN ranges
                     ELSE ranges \cup {[low |-> claimed, high |-> claimed']}
    BY ClaimFacts
  <1> USE DEF IInv
  <1>4. TypeOK'
    <2>1. pendingHead' \in 0 .. MaxId /\ pendingXid' \in 0 .. MaxXid
      BY <1>2 DEF TypeOK, Snapshot, Larger
    <2>2. claimed' \in 0 .. MaxId /\ settledHead' \in 0 .. MaxId
      BY <1>3 DEF TypeOK, LogTypeOK
    <2>3. handed' \in SUBSET Id
      <3>1. claimed + 1 .. claimed' \subseteq Id
        BY <2>2 DEF TypeOK, Id
      <3>. QED BY <3>1, <1>3 DEF TypeOK
    <2>4. ranges' \in SUBSET Range
      <3>1. [low |-> claimed, high |-> claimed'] \in Range
        BY <2>2 DEF TypeOK, Range
      <3>. QED BY <3>1, <1>3 DEF TypeOK
    <2>5. snapshot' \in [Worker -> Snapshot]
      BY <1>1 DEF TypeOK, Snapshot, NoSnapshot
    <2>. QED BY <1>1, <2>1, <2>2, <2>3, <2>4, <2>5 DEF TypeOK, LogTypeOK
  <1>5. LogInv'
    BY <1>1 DEF LogInv
  <1>6. WorkerInv'
    <2>1. Fenced(pendingHead, pendingXid)'
      BY <1>1, <1>2 DEF WorkerInv, Fenced, Larger, TypeOK, LogTypeOK, Snapshot, Id
    <2>. QED BY <1>1, <2>1 DEF WorkerInv, Fenced, Ended, TypeOK
  <1>7. CursorInv'
    <2>1. registered
      BY <1>2 DEF WorkerInv
    <2>2. start <= claimed' /\ claimed' <= settledHead' /\ settledHead' <= lastId
      BY <1>3 DEF CursorInv, TypeOK, LogTypeOK
    <2>3. \A r \in ranges' : r.high <= claimed'
      BY <1>3 DEF CursorInv, TypeOK, Range
    <2>4. SettledHeadIsSettled'
      BY <1>1, <1>3 DEF SettledHeadIsSettled, Settled
    <2>5. NoMessageSkipped'
      <3>1. \A i \in start + 1 .. claimed' : i \in start + 1 .. claimed \/ i \in claimed + 1 .. claimed'
        BY <1>3 DEF TypeOK
      <3>. QED BY <3>1, <1>1, <1>3 DEF NoMessageSkipped, CursorInv, Visible
    <2>6. RangesPartitionClaimed'
      <3>1. CASE claimed' = claimed
        BY <3>1, <1>1, <1>3 DEF RangesPartitionClaimed, CursorInv
      <3>2. CASE claimed' # claimed
        <4> DEFINE new == [low |-> claimed, high |-> claimed']
        <4>1. ranges' = ranges \cup {new} /\ new.low = claimed /\ new.high = claimed'
          BY <3>2, <1>3
        <4>2. \A r \in ranges : r.high <= new.low
          BY <4>1 DEF CursorInv
        <4> HIDE DEF new
        <4>3. ASSUME NEW r \in ranges', NEW s \in ranges', r # s
              PROVE  r.high <= s.low \/ s.high <= r.low
          BY <4>1, <4>2, <4>3 DEF RangesPartitionClaimed, CursorInv
        <4>4. ASSUME NEW i \in start + 1 .. claimed'
              PROVE  \E r \in ranges' : r.low < i /\ i <= r.high
          <5>1. CASE i <= claimed
            <6>1. i \in start + 1 .. claimed
              BY <5>1, <2>2, <1>3 DEF TypeOK
            <6>. QED BY <6>1, <4>1 DEF RangesPartitionClaimed, CursorInv
          <5>2. CASE i > claimed
            BY <5>2, <4>1
          <5>. QED BY <5>1, <5>2, <1>3 DEF TypeOK
        <4>. QED BY <4>3, <4>4, <1>1 DEF RangesPartitionClaimed
      <3>. QED BY <3>1, <3>2
    <2>. QED BY <1>1, <2>1, <2>2, <2>3, <2>4, <2>5, <2>6 DEF CursorInv
  <1>. QED BY <1>4, <1>5, <1>6, <1>7

-----------------------------------------------------------------------------
\* A step that changes nothing keeps the invariant.
LEMMA StutterInv == ASSUME IInv, UNCHANGED vars PROVE IInv'
  <1> USE DEF vars, logVars, cursorVars, workerVars, historyVars, IInv
  <1>1. TypeOK'
    BY DEF TypeOK, LogTypeOK
  <1>2. LogInv'
    BY DEF LogInv
  <1>3. WorkerInv'
    BY DEF WorkerInv, Fenced, Ended
  <1>. QED BY <1>1, <1>2, <1>3, CursorFrame

\* The invariant holds in every reachable state.
THEOREM InductiveInvariant == Spec => []IInv
  <1>1. Init => IInv
    BY InitInv
  <1>2. IInv /\ [Next]_vars => IInv'
    <2> SUFFICES ASSUME IInv, [Next]_vars PROVE IInv'
      OBVIOUS
    <2>1. CASE Produce /\ UNCHANGED <<cursorVars, workerVars, historyVars>>
      BY <2>1, ProduceInv
    <2>2. CASE RegisterAtBeginning \/ \E h \in 0 .. MaxId : RegisterAtHead(h)
      BY <2>2, RegisterInv
    <2>3. ASSUME NEW w \in Worker, Claim(w) PROVE IInv'
      BY <2>3, ObserveInv, FreshClaimInv DEF Claim
    <2>4. CASE UNCHANGED vars
      BY <2>4, StutterInv
    <2>. QED BY <2>1, <2>2, <2>3, <2>4 DEF Next
  <1>. QED BY <1>1, <1>2, PTL DEF Spec

\* Every variable keeps its type: in particular the claimed position and the
\* heads never leave the ids of the log, whatever batch limit is configured.
THEOREM TypeCorrect == Spec => []TypeOK
  BY InductiveInvariant, PTL DEF IInv

\* The gate never passes an id whose producer can still commit or abort
\* (fresh_claim.go, gate CTE).
THEOREM GateIsSafe == Spec => []SettledHeadIsSettled
  BY InductiveInvariant, PTL DEF IInv, CursorInv

\* No message above the starting position is skipped by the claims, whatever the
\* order in which producers commit.
THEOREM NoSkip == Spec => []NoMessageSkipped
  BY InductiveInvariant, PTL DEF IInv, CursorInv

\* Racing workers partition the claimed part of the log (FOR UPDATE in
\* old_values).
THEOREM Partition == Spec => []RangesPartitionClaimed
  BY InductiveInvariant, PTL DEF IInv, CursorInv

-----------------------------------------------------------------------------
\* The values of Fate, one by one.
LEMMA FateValue ==
  ASSUME NEW i \in Id
  PROVE  /\ ~Settled(i) => Fate(i) = "open"
         /\ Settled(i) /\ Visible(i) => Fate(i) = "row"
         /\ Settled(i) /\ ~Visible(i) => Fate(i) = "gap"
  BY DEF Fate

\* The fate of an id is decided at most once, by any step that leaves the
\* transactions that ended and the ids that were drawn alone.
LEMMA FateDecided ==
  ASSUME IInv,
         \A i \in Id : owner[i] # 0 => owner'[i] = owner[i],
         \A x \in Ended : txn'[x] = txn[x]
  PROVE  \A i \in Id : Fate(i) # "open" => Fate(i)' = Fate(i)
  <1> SUFFICES ASSUME NEW i \in Id, Fate(i) # "open" PROVE Fate(i)' = Fate(i)
    OBVIOUS
  <1>1. Settled(i)
    BY FateValue
  <1>2. owner[i] \in Ended
    BY <1>1 DEF IInv, TypeOK, LogTypeOK, LogInv, Settled, Ended, Xid, TxnStatus
  <1>3. Settled(i)' = Settled(i) /\ Visible(i)' = Visible(i)
    BY <1>1, <1>2 DEF Settled, Visible, Ended
  <1>. QED BY <1>3 DEF Fate

\* A step of a producer, or of an observation, decides fates and nothing else.
LEMMA LogRefines ==
  ASSUME IInv,
         \A i \in Id : owner[i] # 0 => owner'[i] = owner[i],
         \A x \in Ended : txn'[x] = txn[x],
         UNCHANGED <<registered, claimed, handed>>
  PROVE  [Frontier!Next]_Frontier!vars
  <1>1. \A i \in Id : Fate(i)' \in {"open", "row", "gap"}
    BY DEF Fate
  <1>2. \A i \in Id : Fate(i) # "open" => Fate(i)' = Fate(i)
    BY FateDecided
  <1>3. Frontier!Decide
    BY <1>1, <1>2 DEF Frontier!Decide, Frontier!Ids, Id
  <1>. QED BY <1>3 DEF Frontier!Next

\* The fenced claim implements the abstract frontier: steps of producers and of
\* observers decide fates, registration places the frontier, and a claim advances
\* it over decided ids only, handing out exactly the rows it passes.
THEOREM Refinement == Spec => ImplementsFrontier
  <1> USE LogBounds
  <1>1. Init => Frontier!Init
    <2> SUFFICES ASSUME Init PROVE Frontier!Init
      OBVIOUS
    <2>1. \A i \in Id : Fate(i) = "open"
      BY FateValue DEF Init, LogInit, Settled
    <2>. QED BY <2>1 DEF Init, Frontier!Init, Frontier!Ids, Id
  <1>2. IInv /\ [Next]_vars => [Frontier!Next]_Frontier!vars
    <2> SUFFICES ASSUME IInv, [Next]_vars PROVE [Frontier!Next]_Frontier!vars
      OBVIOUS
    <2>1. ASSUME UNCHANGED <<logVars, registered, claimed, handed>>
          PROVE  [Frontier!Next]_Frontier!vars
      BY <2>1, LogRefines DEF logVars
    <2>2. CASE Produce /\ UNCHANGED <<cursorVars, workerVars, historyVars>>
      <3>1. \A i \in Id : owner[i] # 0 => owner'[i] = owner[i]
        BY <2>2 DEF Produce, ClaimIdempotencyKey, InsertMessage, CommitProduce, AbortProduce,
                    IInv, TypeOK, LogTypeOK, LogInv, Id
      <3>2. \A x \in Ended : txn'[x] = txn[x]
        BY <2>2 DEF Produce, ClaimIdempotencyKey, InsertMessage, CommitProduce, AbortProduce,
                    IInv, TypeOK, LogTypeOK, LogInv, Ended, Xid
      <3>. QED BY <2>2, <3>1, <3>2, LogRefines DEF cursorVars, historyVars
    <2>3. CASE RegisterAtBeginning \/ \E h \in 0 .. MaxId : RegisterAtHead(h)
      <3>1. /\ ~registered /\ registered' /\ claimed' \in 0 .. MaxId
            /\ UNCHANGED <<txn, owner, handed>>
        BY <2>3 DEF RegisterAtBeginning, RegisterAtHead, IInv, TypeOK, logVars, historyVars
      <3>2. Frontier!Register
        BY <3>1 DEF Frontier!Register, Fate, Settled, Visible
      <3>. QED BY <3>2 DEF Frontier!Next
    <2>4. ASSUME NEW w \in Worker, DrawObservationXid(w) PROVE [Frontier!Next]_Frontier!vars
      <3>1. \A x \in Ended : txn'[x] = txn[x]
        BY <2>4, AssignXid DEF DrawObservationXid
      <3>. QED BY <2>4, <3>1, LogRefines DEF DrawObservationXid, cursorVars, historyVars
    <2>5. ASSUME NEW w \in Worker, FreshClaimMessagesWithCursor(w)
          PROVE  [Frontier!Next]_Frontier!vars
      <3>1. /\ settledHead' \in settledHead .. lastId
            /\ claimed' \in claimed .. settledHead'
            /\ \A i \in start + 1 .. settledHead' : Settled(i)
            /\ handed' = handed \cup {i \in claimed + 1 .. claimed' : Visible(i)}
        BY <2>5, ClaimFacts
      <3>2. UNCHANGED <<logVars, registered>> /\ registered
        BY <2>5 DEF FreshClaimMessagesWithCursor, IInv, WorkerInv
      <3>3. CASE claimed' = claimed
        <4>1. handed' = handed
          BY <3>1, <3>3 DEF IInv, TypeOK
        <4>. QED BY <2>1, <3>2, <3>3, <4>1
      <3>4. CASE claimed' # claimed
        <4>1. claimed' \in claimed + 1 .. MaxId
          BY <3>1, <3>4 DEF IInv, TypeOK, LogTypeOK
        <4>2. \A i \in claimed + 1 .. claimed' : i \in Id /\ Settled(i)
          BY <3>1, <4>1 DEF IInv, CursorInv, TypeOK, LogTypeOK, Id
        <4>3. \A i \in claimed + 1 .. claimed' :
                Fate(i) # "open" /\ (Fate(i) = "row" <=> Visible(i))
          BY <4>2, FateValue
        <4>4. \A i \in Id : Fate(i)' = Fate(i)
          BY <3>2 DEF logVars, Fate, Settled, Visible
        <4>5. Frontier!Advance
          BY <3>1, <3>2, <4>1, <4>2, <4>3, <4>4 DEF Frontier!Advance, IInv, TypeOK
        <4>. QED BY <4>5 DEF Frontier!Next
      <3>. QED BY <3>3, <3>4
    <2>6. ASSUME NEW w \in Worker, Claim(w) PROVE [Frontier!Next]_Frontier!vars
      BY <2>1, <2>4, <2>5, <2>6
         DEF Claim, ReadClaimSnapshot, BeginFreshClaim, AbandonClaim, cursorVars, historyVars
    <2>7. CASE UNCHANGED vars
      BY <2>1, <2>7 DEF vars, cursorVars, historyVars
    <2>. QED BY <2>2, <2>3, <2>6, <2>7 DEF Next
  <1>. QED BY <1>1, <1>2, InductiveInvariant, PTL DEF Spec, ImplementsFrontier, Frontier!Spec

-----------------------------------------------------------------------------
(***************************************************************************)
(* The lease of a message key.                                             *)
(*                                                                         *)
(* The head row is the newest compacted message of the log (HeadInv), and  *)
(* a claim whose snapshot saw another head had seen a newer one (ClaimInv),*)
(* which a later publish cannot take away.  An unexpired run is the one    *)
(* the lease row names (HolderInv), as long as the janitor's DELETE, which *)
(* does not look at the expiry again, has not removed an unexpired row.    *)
(***************************************************************************)

HeadInv ==
    /\ head # 0 => head \in log
    /\ \A j \in log \cap Compacted : head # 0 /\ ~Newer(j, head)

\* A newer compacted message is in the log.
Outdated(i) == \E j \in log \cap Compacted : Newer(j, i)

ClaimInv ==
    \A t \in Token :
        /\ claim[t].phase # "idle" => claim[t].msg \in log
        /\ claim[t].phase \in {"ambiguous", "running"} => claim[t].msg \in acquired
        /\ claim[t].phase = "claiming" /\ ~claim[t].isHead => Outdated(claim[t].msg)

KeyIInv == KeyLeaseTypeOK /\ HeadInv /\ ClaimInv /\ NewestNeverSkipped

\* A run whose lease has not expired.
Unexpired(t) == claim[t].phase = "running" /\ ~claim[t].expired

\* Unless a sweep has deleted its row, such a run holds an unexpired row.
HolderInv == stolen \/ \A t \in Token : Unexpired(t) => lease.token = t /\ ~lease.expired

-----------------------------------------------------------------------------
\* The order of (schema_version, compaction_rank, message_id) is total.
LEMMA NewerTotal ==
  ASSUME NEW i \in KeyedId, NEW j \in KeyedId, i # j, ~Newer(i, j)
  PROVE  Newer(j, i)
  BY KeyBounds DEF Newer, KeyedId

\* What is not newer than h is not newer than what is newer than h.
LEMMA NewerChain ==
  ASSUME NEW h \in KeyedId, NEW i \in KeyedId, NEW j \in KeyedId, ~Newer(j, h), Newer(i, h)
  PROVE  ~Newer(j, i)
  BY KeyBounds DEF Newer, KeyedId

\* No message is newer than itself.
LEMMA NewerIrreflexive ==
  ASSUME NEW i \in KeyedId
  PROVE  ~Newer(i, i)
  BY KeyBounds DEF Newer, KeyedId

\* A compacted message of the log that is not the head is outdated.
LEMMA NotHeadIsOutdated ==
  ASSUME KeyLeaseTypeOK, HeadInv, NEW i \in log, ~(i \in Compacted => head = i)
  PROVE  Outdated(i)
  <1>1. head \in log \cap Compacted /\ head # i /\ ~Newer(i, head)
    BY DEF KeyLeaseTypeOK, HeadInv
  <1>2. head \in KeyedId /\ i \in KeyedId
    BY <1>1 DEF KeyLeaseTypeOK
  <1>. QED BY <1>1, <1>2, NewerTotal DEF Outdated

-----------------------------------------------------------------------------
\* The initial states satisfy the invariant.
LEMMA KeyInitInv == KeyLeaseInit => KeyIInv
  <1> SUFFICES ASSUME KeyLeaseInit PROVE KeyIInv
    OBVIOUS
  <1>1. NoClaim \in [phase : {"idle", "claiming", "ambiguous", "running"},
                     msg : 0 .. MaxKeyedId, isHead : BOOLEAN, expired : BOOLEAN]
    BY KeyBounds DEF NoClaim
  <1>2. NoLease \in [token : Token \cup {NoToken}, expired : BOOLEAN]
    BY DEF NoLease
  <1>3. 0 \in 0 .. MaxFaults /\ 0 \in 0 .. MaxSweeps
    BY KeyBounds
  <1>4. picked \in BOOLEAN /\ stolen \in BOOLEAN
    BY Zenon DEF KeyLeaseInit
  <1>5. KeyLeaseTypeOK
    BY <1>1, <1>2, <1>3, <1>4 DEF KeyLeaseInit, KeyLeaseTypeOK
  <1>. QED BY <1>5 DEF KeyLeaseInit, KeyIInv, HeadInv, ClaimInv, NewestNeverSkipped, NoClaim

\* A step that leaves the log and the head alone and moves no claim into a state
\* that asks for more keeps the parts of the invariant about them.
LEMMA SameLog ==
  ASSUME KeyIInv, KeyLeaseTypeOK', UNCHANGED <<log, head>>,
         \A t \in Token :
            /\ claim'[t].phase # "idle" => claim'[t].msg \in log
            /\ claim'[t].phase \in {"ambiguous", "running"} => claim'[t].msg \in acquired'
            /\ claim'[t].phase = "claiming" /\ ~claim'[t].isHead => Outdated(claim'[t].msg),
         \A i \in superseded' \ superseded : Outdated(i)
  PROVE  KeyIInv'
  <1>1. HeadInv'
    BY DEF KeyIInv, HeadInv
  <1>2. ClaimInv'
    BY DEF ClaimInv, Outdated
  <1>3. NewestNeverSkipped'
    BY DEF KeyIInv, NewestNeverSkipped, Outdated
  <1>. QED BY <1>1, <1>2, <1>3 DEF KeyIInv

\* The type of a claim record, used to type every update of claim.
ClaimRecord == [phase : {"idle", "claiming", "ambiguous", "running"},
                msg : 0 .. MaxKeyedId, isHead : BOOLEAN, expired : BOOLEAN]

\* Every step preserves the invariant.
LEMMA StepInv == KeyIInv /\ [KeyLeaseNext]_keyLeaseVars => KeyIInv'
  <1> SUFFICES ASSUME KeyIInv, [KeyLeaseNext]_keyLeaseVars PROVE KeyIInv'
    OBVIOUS
  <1> USE KeyBounds
  <1>n. NoClaim \in ClaimRecord /\ NoClaim.phase = "idle"
    BY DEF NoClaim, ClaimRecord
  <1>c. claim \in [Token -> ClaimRecord]
    BY DEF KeyIInv, KeyLeaseTypeOK, ClaimRecord
  <1>t. ASSUME claim' \in [Token -> ClaimRecord],
               log' \subseteq KeyedId, head' \in {0} \cup Compacted,
               lease' \in [token : Token \cup {NoToken}, expired : BOOLEAN],
               picked' \in BOOLEAN, stolen' \in BOOLEAN,
               acquired' \subseteq log', ran' \subseteq acquired', superseded' \subseteq log',
               faults' \in 0 .. MaxFaults, sweeps' \in 0 .. MaxSweeps
        PROVE  KeyLeaseTypeOK'
    BY <1>t DEF KeyLeaseTypeOK, ClaimRecord
  <1>1. ASSUME NEW i \in KeyedId, Publish(i) PROVE KeyIInv'
    <2>1. /\ log' = log \cup {i} /\ head' = Latest(i)
          /\ UNCHANGED <<lease, claim, picked, keyHistoryVars, boundVars>>
      BY <1>1 DEF Publish
    <2>2. KeyLeaseTypeOK'
      BY <2>1 DEF KeyIInv, KeyLeaseTypeOK, Latest, keyHistoryVars, boundVars
    <2>3. HeadInv'
      <3>1. head' # 0 => head' \in log'
        BY <2>1 DEF KeyIInv, HeadInv, Latest
      <3>2. ASSUME NEW j \in log' \cap Compacted PROVE head' # 0 /\ ~Newer(j, head')
        <4>0. i \in KeyedId /\ j \in KeyedId /\ 0 \notin KeyedId
          BY <2>1, <3>2 DEF KeyIInv, KeyLeaseTypeOK, KeyedId
        <4>1. CASE head' = i
          <5>1. CASE j = i
            BY <4>0, <4>1, <5>1, NewerIrreflexive
          <5>2. CASE j \in log /\ i # head
            <6>1. head # 0 /\ ~Newer(j, head) /\ Newer(i, head)
              BY <2>1, <3>2, <4>1, <5>2, <4>0 DEF KeyIInv, HeadInv, Latest
            <6>2. head \in KeyedId
              BY <6>1 DEF KeyIInv, KeyLeaseTypeOK
            <6>. QED BY <4>0, <4>1, <6>1, <6>2, NewerChain
          <5>3. CASE j \in log /\ i = head
            BY <3>2, <4>0, <4>1, <5>3 DEF KeyIInv, HeadInv
          <5>. QED BY <2>1, <5>1, <5>2, <5>3, <3>2
        <4>2. CASE head' # i
          <5>1. head' = head /\ ~(i \in Compacted /\ (head = 0 \/ Newer(i, head)))
            BY <2>1, <4>2 DEF Latest
          <5>. QED BY <2>1, <5>1, <3>2 DEF KeyIInv, HeadInv
        <4>. QED BY <4>1, <4>2
      <3>. QED BY <3>1, <3>2 DEF HeadInv
    <2>4. \A j : Outdated(j) => Outdated(j)'
      BY <2>1 DEF Outdated
    <2>5. ClaimInv'
      BY <2>1, <2>4 DEF KeyIInv, ClaimInv, keyHistoryVars
    <2>6. NewestNeverSkipped'
      BY <2>1 DEF KeyIInv, NewestNeverSkipped, keyHistoryVars
    <2>. QED BY <2>2, <2>3, <2>5, <2>6 DEF KeyIInv
  <1>2. ASSUME NEW t \in Token, NEW i \in log, SnapshotHead(t, i) PROVE KeyIInv'
    <2> DEFINE c == [NoClaim EXCEPT !.phase = "claiming", !.msg = i,
                                    !.isHead = (i \in Compacted => head = i)]
    <2>1. claim' = [claim EXCEPT ![t] = c] /\ UNCHANGED <<log, head, lease, picked, keyHistoryVars, boundVars>>
      BY <1>2 DEF SnapshotHead
    <2>2. i \in 0 .. MaxKeyedId
      BY DEF KeyIInv, KeyLeaseTypeOK, KeyedId
    <2>3. /\ c \in ClaimRecord /\ c.phase = "claiming" /\ c.msg = i
          /\ c.isHead = (i \in Compacted => head = i)
      BY <2>2 DEF ClaimRecord, NoClaim
    <2> HIDE DEF c
    <2>4. KeyLeaseTypeOK'
      BY <2>1, <2>3, <1>c, <1>t DEF KeyIInv, KeyLeaseTypeOK, keyHistoryVars, boundVars
    <2>5. ~c.isHead => Outdated(i)
      BY <2>3, NotHeadIsOutdated DEF KeyIInv
    <2>6. \A u \in Token : claim'[u] = IF u = t THEN c ELSE claim[u]
      BY <2>1, <1>c
    <2>. QED BY <2>1, <2>3, <2>4, <2>5, <2>6, SameLog DEF KeyIInv, ClaimInv, keyHistoryVars
  <1>3. ASSUME NEW t \in Token, Acquire(t) PROVE KeyIInv'
    <2> DEFINE m == claim[t].msg
    <2>0. claim[t] \in ClaimRecord /\ m \in log
      BY <1>3, <1>c DEF Acquire, KeyIInv, ClaimInv
    <2>1. PICK p \in {"running", "ambiguous"} : claim' = [claim EXCEPT ![t].phase = p]
      BY <1>3 DEF Acquire
    <2>2. \A u \in Token : claim'[u] = IF u = t THEN [claim[t] EXCEPT !.phase = p] ELSE claim[u]
      BY <2>1, <1>c
    <2>3. [claim[t] EXCEPT !.phase = p] \in ClaimRecord
      BY <2>0 DEF ClaimRecord
    <2>4. claim' \in [Token -> ClaimRecord]
      BY <2>1, <2>3, <1>c
    <2>5. /\ acquired' = acquired \cup {m} /\ UNCHANGED <<log, head, ran, superseded, stolen, sweeps>>
          /\ lease' = [token |-> t, expired |-> FALSE] /\ picked' \in BOOLEAN
      BY <1>3 DEF Acquire
    <2>6. faults' \in 0 .. MaxFaults
      BY <1>3 DEF Acquire, KeyIInv, KeyLeaseTypeOK
    <2>7. KeyLeaseTypeOK'
      BY <2>0, <2>4, <2>5, <2>6, <1>t DEF KeyIInv, KeyLeaseTypeOK
    <2>8. \A u \in Token :
            /\ claim'[u].phase # "idle" => claim'[u].msg \in log
            /\ claim'[u].phase \in {"ambiguous", "running"} => claim'[u].msg \in acquired'
            /\ claim'[u].phase = "claiming" /\ ~claim'[u].isHead => Outdated(claim'[u].msg)
      BY <2>0, <2>2, <2>5 DEF KeyIInv, ClaimInv, ClaimRecord
    <2>. QED BY <2>5, <2>7, <2>8, SameLog
  <1>4. ASSUME NEW t \in Token, claim' = [claim EXCEPT ![t] = NoClaim],
               UNCHANGED <<log, head>>,
               lease' \in {lease, NoLease}, picked' \in BOOLEAN, stolen' = stolen,
               acquired' = acquired, ran' \subseteq acquired,
               superseded' \subseteq log, \A i \in superseded' \ superseded : Outdated(i),
               faults' \in 0 .. MaxFaults, sweeps' = sweeps
        PROVE  KeyIInv'
    <2>1. \A u \in Token : claim'[u] = IF u = t THEN NoClaim ELSE claim[u]
      BY <1>4, <1>c
    <2>2. claim' \in [Token -> ClaimRecord]
      BY <1>4, <1>c, <1>n
    <2>3. NoLease \in [token : Token \cup {NoToken}, expired : BOOLEAN]
      BY DEF NoLease
    <2>4. KeyLeaseTypeOK'
      BY <1>4, <2>2, <2>3, <1>t DEF KeyIInv, KeyLeaseTypeOK
    <2>. QED BY <1>4, <2>1, <2>4, <1>n, SameLog DEF KeyIInv, ClaimInv
  <1>5. ASSUME NEW t \in Token, Busy(t) PROVE KeyIInv'
    BY <1>4, <1>5 DEF Busy, KeyIInv, KeyLeaseTypeOK, keyHistoryVars, boundVars
  <1>6. ASSUME NEW t \in Token, Superseded(t) PROVE KeyIInv'
    <2>1. claim[t].phase = "claiming" /\ claim[t].msg \in log
      BY <1>6 DEF Superseded, KeyIInv, ClaimInv
    <2>2. Outdated(claim[t].msg)
      <3>1. CASE ~claim[t].isHead
        BY <2>1, <3>1 DEF KeyIInv, ClaimInv
      <3>2. CASE ~IsStillHead(t)
        BY <2>1, <3>2, NotHeadIsOutdated DEF IsStillHead, KeyIInv
      <3>. QED BY <1>6, <3>1, <3>2 DEF Superseded
    <2>3. lease' \in {lease, NoLease} /\ picked' \in BOOLEAN
      BY <1>6 DEF Superseded
    <2>. QED BY <1>4, <1>6, <2>1, <2>2, <2>3 DEF Superseded, KeyIInv, KeyLeaseTypeOK, boundVars
  <1>7. ASSUME NEW t \in Token, Release(t) PROVE KeyIInv'
    <2>1. lease' \in {lease, NoLease} /\ picked' \in BOOLEAN
      BY <1>7 DEF Release
    <2>2. ran' \subseteq acquired
      BY <1>7 DEF Release, KeyIInv, KeyLeaseTypeOK, ClaimInv
    <2>. QED BY <1>4, <1>7, <2>1, <2>2 DEF Release, KeyIInv, KeyLeaseTypeOK, boundVars
  <1>8. ASSUME NEW t \in Token, Crash(t) PROVE KeyIInv'
    <2>1. faults' \in 0 .. MaxFaults
      BY <1>8 DEF Crash, KeyIInv, KeyLeaseTypeOK
    <2>. QED BY <1>4, <1>8, <2>1 DEF Crash, KeyIInv, KeyLeaseTypeOK, keyHistoryVars
  <1>9. ASSUME ExpireRow PROVE KeyIInv'
    <2> DEFINE t == lease.token
    <2>1. t \in Token
      BY <1>9 DEF ExpireRow, KeyIInv, KeyLeaseTypeOK
    <2>2. PICK e \in BOOLEAN : claim' = [claim EXCEPT ![t].expired = e]
      BY <1>9, <1>c, <2>1 DEF ExpireRow, ClaimRecord
    <2>3. [claim[t] EXCEPT !.expired = e] \in ClaimRecord
      BY <1>c, <2>1 DEF ClaimRecord
    <2>4. \A u \in Token : claim'[u] = IF u = t THEN [claim[t] EXCEPT !.expired = e] ELSE claim[u]
      BY <2>1, <2>2, <1>c
    <2>5. claim' \in [Token -> ClaimRecord]
      BY <2>1, <2>2, <2>3, <1>c
    <2>6. KeyLeaseTypeOK'
      BY <1>9, <2>5, <1>t DEF ExpireRow, KeyIInv, KeyLeaseTypeOK, keyHistoryVars, boundVars
    <2>7. \A u \in Token : /\ claim'[u].phase = claim[u].phase /\ claim'[u].msg = claim[u].msg
                           /\ claim'[u].isHead = claim[u].isHead
      BY <2>4, <1>c, <2>1 DEF ClaimRecord
    <2>. QED BY <1>9, <2>6, <2>7, SameLog DEF ExpireRow, KeyIInv, ClaimInv, keyHistoryVars
  <1>10. ASSUME PickExpired \/ DeletePicked PROVE KeyIInv'
    <2>0. picked' \in BOOLEAN /\ stolen' \in BOOLEAN
      BY <1>10, Zenon DEF PickExpired, DeletePicked, KeyIInv, KeyLeaseTypeOK, keyHistoryVars
    <2>1. /\ UNCHANGED <<log, head, claim, acquired, ran, superseded, faults>>
          /\ lease' \in {lease, NoLease} /\ sweeps' \in 0 .. MaxSweeps
      BY <1>10 DEF PickExpired, DeletePicked, KeyIInv, KeyLeaseTypeOK, keyHistoryVars, boundVars
    <2>2. NoLease \in [token : Token \cup {NoToken}, expired : BOOLEAN]
      BY DEF NoLease
    <2>3. KeyLeaseTypeOK'
      BY <2>0, <2>1, <2>2, <1>t, <1>c DEF KeyIInv, KeyLeaseTypeOK
    <2>. QED BY <2>1, <2>3, SameLog DEF KeyIInv, ClaimInv
  <1>11. ASSUME UNCHANGED keyLeaseVars PROVE KeyIInv'
    <2>1. KeyLeaseTypeOK'
      BY <1>11 DEF keyLeaseVars, keyHistoryVars, boundVars, KeyIInv, KeyLeaseTypeOK
    <2>. QED BY <1>11, <2>1, SameLog DEF keyLeaseVars, keyHistoryVars, KeyIInv, ClaimInv
  <1>12. ASSUME NEW t \in Token, NEW i \in KeyedId, StartClaim(t, i) PROVE KeyIInv'
    BY <1>2, <1>12 DEF StartClaim
  <1>13. ASSUME NEW t \in Token, RetryClaim(t) PROVE KeyIInv'
    BY <1>2, <1>13 DEF RetryClaim, KeyIInv, ClaimInv
  <1>. QED
    BY <1>1, <1>3, <1>5, <1>6, <1>7, <1>8, <1>9, <1>10, <1>11, <1>12, <1>13
    DEF KeyLeaseNext, ClaimStep, Done

\* The inductive invariant holds in every reachable state.
THEOREM KeyInductiveInvariant == KeyLeaseSpec => []KeyIInv
  BY KeyInitInv, StepInv, PTL DEF KeyLeaseSpec

\* Every variable of the key's protocol keeps its type, a run only follows an
\* acquired lease, and only published messages are acquired or skipped.
THEOREM KeyTypeCorrect == KeyLeaseSpec => []KeyLeaseTypeOK
  <1>1. KeyIInv => KeyLeaseTypeOK
    BY DEF KeyIInv
  <1>. QED BY KeyInductiveInvariant, <1>1, PTL

\* A message is skipped as superseded only when a newer one is in the log.
THEOREM NewestSurvives == KeyLeaseSpec => []NewestNeverSkipped
  <1>1. KeyIInv => NewestNeverSkipped
    BY DEF KeyIInv
  <1>. QED BY KeyInductiveInvariant, <1>1, PTL

-----------------------------------------------------------------------------
\* The only step that gives the key away is Acquire, and what it gives it to is
\* the head when it is compacted.
LEMMA AcquiresHead ==
  ASSUME KeyIInv, [KeyLeaseNext]_keyLeaseVars, NEW i \in (acquired' \ acquired) \cap Compacted
  PROVE  head = i
  <1>1. PICK t \in Token : Acquire(t)
    BY DEF KeyLeaseNext, ClaimStep, Publish, StartClaim, RetryClaim, SnapshotHead, Busy, Superseded,
           Release, Crash, ExpireRow, PickExpired, DeletePicked, Done, keyLeaseVars, keyHistoryVars
  <1>. QED BY <1>1 DEF Acquire, IsStillHead

\* A compacted key never goes back to an older message.
THEOREM Monotone == KeyLeaseSpec => NeverBackwards
  <1>1. ASSUME KeyIInv, [KeyLeaseNext]_keyLeaseVars,
               NEW i \in (acquired' \ acquired) \cap Compacted,
               NEW j \in acquired \cap Compacted
        PROVE  ~Newer(j, i)
    <2>1. head = i
      BY <1>1, AcquiresHead
    <2>. QED BY <1>1, <2>1 DEF KeyIInv, HeadInv, KeyLeaseTypeOK
  <1>2. KeyIInv /\ [KeyLeaseNext]_keyLeaseVars =>
          [\A i \in (acquired' \ acquired) \cap Compacted :
              \A j \in acquired \cap Compacted : ~Newer(j, i)]_keyLeaseVars
    BY <1>1
  <1>. QED BY KeyInductiveInvariant, <1>2, PTL DEF KeyLeaseSpec, NeverBackwards

-----------------------------------------------------------------------------
\* A step that leaves the row alone, deletes no unexpired lease and starts no run
\* keeps every unexpired run its row.
LEMMA SameHolder ==
  ASSUME HolderInv, lease' = lease, stolen' = stolen,
         \A u \in Token : Unexpired(u)' => Unexpired(u)
  PROVE  HolderInv'
  BY DEF HolderInv

\* Every step preserves the holder of the key.
LEMMA StepHolder == KeyIInv /\ HolderInv /\ [KeyLeaseNext]_keyLeaseVars => HolderInv'
  <1> SUFFICES ASSUME KeyIInv, HolderInv, [KeyLeaseNext]_keyLeaseVars PROVE HolderInv'
    OBVIOUS
  <1>c. claim \in [Token -> ClaimRecord]
    BY DEF KeyIInv, KeyLeaseTypeOK, ClaimRecord
  <1>n. NoClaim.phase # "running"
    BY DEF NoClaim
  <1>1. ASSUME NEW i \in KeyedId, Publish(i) PROVE HolderInv'
    BY <1>1, SameHolder DEF Publish, keyHistoryVars, Unexpired
  <1>2. ASSUME NEW t \in Token, NEW i, SnapshotHead(t, i) PROVE HolderInv'
    <2>1. \A u \in Token : Unexpired(u)' => Unexpired(u)
      BY <1>2, <1>c DEF SnapshotHead, Unexpired, NoClaim
    <2>. QED BY <1>2, <2>1, SameHolder DEF SnapshotHead, keyHistoryVars
  <1>3. ASSUME NEW t \in Token, Acquire(t) PROVE HolderInv'
    <2>1. lease'.token = t /\ lease'.expired = FALSE /\ stolen' = stolen
      BY <1>3 DEF Acquire
    <2>2. \A u \in Token : u # t /\ Unexpired(u)' => Unexpired(u)
      BY <1>3, <1>c DEF Acquire, Unexpired
    <2>3. \A u \in Token : u # t /\ Unexpired(u) => stolen
      BY <1>3, KeyBounds DEF Acquire, Available, HolderInv
    <2>. QED BY <2>1, <2>2, <2>3 DEF HolderInv
  <1>4. ASSUME NEW t \in Token, claim' = [claim EXCEPT ![t] = NoClaim], stolen' = stolen,
               lease' = lease \/ lease.token = t \/ lease.token = NoToken \/ lease.expired
        PROVE  HolderInv'
    <2>1. \A u \in Token : Unexpired(u)' => Unexpired(u) /\ u # t
      BY <1>4, <1>c, <1>n DEF Unexpired
    <2>2. CASE lease' = lease
      BY <1>4, <2>1, <2>2, SameHolder
    <2>3. CASE lease.token = t \/ lease.token = NoToken \/ lease.expired
      BY <1>4, <2>1, <2>3, KeyBounds DEF HolderInv
    <2>. QED BY <1>4, <2>2, <2>3
  <1>5. ASSUME NEW t \in Token, Busy(t) \/ Crash(t) PROVE HolderInv'
    BY <1>4, <1>5 DEF Busy, Crash, keyHistoryVars
  <1>6. ASSUME NEW t \in Token, Superseded(t) PROVE HolderInv'
    BY <1>4, <1>6 DEF Superseded, Available
  <1>7. ASSUME NEW t \in Token, Release(t) PROVE HolderInv'
    BY <1>4, <1>7 DEF Release, Releases
  <1>8. ASSUME ExpireRow PROVE HolderInv'
    <2>1. PICK t \in Token : t = lease.token
      BY <1>8 DEF ExpireRow, KeyIInv, KeyLeaseTypeOK
    <2>2. claim' = [claim EXCEPT ![t].expired = (@ \/ claim[t].phase # "idle")] /\ stolen' = stolen
      BY <1>8, <2>1 DEF ExpireRow, keyHistoryVars
    <2>3. claim'[t].phase = claim[t].phase
          /\ claim'[t].expired = (claim[t].expired \/ claim[t].phase # "idle")
      BY <1>c, <2>2 DEF ClaimRecord
    <2>4. \A u \in Token \ {t} : claim'[u] = claim[u]
      BY <1>c, <2>2
    <2>5. \A u \in Token : Unexpired(u)' => u # t /\ Unexpired(u)
      BY <2>3, <2>4 DEF Unexpired
    <2>. QED BY <2>1, <2>2, <2>5 DEF HolderInv
  <1>9. ASSUME PickExpired PROVE HolderInv'
    BY <1>9, SameHolder DEF PickExpired, keyHistoryVars, Unexpired
  <1>10. ASSUME DeletePicked PROVE HolderInv'
    <2>1. claim' = claim /\ (stolen \/ ~lease.expired => stolen')
      BY <1>10 DEF DeletePicked
    <2>. QED BY <2>1 DEF HolderInv, Unexpired
  <1>11. ASSUME UNCHANGED keyLeaseVars PROVE HolderInv'
    BY <1>11, SameHolder DEF keyLeaseVars, keyHistoryVars, Unexpired
  <1>12. ASSUME NEW t \in Token, NEW i \in KeyedId, StartClaim(t, i) PROVE HolderInv'
    BY <1>2, <1>12 DEF StartClaim
  <1>13. ASSUME NEW t \in Token, RetryClaim(t) PROVE HolderInv'
    BY <1>2, <1>13 DEF RetryClaim
  <1>. QED
    BY <1>1, <1>3, <1>5, <1>6, <1>7, <1>8, <1>9, <1>10, <1>11, <1>12, <1>13
    DEF KeyLeaseNext, ClaimStep, Done

\* Unexpired runs of a key never overlap, unless a sweep has deleted a lease that
\* had not expired.
THEOREM Exclusive == KeyLeaseSpec => []OneRunPerKey
  <1>1. KeyLeaseInit => HolderInv
    BY DEF KeyLeaseInit, HolderInv, Unexpired, NoClaim
  <1>2. HolderInv => OneRunPerKey
    BY DEF HolderInv, Unexpired, OneRunPerKey, NoOverlap
  <1>. QED BY KeyInductiveInvariant, <1>1, <1>2, StepHolder, PTL DEF KeyLeaseSpec
=============================================================================
