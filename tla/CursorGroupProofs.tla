-------------------------- MODULE CursorGroupProofs --------------------------
(***************************************************************************)
(* Proofs about CursorGroup and OrderedKeys, for every log, every number   *)
(* of processes, runners and tokens, and every budget.                     *)
(*                                                                         *)
(* What a process remembers of a range and the lease under its token agree *)
(* as long as both exist (HeldInv): a row that changes hands changes its   *)
(* token.  So a commit writes exactly the part of the log its own lease    *)
(* covers, which no other lease and no row of the window covers.           *)
(***************************************************************************)
EXTENDS OrderedKeys, TLAPS

Open == {"ready", "inflight", "deferred"}

\* The outcomes that settle a message where they happen.
DoneKind == {"success", "terminal"}

\* A row of the exception window by itself: only a row in flight has a token
\* and has spent an attempt, and an open row is within its budget.
GoodRow(r) ==
    /\ r.token # NoToken => r.status = "inflight"
    /\ r.status = "inflight" => r.attempts > 0
    /\ r.status \in Open => /\ r.attempts - r.delays <= MaxRetries
                            /\ r.status # "inflight" => r.attempts - r.delays < MaxRetries

RowInv ==
    \A i \in Id : /\ GoodRow(exc[i])
                  /\ exc[i].status # "none" => i <= claimed
                  /\ exc[i].status = "superseded" => i \in settled

LeaseInv == \A t \in LeaseToken : Leased(t) => lease[t].high <= claimed

\* A process and the lease under its token: the same bounds, and what the
\* process counts as final is final.
HeldInv ==
    \A t \in LeaseToken : Held(t) =>
        /\ held[t].high <= claimed
        /\ Leased(t) => lease[t].low = held[t].low /\ lease[t].high = held[t].high
        /\ \A i \in Id : held[t].out[i] \in DoneKind => i \in settled

IInv ==
    /\ TypeOK /\ RowInv /\ LeaseInv /\ HeldInv
    /\ NoMessageLost /\ OneOwnerPerMessage /\ CommittedIsResolved

-----------------------------------------------------------------------------
\* The records the initial state and the actions write have their types.
LEMMA Records ==
  /\ NoLease \in LeaseRow /\ NoRange \in RangeState /\ NoRow \in ExceptionRow
  /\ NoLease.high = 0 /\ NoRange.high = 0
  /\ GoodRow(NoRow) /\ NoRow.status = "none"
  BY GroupBounds DEF NoLease, NoRange, NoRow, LeaseRow, RangeState, ExceptionRow, GoodRow, Open

\* A new row of the window is a good row: it has spent nothing and nobody runs it.
LEMMA NewRows ==
  ASSUME NEW s \in {"ready", "deferred", "dead"}, NEW d \in {0, 1}
  PROVE  /\ NewRow(s, d) \in ExceptionRow /\ GoodRow(NewRow(s, d))
         /\ NewRow(s, d).status = s
  <1>0. NoRow.attempts = 0 /\ NoRow.token = NoToken
    BY DEF NoRow
  <1>1. NewRow(s, d) \in ExceptionRow
    <2>1. /\ d \in Nat /\ NoRow \in ExceptionRow
          /\ s \in {"none", "ready", "inflight", "deferred", "dead", "superseded"}
      BY Records
    <2>. QED BY <2>1 DEF NewRow, ExceptionRow
  <1>2. /\ NewRow(s, d).status = s /\ NewRow(s, d).token = NoToken
        /\ NewRow(s, d).attempts = 0 /\ NewRow(s, d).delays = d
    BY <1>0, Records DEF NewRow, ExceptionRow
  <1>. QED BY <1>1, <1>2, GroupBounds DEF GoodRow, Open

\* deliveryStatement writes a row for every outcome but success.
LEMMA OutcomeRows ==
  ASSUME NEW k \in Kind, k # "success"
  PROVE  /\ OutcomeRow(k) \in ExceptionRow /\ GoodRow(OutcomeRow(k))
         /\ OutcomeRow(k).status \notin {"none", "superseded"}
  <1>1. /\ OutcomeRow("exception") = NewRow("ready", 0)
        /\ OutcomeRow("delayed") = NewRow("ready", 1)
        /\ OutcomeRow("deferred") = NewRow("deferred", 0)
        /\ OutcomeRow("terminal") = NewRow("dead", 0)
    BY DEF OutcomeRow
  <1>2. k \in {"exception", "delayed", "deferred", "terminal"}
    BY DEF Kind
  <1>. QED BY <1>1, <1>2, NewRows

\* A range that was just read has no outcome yet.
LEMMA NewRanges ==
  ASSUME NEW a \in 0 .. MaxId, NEW b \in 0 .. MaxId
  PROVE  /\ NewRange(a, b) \in RangeState
         /\ NewRange(a, b).low = a /\ NewRange(a, b).high = b
         /\ \A i \in Id : NewRange(a, b).out[i] = "none"
  BY DEF NewRange, RangeState

\* The group starts in the invariant: nothing is claimed, so nothing is owed.
LEMMA InitInv == Init => IInv
  <1> SUFFICES ASSUME Init PROVE IInv
    OBVIOUS
  <1>1. TypeOK
    BY GroupBounds, Records DEF Init, TypeOK
  <1>2. /\ \A t \in LeaseToken : ~Leased(t) /\ ~Held(t)
        /\ \A i \in Id : exc[i] = NoRow /\ i > 0
    BY Records DEF Init, Leased, Held, Id
  <1>3. RowInv /\ LeaseInv /\ HeldInv
    BY <1>2, Records DEF RowInv, LeaseInv, HeldInv
  <1>4. NoMessageLost /\ OneOwnerPerMessage
    BY <1>2 DEF NoMessageLost, OneOwnerPerMessage, Init, Id
  <1>5. CommittedIsResolved
    BY <1>2, Records DEF CommittedIsResolved, NothingOpenBelow, Unresolved, Init
  <1>. QED BY <1>1, <1>3, <1>4, <1>5 DEF IInv

-----------------------------------------------------------------------------
\* A step that touches no range: it rewrites rows of the window that were open,
\* and a row disappears only when its message is settled.
LEMMA WindowStep ==
  ASSUME IInv, UNCHANGED <<claimed, committed, target, lease, held>>,
         settled \subseteq settled', settled' \in SUBSET Id,
         work' \in [RunToken -> 0 .. MaxId], stalls' \in 0 .. MaxStalls,
         exc' \in [Id -> ExceptionRow],
         \A i \in Id : \/ exc'[i] = exc[i]
                       \/ /\ Unresolved(i) /\ GoodRow(exc'[i])
                          /\ exc'[i].status \in {"none", "superseded"} => i \in settled'
  PROVE  IInv'
  <1> USE DEF IInv
  <1>1. TypeOK'
    BY DEF TypeOK
  <1>2. \A i \in Id : Unresolved(i) => exc[i].status # "none"
    BY DEF Unresolved
  <1>3. RowInv'
    BY <1>2 DEF RowInv
  <1>4. LeaseInv' /\ HeldInv'
    BY DEF LeaseInv, HeldInv, Leased, Held
  <1>5. NoMessageLost'
    BY <1>2 DEF NoMessageLost, Accounted, Readable, Leased, InLease
  <1>6. OneOwnerPerMessage'
    BY <1>2 DEF OneOwnerPerMessage, Leased, InLease
  <1>7. CommittedIsResolved'
    BY DEF CommittedIsResolved, NothingOpenBelow, Unresolved, Leased
  <1>. QED BY <1>1, <1>3, <1>4, <1>5, <1>6, <1>7

\* A run that still owns its row: the row is in flight and has spent an attempt.
LEMMA OwnedRow ==
  ASSUME IInv, NEW t \in RunToken, Owns(t)
  PROVE  /\ work[t] \in Id /\ exc[work[t]] \in ExceptionRow
         /\ exc[work[t]].status = "inflight" /\ Unresolved(work[t])
         /\ exc[work[t]].attempts \in Nat \ {0} /\ exc[work[t]].delays \in Nat
         /\ exc[work[t]].attempts - exc[work[t]].delays <= MaxRetries
  <1>1. work[t] \in Id /\ exc[work[t]] \in ExceptionRow
    BY GroupBounds DEF IInv, TypeOK, Owns, Id
  <1>2. GoodRow(exc[work[t]]) /\ exc[work[t]].token # NoToken
    BY <1>1, GroupBounds DEF IInv, RowInv, Owns
  <1>. QED BY <1>1, <1>2 DEF GoodRow, Open, ExceptionRow, Unresolved

\* Every recorded outcome keeps the invariant when the row it writes is good.
LEMMA RecordInv ==
  ASSUME IInv, NEW t \in RunToken, Owns(t),
         NEW s \in {"none", "ready", "deferred", "dead", "superseded"},
         NEW a \in Nat, NEW d \in Nat, Record(t, s, a, d),
         s \in Open => a - d < MaxRetries,
         settled \subseteq settled', settled' \in SUBSET Id, stalls' \in 0 .. MaxStalls,
         s \in {"none", "superseded"} => work[t] \in settled'
  PROVE  IInv'
  <1> DEFINE r == [status |-> s, attempts |-> a, delays |-> d,
                   token |-> NoToken, expired |-> FALSE]
  <1>1. work[t] \in Id /\ Unresolved(work[t])
    BY OwnedRow
  <1>2. r \in ExceptionRow /\ GoodRow(r) /\ r.status = s
    BY GroupBounds DEF ExceptionRow, GoodRow, Open
  <1>3. exc' = [exc EXCEPT ![work[t]] = r] /\ exc \in [Id -> ExceptionRow]
    BY DEF Record, IInv, TypeOK
  <1>4. exc' \in [Id -> ExceptionRow]
    BY <1>1, <1>2, <1>3
  <1>5. work' \in [RunToken -> 0 .. MaxId]
    BY GroupBounds DEF Record, IInv, TypeOK
  <1>6. \A i \in Id : exc'[i] = IF i = work[t] THEN r ELSE exc[i]
    BY <1>1, <1>3
  <1>7. UNCHANGED <<claimed, committed, target, lease, held>>
    BY DEF Record
  <1> HIDE DEF r
  <1>. QED BY <1>1, <1>2, <1>4, <1>5, <1>6, <1>7, WindowStep

\* Each of the outcomes a run can record keeps the invariant.
LEMMA RecordRunInv ==
  ASSUME IInv, NEW t \in RunToken, RecordRun(t)
  PROVE  IInv'
  <1>0. Owns(t)
    BY DEF RecordRun, RecordSuccess, RecordFailure, RecordDelayed, RecordTerminal,
           RecordSuperseded, RecordDeferred
  <1>1. /\ work[t] \in Id
        /\ Attempts(t) \in Nat \ {0} /\ Delays(t) \in Nat
        /\ Attempts(t) - Delays(t) <= MaxRetries
        /\ Failures(work[t]) = Attempts(t) - Delays(t)
    BY <1>0, OwnedRow DEF Attempts, Delays, Failures
  <1>2. settled \in SUBSET Id /\ stalls \in 0 .. MaxStalls
    BY DEF IInv, TypeOK
  <1>3. Attempts(t) - 1 \in Nat /\ Delays(t) + 1 \in Nat
    BY <1>1
  <1> USE GroupBounds
  <1>4. CASE RecordSuccess(t)
    BY <1>0, <1>1, <1>2, <1>4, RecordInv DEF RecordSuccess, Open
  <1>5. CASE RecordFailure(t)
    BY <1>0, <1>1, <1>2, <1>5, RecordInv DEF RecordFailure
  <1>6. CASE RecordDelayed(t)
    <2>1. stalls' \in 0 .. MaxStalls /\ settled' = settled
      BY <1>2, <1>6 DEF RecordDelayed
    <2>2. Attempts(t) - (Delays(t) + 1) < MaxRetries
      BY <1>1
    <2>. QED BY <1>0, <1>1, <1>2, <1>3, <1>6, <2>1, <2>2, RecordInv DEF RecordDelayed
  <1>7. CASE RecordTerminal(t)
    BY <1>0, <1>1, <1>2, <1>7, RecordInv DEF RecordTerminal, Open
  <1>8. CASE RecordSuperseded(t)
    BY <1>0, <1>1, <1>2, <1>3, <1>8, RecordInv DEF RecordSuperseded, Open
  <1>9. CASE RecordDeferred(t)
    <2>1. stalls' \in 0 .. MaxStalls /\ settled' = settled
      BY <1>2, <1>9 DEF RecordDeferred
    <2>2. (Attempts(t) - 1) - Delays(t) < MaxRetries
      BY <1>1
    <2>. QED BY <1>0, <1>1, <1>2, <1>3, <1>9, <2>1, <2>2, RecordInv DEF RecordDeferred
  <1>. QED BY <1>4, <1>5, <1>6, <1>7, <1>8, <1>9 DEF RecordRun

\* Claiming, renewing, expiring, killing and abandoning keep the invariant.
LEMMA RunStepInv ==
  ASSUME IInv, \/ \E t \in RunToken : RunStep(t)
               \/ Kill
               \/ \E i \in Id : ExpireRun(i)
  PROVE  IInv'
  <1> USE GroupBounds
  <1>t. /\ exc \in [Id -> ExceptionRow] /\ work \in [RunToken -> 0 .. MaxId]
        /\ settled \in SUBSET Id /\ stalls \in 0 .. MaxStalls
        /\ \A i \in Id : GoodRow(exc[i])
    BY DEF IInv, TypeOK, RowInv
  <1>1. ASSUME NEW i \in Id, NEW t \in RunToken, ClaimException(i, t) PROVE IInv'
    <2> DEFINE r == InFlight(i, t)
    <2>1. Claimable(i) /\ Unresolved(i)
      BY <1>1 DEF ClaimException, Claimable, Unresolved
    <2>2. exc[i] \in ExceptionRow /\ GoodRow(exc[i])
      BY <1>t
    <2>3. r \in ExceptionRow /\ GoodRow(r) /\ r.status = "inflight"
      <3>0. exc[i].attempts + 1 \in Nat
        BY <2>2 DEF ExceptionRow
      <3>1. r \in ExceptionRow
        BY <2>2, <3>0 DEF InFlight, ExceptionRow
      <3>2. /\ r.status = "inflight" /\ r.token = t
            /\ r.attempts = exc[i].attempts + 1 /\ r.delays = exc[i].delays
            /\ exc[i].attempts \in Nat /\ exc[i].delays \in Nat
        BY <2>2 DEF InFlight, ExceptionRow
      <3>3. exc[i].attempts - exc[i].delays < MaxRetries
        BY <2>1 DEF Claimable, Failures
      <3> HIDE DEF r
      <3>. QED BY <3>1, <3>2, <3>3 DEF GoodRow, Open
    <2>4. exc' = [exc EXCEPT ![i] = r] /\ work' = [work EXCEPT ![t] = i]
      BY <1>1 DEF ClaimException
    <2>5. work' \in [RunToken -> 0 .. MaxId]
      BY <1>t, <2>4 DEF Id
    <2>6. UNCHANGED <<claimed, committed, target, lease, held, settled, stalls>>
      BY <1>1 DEF ClaimException
    <2> HIDE DEF r
    <2>. QED BY <1>t, <2>1, <2>3, <2>4, <2>5, <2>6, WindowStep
  <1>2. ASSUME NEW t \in RunToken, RenewLease(t) PROVE IInv'
    <2> DEFINE r == [exc[work[t]] EXCEPT !.expired = FALSE]
    <2>1. /\ work[t] \in Id /\ exc[work[t]] \in ExceptionRow
          /\ exc[work[t]].status = "inflight" /\ Unresolved(work[t])
      BY <1>2, OwnedRow DEF RenewLease
    <2>2. r \in ExceptionRow /\ GoodRow(r) /\ r.status = "inflight"
      BY <1>t, <2>1 DEF ExceptionRow, GoodRow
    <2>3. /\ exc' = [exc EXCEPT ![work[t]] = r]
          /\ UNCHANGED <<claimed, committed, target, lease, held, work, settled, stalls>>
      BY <1>2 DEF RenewLease
    <2> HIDE DEF r
    <2>. QED BY <1>t, <2>1, <2>2, <2>3, WindowStep
  <1>3. ASSUME NEW i \in Id, ExpireRun(i) PROVE IInv'
    <2> DEFINE r == [exc[i] EXCEPT !.expired = TRUE]
    <2>1. exc[i] \in ExceptionRow /\ GoodRow(exc[i]) /\ Unresolved(i)
      BY <1>t, <1>3 DEF ExpireRun, Unresolved
    <2>2. r \in ExceptionRow /\ GoodRow(r) /\ r.status = "inflight"
      BY <1>3, <2>1 DEF ExceptionRow, GoodRow, ExpireRun
    <2>3. /\ exc' = [exc EXCEPT ![i] = r]
          /\ UNCHANGED <<claimed, committed, target, lease, held, work, settled, stalls>>
      BY <1>3 DEF ExpireRun
    <2> HIDE DEF r
    <2>. QED BY <1>t, <2>1, <2>2, <2>3, WindowStep
  <1>4. CASE Kill
    <2> DEFINE dead(i) == [exc[i] EXCEPT !.status = "dead", !.token = NoToken,
                                         !.expired = FALSE]
    <2>1. ASSUME NEW i \in Id
          PROVE  dead(i) \in ExceptionRow /\ GoodRow(dead(i)) /\ dead(i).status = "dead"
      <3>1. exc[i] \in ExceptionRow
        BY <1>t
      <3>. QED BY <3>1 DEF ExceptionRow, GoodRow, Open
    <2>2. \A i \in Killable : i \in Id /\ Unresolved(i)
      BY DEF Killable, Unresolved
    <2>3. /\ exc' = [i \in Id |-> IF i \in Killable THEN dead(i) ELSE exc[i]]
          /\ UNCHANGED <<claimed, committed, target, lease, held, work, settled, stalls>>
      BY <1>4 DEF Kill
    <2> HIDE DEF dead
    <2>. QED BY <1>t, <2>1, <2>2, <2>3, WindowStep
  <1>5. ASSUME NEW t \in RunToken, AbandonRun(t) PROVE IInv'
    <2>1. /\ work' \in [RunToken -> 0 .. MaxId]
          /\ UNCHANGED <<claimed, committed, target, lease, held, exc, settled, stalls>>
      BY <1>t, <1>5 DEF AbandonRun
    <2>. QED BY <1>t, <2>1, WindowStep
  <1>. QED BY <1>1, <1>2, <1>3, <1>4, <1>5, RecordRunInv DEF RunStep

-----------------------------------------------------------------------------
\* A lease row moves from token t to token u, or only changes its clock: the
\* same messages are covered, by one row.
LEMMA MoveLease ==
  ASSUME IInv, TypeOK', HeldInv',
         UNCHANGED <<claimed, committed, target, exc, settled>>,
         NEW t \in LeaseToken, NEW u \in LeaseToken, Leased(t), u = t \/ ~Leased(u),
         NEW row \in LeaseRow, row.low = lease[t].low, row.high = lease[t].high,
         \A v \in LeaseToken : lease'[v] = IF v = u THEN row
                                           ELSE IF v = t THEN NoLease ELSE lease[v]
  PROVE  IInv'
  <1> USE DEF IInv
  <1>1. \A v \in LeaseToken : Leased(v)' <=> (v = u \/ (v # t /\ Leased(v)))
    BY Records DEF Leased
  <1>2. /\ \A i \in Id : InLease(u, i)' <=> InLease(t, i)
        /\ \A v \in LeaseToken \ {t, u} : \A i \in Id : InLease(v, i)' <=> InLease(v, i)
    BY DEF InLease
  <1>3. RowInv' /\ LeaseInv'
    BY <1>1, Records DEF RowInv, LeaseInv, Leased
  <1>4. NoMessageLost'
    BY <1>1, <1>2 DEF NoMessageLost, Accounted, Readable
  <1>5. OneOwnerPerMessage'
    BY <1>1, <1>2 DEF OneOwnerPerMessage
  <1>6. CommittedIsResolved'
    BY <1>1 DEF CommittedIsResolved, NothingOpenBelow, Unresolved
  <1>. QED BY <1>3, <1>4, <1>5, <1>6

\* The lease under token t gives up the messages of its prefix, or all of them:
\* a message it gives up is in S and gets a row of the window, or is settled.
LEMMA ShrinkLease ==
  ASSUME IInv, TypeOK', HeldInv',
         UNCHANGED <<claimed, committed, target, settled>>,
         NEW t \in LeaseToken, Leased(t), NEW row \in LeaseRow,
         row.high # 0 => row.high = lease[t].high /\ lease[t].low <= row.low,
         \A v \in LeaseToken : lease'[v] = IF v = t THEN row ELSE lease[v],
         NEW S \in SUBSET Id,
         \A i \in Id \ S : exc'[i] = exc[i],
         \A i \in S : /\ exc'[i].status \notin {"none", "superseded"} /\ GoodRow(exc'[i])
                      /\ InLease(t, i) /\ (row.high = 0 \/ i <= row.low),
         \A i \in Id \ S : InLease(t, i) /\ (row.high = 0 \/ i <= row.low) /\ Readable(i)
                           => i \in settled
  PROVE  IInv'
  <1> USE DEF IInv
  <1>0. /\ lease[t] \in LeaseRow /\ claimed \in 0 .. MaxId
        /\ \A i \in Id : i \in Nat
        /\ row.low \in Nat /\ row.high \in Nat
        /\ lease[t].low \in Nat /\ lease[t].high \in Nat
    BY DEF TypeOK, LeaseRow, Id
  <1>1. /\ \A v \in LeaseToken \ {t} : Leased(v)' <=> Leased(v)
        /\ \A v \in LeaseToken \ {t} : \A i \in Id : InLease(v, i)' <=> InLease(v, i)
        /\ Leased(t)' <=> row.high # 0
    BY DEF Leased, InLease
  <1>2. \A i \in Id : /\ Leased(t)' /\ InLease(t, i)' => InLease(t, i) /\ i \notin S
                      /\ InLease(t, i) => \/ Leased(t)' /\ InLease(t, i)'
                                          \/ row.high = 0 \/ i <= row.low
    BY <1>0, <1>1 DEF Leased, InLease
  <1>3. RowInv'
    <2> SUFFICES ASSUME NEW i \in Id
                 PROVE  /\ GoodRow(exc'[i]) /\ (exc'[i].status # "none" => i <= claimed)
                        /\ exc'[i].status = "superseded" => i \in settled
      BY DEF RowInv
    <2>1. CASE i \in S
      BY <2>1, <1>0 DEF LeaseInv, InLease
    <2>2. CASE i \notin S
      BY <2>2 DEF RowInv
    <2>. QED BY <2>1, <2>2
  <1>4. LeaseInv'
    BY <1>0, <1>1 DEF LeaseInv, Leased
  <1>5. NoMessageLost'
    <2> SUFFICES ASSUME NEW i \in Id, i <= claimed, Readable(i)
                 PROVE  Accounted(i)'
      BY DEF NoMessageLost, Readable
    <2>0. Accounted(i)
      BY DEF NoMessageLost
    <2>1. CASE i \in S
      BY <2>1 DEF Accounted
    <2>2. CASE i \notin S /\ InLease(t, i)
      BY <2>2, <1>2 DEF Accounted
    <2>3. CASE i \notin S /\ ~InLease(t, i)
      BY <2>0, <2>3, <1>1 DEF Accounted
    <2>. QED BY <2>1, <2>2, <2>3
  <1>6. OneOwnerPerMessage'
    <2> SUFFICES ASSUME NEW i \in Id, NEW v \in LeaseToken, Leased(v)', InLease(v, i)'
                 PROVE  /\ exc'[i].status = "none"
                        /\ \A u \in LeaseToken \ {v} : ~(Leased(u)' /\ InLease(u, i)')
      BY DEF OneOwnerPerMessage
    <2>1. Leased(v) /\ InLease(v, i)
      BY <1>1, <1>2
    <2>2. /\ exc[i].status = "none"
          /\ \A u \in LeaseToken \ {v} : ~(Leased(u) /\ InLease(u, i))
      BY <2>1 DEF OneOwnerPerMessage
    <2>3. i \notin S
      BY <1>2, <2>1, <2>2
    <2>. QED BY <1>1, <1>2, <2>2, <2>3
  <1>7. CommittedIsResolved'
    <2> SUFFICES ASSUME NEW m \in -1 .. MaxId, NothingOpenBelow(m)
                 PROVE  /\ m <= claimed
                        /\ \A v \in LeaseToken : Leased(v)' => m <= lease'[v].low
                        /\ \A i \in Id : Unresolved(i)' => m < i
      BY GroupBounds DEF CommittedIsResolved, NothingOpenBelow, TypeOK
    <2>1. m <= claimed /\ m <= lease[t].low
      BY DEF NothingOpenBelow
    <2>2. \A v \in LeaseToken : Leased(v)' => m <= lease'[v].low
      BY <1>0, <1>1, <2>1 DEF NothingOpenBelow
    <2>3. ASSUME NEW i \in Id, Unresolved(i)' PROVE m < i
      <3>1. CASE i \in S
        BY <1>0, <2>1, <3>1 DEF InLease
      <3>2. CASE i \notin S
        BY <2>3, <3>2 DEF NothingOpenBelow, Unresolved
      <3>. QED BY <3>1, <3>2
    <2>. QED BY <2>1, <2>2, <2>3
  <1>. QED BY <1>3, <1>4, <1>5, <1>6, <1>7

\* A fresh claim: the frontier moves over messages nobody has seen, and the new
\* lease and the new range cover exactly those.
LEMMA FreshClaimInv ==
  ASSUME IInv, NEW t \in LeaseToken, NEW high \in Id, FreshClaim(t, high)
  PROVE  IInv'
  <1> DEFINE row == [NoLease EXCEPT !.low = claimed, !.high = high]
  <1> USE DEF IInv
  <1>1. /\ ~Leased(t) /\ ~Held(t) /\ claimed < high /\ claimed' = high
        /\ claimed \in 0 .. MaxId /\ high \in 1 .. MaxId
        /\ UNCHANGED <<committed, target, exc, work, settled, stalls>>
    BY DEF FreshClaim, Fresh, TypeOK, Id
  <1>2. row \in LeaseRow /\ row.low = claimed /\ row.high = high
    <2>1. NoLease \in LeaseRow
      BY Records
    <2>2. claimed \in 0 .. MaxId /\ high \in 0 .. MaxId
      BY <1>1
    <2>. QED BY <2>1, <2>2 DEF LeaseRow
  <1>3. /\ lease' = [lease EXCEPT ![t] = row]
        /\ held' = [held EXCEPT ![t] = NewRange(claimed, high)]
    BY DEF FreshClaim
  <1> HIDE DEF row
  <1>4. /\ NewRange(claimed, high) \in RangeState
        /\ NewRange(claimed, high).low = claimed /\ NewRange(claimed, high).high = high
        /\ \A i \in Id : NewRange(claimed, high).out[i] = "none"
    BY <1>1, NewRanges
  <1>5. TypeOK'
    BY <1>1, <1>2, <1>3, <1>4 DEF TypeOK
  <1>6. /\ \A v \in LeaseToken : lease'[v] = IF v = t THEN row ELSE lease[v]
        /\ \A v \in LeaseToken : held'[v] = IF v = t THEN NewRange(claimed, high) ELSE held[v]
    BY <1>3 DEF TypeOK
  <1>7. \A v \in LeaseToken : /\ lease[v].high \in 0 .. MaxId /\ lease[v].low \in 0 .. MaxId
                              /\ held[v].high \in 0 .. MaxId /\ held[v].low \in 0 .. MaxId
    BY DEF TypeOK, LeaseRow, RangeState
  <1>8. \A i \in Id : i \in Nat
    BY DEF Id
  <1>9. /\ \A v \in LeaseToken : Leased(v)' <=> (v = t \/ Leased(v))
        /\ \A v \in LeaseToken \ {t} : \A i \in Id : InLease(v, i)' <=> InLease(v, i)
        /\ \A i \in Id : InLease(t, i)' <=> (claimed < i /\ i <= high)
        /\ \A v \in LeaseToken : \A i \in Id : Leased(v) /\ InLease(v, i) => i <= claimed
    BY <1>1, <1>2, <1>6, <1>7, <1>8 DEF Leased, InLease, LeaseInv
  <1>10. RowInv'
    BY <1>1, <1>8 DEF RowInv
  <1>11. LeaseInv'
    BY <1>1, <1>2, <1>6, <1>7 DEF LeaseInv, Leased
  <1>12. HeldInv'
    <2> SUFFICES ASSUME NEW v \in LeaseToken, Held(v)'
                 PROVE  /\ held'[v].high <= high
                        /\ Leased(v)' => /\ lease'[v].low = held'[v].low
                                         /\ lease'[v].high = held'[v].high
                        /\ \A i \in Id : held'[v].out[i] \in DoneKind => i \in settled
      BY <1>1 DEF HeldInv
    <2>1. CASE v = t
      BY <1>1, <1>2, <1>4, <1>6, <2>1 DEF DoneKind
    <2>2. CASE v # t
      <3>1. held'[v] = held[v] /\ lease'[v] = lease[v]
        BY <1>6, <2>2
      <3>2. held[v].high <= claimed
        BY <3>1 DEF HeldInv, Held
      <3>. QED BY <1>1, <1>7, <3>1, <3>2 DEF HeldInv, Leased, Held
    <2>. QED BY <2>1, <2>2
  <1>13. NoMessageLost'
    BY <1>1, <1>8, <1>9 DEF NoMessageLost, Accounted, Readable
  <1>14. OneOwnerPerMessage'
    BY <1>1, <1>8, <1>9 DEF OneOwnerPerMessage, RowInv
  <1>15. CommittedIsResolved'
    BY <1>1, <1>2, <1>6, <1>7, <1>8, <1>9
    DEF CommittedIsResolved, NothingOpenBelow, Unresolved, TypeOK
  <1>. QED BY <1>5, <1>10, <1>11, <1>12, <1>13, <1>14, <1>15

\* A reclaim moves the row to a token that no process remembers.
LEMMA ReclaimInv ==
  ASSUME IInv, NEW t \in LeaseToken, NEW u \in LeaseToken, Reclaim(t, u)
  PROVE  IInv'
  <1> DEFINE row == [lease[t] EXCEPT !.reclaims = @ + 1, !.expired = FALSE]
             range == NewRange(lease[t].low, lease[t].high)
  <1>1. /\ lease[t] \in LeaseRow /\ lease \in [LeaseToken -> LeaseRow]
        /\ held \in [LeaseToken -> RangeState]
        /\ lease[t].low \in 0 .. MaxId /\ lease[t].high \in 0 .. MaxId
        /\ lease[t].reclaims \in -1 .. MaxRangeReclaims - 1
    BY DEF IInv, TypeOK, LeaseRow
  <1>2. /\ Leased(t) /\ ~Held(u) /\ (u = t \/ ~Leased(u))
        /\ lease[t].reclaims + 1 < MaxRangeReclaims
        /\ lease' = [lease EXCEPT ![t] = NoLease, ![u] = row]
        /\ held' = [held EXCEPT ![u] = range]
        /\ UNCHANGED <<claimed, committed, target, exc, work, settled, stalls>>
    BY DEF Reclaim, Rotated
  <1>3. lease[t].reclaims + 1 \in -1 .. MaxRangeReclaims - 1
    BY <1>1, <1>2, GroupBounds
  <1>4. row \in LeaseRow /\ row.low = lease[t].low /\ row.high = lease[t].high
    BY <1>1, <1>3 DEF LeaseRow
  <1>5. /\ range \in RangeState /\ range.low = lease[t].low /\ range.high = lease[t].high
        /\ \A i \in Id : range.out[i] = "none"
    BY <1>1, NewRanges
  <1> HIDE DEF row, range
  <1>6. \A v \in LeaseToken :
          /\ lease'[v] = IF v = u THEN row ELSE IF v = t THEN NoLease ELSE lease[v]
          /\ held'[v] = IF v = u THEN range ELSE held[v]
    BY <1>1, <1>2
  <1>7. TypeOK'
    BY <1>1, <1>2, <1>4, <1>5, Records DEF IInv, TypeOK
  <1>8. HeldInv'
    <2> SUFFICES ASSUME NEW v \in LeaseToken, Held(v)'
                 PROVE  /\ held'[v].high <= claimed
                        /\ Leased(v)' => /\ lease'[v].low = held'[v].low
                                         /\ lease'[v].high = held'[v].high
                        /\ \A i \in Id : held'[v].out[i] \in DoneKind => i \in settled
      BY <1>2 DEF HeldInv
    <2>1. CASE v = u
      BY <1>2, <1>4, <1>5, <1>6, <2>1 DEF IInv, LeaseInv, DoneKind
    <2>2. CASE v # u
      <3>1. held'[v] = held[v] /\ (Leased(v)' => Leased(v) /\ lease'[v] = lease[v])
        BY <1>6, <2>2, Records DEF Leased
      <3>. QED BY <3>1 DEF IInv, HeldInv, Held
    <2>. QED BY <2>1, <2>2
  <1>. QED BY <1>2, <1>4, <1>6, <1>7, <1>8, MoveLease

\* A lease that runs out still covers its messages.
LEMMA ExpireLeaseInv ==
  ASSUME IInv, NEW t \in LeaseToken, ExpireLease(t)
  PROVE  IInv'
  <1> DEFINE row == [lease[t] EXCEPT !.expired = TRUE]
  <1>1. /\ lease[t] \in LeaseRow /\ lease \in [LeaseToken -> LeaseRow]
    BY DEF IInv, TypeOK
  <1>2. /\ Leased(t) /\ lease' = [lease EXCEPT ![t] = row]
        /\ UNCHANGED <<claimed, committed, target, held, exc, work, settled, stalls>>
    BY DEF ExpireLease
  <1>3. row \in LeaseRow /\ row.low = lease[t].low /\ row.high = lease[t].high
    BY <1>1 DEF LeaseRow
  <1> HIDE DEF row
  <1>4. \A v \in LeaseToken :
          lease'[v] = IF v = t THEN row ELSE IF v = t THEN NoLease ELSE lease[v]
    BY <1>1, <1>2
  <1>5. TypeOK'
    BY <1>1, <1>2, <1>3 DEF IInv, TypeOK
  <1>6. HeldInv'
    BY <1>2, <1>3, <1>4 DEF IInv, HeldInv, Held, Leased
  <1>. QED BY <1>2, <1>3, <1>4, <1>5, <1>6, MoveLease

\* A surrendered range keeps its row under a token nobody remembers.
LEMMA ForceReclaimInv ==
  ASSUME IInv, NEW t \in LeaseToken, NEW u \in LeaseToken, ForceReclaim(t, u)
  PROVE  IInv'
  <1> DEFINE row == [lease[t] EXCEPT !.reclaims = Larger(@ - 1, -1), !.expired = TRUE]
  <1>1. /\ lease[t] \in LeaseRow /\ lease \in [LeaseToken -> LeaseRow]
        /\ held \in [LeaseToken -> RangeState] /\ stalls \in 0 .. MaxStalls
        /\ lease[t].reclaims \in -1 .. MaxRangeReclaims - 1
    BY DEF IInv, TypeOK, LeaseRow
  <1>2. /\ Leased(t) /\ (u = t \/ (~Held(u) /\ ~Leased(u))) /\ stalls < MaxStalls
        /\ lease' = [lease EXCEPT ![t] = NoLease, ![u] = row]
        /\ held' = [held EXCEPT ![t] = NoRange] /\ stalls' = stalls + 1
        /\ UNCHANGED <<claimed, committed, target, exc, work, settled>>
    BY DEF ForceReclaim, Fresh
  <1>3. Larger(lease[t].reclaims - 1, -1) \in -1 .. MaxRangeReclaims - 1
    BY <1>1, GroupBounds DEF Larger
  <1>4. row \in LeaseRow /\ row.low = lease[t].low /\ row.high = lease[t].high
    BY <1>1, <1>3 DEF LeaseRow
  <1> HIDE DEF row
  <1>5. \A v \in LeaseToken :
          /\ lease'[v] = IF v = u THEN row ELSE IF v = t THEN NoLease ELSE lease[v]
          /\ held'[v] = IF v = t THEN NoRange ELSE held[v]
    BY <1>1, <1>2
  <1>6. stalls' \in 0 .. MaxStalls
    BY <1>1, <1>2, GroupBounds
  <1>7. TypeOK'
    BY <1>1, <1>2, <1>4, <1>6, Records DEF IInv, TypeOK
  <1>8. HeldInv'
    <2> SUFFICES ASSUME NEW v \in LeaseToken, Held(v)'
                 PROVE  /\ held'[v].high <= claimed
                        /\ Leased(v)' => /\ lease'[v].low = held'[v].low
                                         /\ lease'[v].high = held'[v].high
                        /\ \A i \in Id : held'[v].out[i] \in DoneKind => i \in settled
      BY <1>2 DEF HeldInv
    <2>1. v # t /\ held'[v] = held[v] /\ Held(v)
      BY <1>5, Records DEF Held
    <2>2. v # u
      BY <1>2, <2>1
    <2>3. lease'[v] = lease[v]
      BY <1>5, <2>1, <2>2
    <2>. QED BY <2>1, <2>3 DEF IInv, HeldInv, Leased
  <1>. QED BY <1>2, <1>4, <1>5, <1>7, <1>8, MoveLease

\* A quarantine gives every message of the lease a row of its own.
LEMMA QuarantineInv ==
  ASSUME IInv, NEW t \in LeaseToken, Quarantine(t)
  PROVE  IInv'
  <1> DEFINE S == {i \in Id : InLease(t, i) /\ Row[i] # "gap"}
  <1>1. /\ Leased(t)
        /\ exc' = [i \in Id |-> IF i \in S THEN NewRow("ready", 0) ELSE exc[i]]
        /\ lease' = [lease EXCEPT ![t] = NoLease]
        /\ UNCHANGED <<claimed, committed, target, held, work, settled, stalls>>
    BY DEF Quarantine
  <1>2. /\ S \in SUBSET Id /\ \A i \in S : InLease(t, i)
        /\ \A i \in Id \ S : ~(InLease(t, i) /\ Readable(i))
    BY DEF Readable
  <1>3. /\ NewRow("ready", 0) \in ExceptionRow /\ GoodRow(NewRow("ready", 0))
        /\ NewRow("ready", 0).status = "ready"
    BY NewRows
  <1> HIDE DEF S
  <1>4. TypeOK'
    BY <1>1, <1>3, Records DEF IInv, TypeOK
  <1>5. \A v \in LeaseToken : lease'[v] = IF v = t THEN NoLease ELSE lease[v]
    BY <1>1 DEF IInv, TypeOK
  <1>6. HeldInv'
    BY <1>1, <1>5, Records DEF IInv, HeldInv, Held, Leased
  <1>7. /\ \A i \in S : exc'[i] = NewRow("ready", 0)
        /\ \A i \in Id \ S : exc'[i] = exc[i]
    BY <1>1, <1>2
  <1>8. NoLease \in LeaseRow /\ NoLease.high = 0
    BY Records
  <1>. QED BY <1>1, <1>2, <1>3, <1>4, <1>5, <1>6, <1>7, <1>8, ShrinkLease

\* The outcomes of a held range up to p become rows of the window: they are
\* inside the range, and every other resolved message of it is settled.
LEMMA OutcomesInv ==
  ASSUME IInv, NEW t \in LeaseToken, Held(t), Leased(t), NEW p \in 0 .. MaxId,
         \A i \in Id : InRange(t, i) /\ Readable(i) /\ i <= p => held[t].out[i] # "none"
  PROVE  /\ Outcomes(t, p) \in SUBSET Id
         /\ WithOutcomes(t, p) \in [Id -> ExceptionRow]
         /\ \A i \in Id \ Outcomes(t, p) : WithOutcomes(t, p)[i] = exc[i]
         /\ \A i \in Outcomes(t, p) :
              /\ WithOutcomes(t, p)[i].status \notin {"none", "superseded"}
              /\ GoodRow(WithOutcomes(t, p)[i])
              /\ InLease(t, i) /\ i <= p
         /\ \A i \in Id \ Outcomes(t, p) :
              InLease(t, i) /\ i <= p /\ Readable(i) => i \in settled
  <1>1. \A i \in Id : held[t].out[i] \in Kind \cup {"none"} /\ exc[i] \in ExceptionRow
    BY DEF IInv, TypeOK, RangeState
  <1>2. \A i \in Id : InLease(t, i) <=> InRange(t, i)
    BY DEF IInv, HeldInv, InLease, InRange
  <1>3. \A i \in Outcomes(t, p) :
          /\ i \in Id /\ InRange(t, i) /\ i <= p
          /\ OutcomeRow(held[t].out[i]) \in ExceptionRow
          /\ GoodRow(OutcomeRow(held[t].out[i]))
          /\ OutcomeRow(held[t].out[i]).status \notin {"none", "superseded"}
    BY <1>1, OutcomeRows DEF Outcomes
  <1>4. \A i \in Id \ Outcomes(t, p) :
          InRange(t, i) /\ i <= p /\ Readable(i) => i \in settled
    BY DEF Outcomes, IInv, HeldInv, DoneKind
  <1>5. Outcomes(t, p) \in SUBSET Id
    BY DEF Outcomes
  <1>. QED BY <1>1, <1>2, <1>3, <1>4, <1>5 DEF WithOutcomes

\* A commit frees the lease; all its messages are settled or have a row.
LEMMA CommitRangeInv ==
  ASSUME IInv, NEW t \in LeaseToken, CommitRange(t)
  PROVE  IInv'
  <1> DEFINE S == Outcomes(t, MaxId)
  <1>1. /\ Held(t) /\ AllResolved(t) /\ Leased(t)
        /\ lease' = [lease EXCEPT ![t] = NoLease] /\ exc' = WithOutcomes(t, MaxId)
        /\ held' \in {held, [held EXCEPT ![t] = NoRange]}
        /\ UNCHANGED <<claimed, committed, target, work, settled, stalls>>
    BY DEF CommitRange
  <1>2. MaxId \in 0 .. MaxId /\ \A i \in Id : i <= MaxId
    BY GroupBounds DEF Id
  <1>3. /\ S \in SUBSET Id /\ exc' \in [Id -> ExceptionRow]
        /\ \A i \in Id \ S : exc'[i] = exc[i]
        /\ \A i \in S : /\ exc'[i].status \notin {"none", "superseded"}
                        /\ GoodRow(exc'[i]) /\ InLease(t, i)
        /\ \A i \in Id \ S : InLease(t, i) /\ Readable(i) => i \in settled
    BY <1>1, <1>2, OutcomesInv DEF AllResolved
  <1> HIDE DEF S
  <1>4. TypeOK'
    BY <1>1, <1>3, Records DEF IInv, TypeOK
  <1>5. \A v \in LeaseToken :
          /\ lease'[v] = IF v = t THEN NoLease ELSE lease[v]
          /\ held'[v] = held[v] \/ held'[v] = NoRange
    BY <1>1 DEF IInv, TypeOK
  <1>6. HeldInv'
    BY <1>1, <1>5, Records DEF IInv, HeldInv, Held, Leased
  <1>7. NoLease \in LeaseRow /\ NoLease.high = 0
    BY Records
  <1>. QED BY <1>1, <1>3, <1>4, <1>5, <1>6, <1>7, ShrinkLease

\* A partial commit narrows the lease to the messages that are still pending.
LEMMA PartialCommitInv ==
  ASSUME IInv, NEW t \in LeaseToken, NEW p \in Id, PartialCommit(t, p)
  PROVE  IInv'
  <1> DEFINE S == Outcomes(t, p)
             row == [lease[t] EXCEPT !.low = p]
  <1>1. /\ Held(t) /\ IsLastProcessed(t, p) /\ Leased(t)
        /\ lease' = [lease EXCEPT ![t] = row] /\ exc' = WithOutcomes(t, p)
        /\ held' = [held EXCEPT ![t] = NoRange]
        /\ UNCHANGED <<claimed, committed, target, work, settled, stalls>>
    BY DEF PartialCommit
  <1>2. p \in 0 .. MaxId /\ lease[t] \in LeaseRow
    BY DEF Id, IInv, TypeOK
  <1>3. row \in LeaseRow /\ row.low = p /\ row.high = lease[t].high
    BY <1>2 DEF LeaseRow
  <1>4. row.high # 0 /\ lease[t].low <= row.low
    <2>1. lease[t].low < p
      BY <1>1 DEF IsLastProcessed, InRange, IInv, HeldInv
    <2>2. lease[t].low \in 0 .. MaxId
      BY <1>2 DEF LeaseRow
    <2>. QED BY <1>1, <1>2, <1>3, <2>1, <2>2 DEF Leased
  <1>5. /\ S \in SUBSET Id /\ exc' \in [Id -> ExceptionRow]
        /\ \A i \in Id \ S : exc'[i] = exc[i]
        /\ \A i \in S : /\ exc'[i].status \notin {"none", "superseded"} /\ GoodRow(exc'[i])
                        /\ InLease(t, i) /\ i <= p
        /\ \A i \in Id \ S : InLease(t, i) /\ i <= p /\ Readable(i) => i \in settled
    BY <1>1, <1>2, OutcomesInv DEF IsLastProcessed
  <1> HIDE DEF S, row
  <1>6. TypeOK'
    BY <1>1, <1>3, <1>5, Records DEF IInv, TypeOK
  <1>7. \A v \in LeaseToken :
          /\ lease'[v] = IF v = t THEN row ELSE lease[v]
          /\ held'[v] = IF v = t THEN NoRange ELSE held[v]
    BY <1>1 DEF IInv, TypeOK
  <1>8. HeldInv'
    BY <1>1, <1>7, Records DEF IInv, HeldInv, Held, Leased
  <1>9. /\ \A i \in S : /\ exc'[i].status \notin {"none", "superseded"} /\ GoodRow(exc'[i])
                        /\ InLease(t, i) /\ (row.high = 0 \/ i <= row.low)
        /\ \A i \in Id \ S : InLease(t, i) /\ (row.high = 0 \/ i <= row.low) /\ Readable(i)
                             => i \in settled
    BY <1>3, <1>4, <1>5
  <1>10. /\ \A v \in LeaseToken : lease'[v] = IF v = t THEN row ELSE lease[v]
         /\ row.high # 0 => row.high = lease[t].high /\ lease[t].low <= row.low
         /\ \A i \in Id \ S : exc'[i] = exc[i]
         /\ S \in SUBSET Id /\ row \in LeaseRow /\ Leased(t)
         /\ UNCHANGED <<claimed, committed, target, settled>>
    BY <1>1, <1>3, <1>4, <1>5, <1>7
  <1>. QED BY <1>6, <1>8, <1>9, <1>10, ShrinkLease

\* A process that writes outcomes into its range changes nothing that others
\* see; the messages it counts as done are settled.
LEMMA RangeOutcome ==
  ASSUME IInv, NEW t \in LeaseToken, NEW out \in [Id -> Kind \cup {"none"}],
         held' = [held EXCEPT ![t].out = out],
         \A j \in Id : Held(t) /\ out[j] \in DoneKind => j \in settled',
         settled \subseteq settled', settled' \in SUBSET Id, stalls' \in 0 .. MaxStalls,
         UNCHANGED <<claimed, committed, target, lease, exc, work>>
  PROVE  IInv'
  <1> DEFINE range == [held[t] EXCEPT !.out = out]
  <1>1. held[t] \in RangeState /\ held \in [LeaseToken -> RangeState]
    BY DEF IInv, TypeOK
  <1>2. held' = [held EXCEPT ![t] = range]
    OBVIOUS
  <1>3. /\ range \in RangeState /\ range.low = held[t].low /\ range.high = held[t].high
        /\ range.out = out
    BY <1>1 DEF RangeState
  <1> HIDE DEF range
  <1>4. \A v \in LeaseToken : held'[v] = IF v = t THEN range ELSE held[v]
    BY <1>1, <1>2
  <1>5. TypeOK'
    BY <1>1, <1>2, <1>3 DEF IInv, TypeOK
  <1>6. HeldInv'
    <2> SUFFICES ASSUME NEW v \in LeaseToken, Held(v)'
                 PROVE  /\ held'[v].high <= claimed
                        /\ Leased(v) => /\ lease[v].low = held'[v].low
                                        /\ lease[v].high = held'[v].high
                        /\ \A j \in Id : held'[v].out[j] \in DoneKind => j \in settled'
      BY DEF HeldInv, Leased
    <2>1. CASE v = t
      BY <1>3, <1>4, <2>1 DEF IInv, HeldInv, Held
    <2>2. CASE v # t
      BY <1>4, <2>2 DEF IInv, HeldInv, Held
    <2>. QED BY <2>1, <2>2
  <1>7. RowInv' /\ LeaseInv' /\ OneOwnerPerMessage' /\ CommittedIsResolved'
    BY DEF IInv, RowInv, LeaseInv, OneOwnerPerMessage, CommittedIsResolved,
           NothingOpenBelow, Unresolved, Leased, InLease
  <1>8. NoMessageLost'
    BY DEF IInv, NoMessageLost, Accounted, Readable, Leased, InLease
  <1>. QED BY <1>5, <1>6, <1>7, <1>8 DEF IInv

\* A process that resolves a message of its range settles it or keeps its
\* outcome for the commit.
LEMMA ResolveInv ==
  ASSUME IInv, NEW t \in LeaseToken, NEW i \in Id, NEW kind \in Kind, Resolve(t, i, kind)
  PROVE  IInv'
  <1> DEFINE out == [held[t].out EXCEPT ![i] = kind]
  <1>1. /\ Held(t) /\ held' = [held EXCEPT ![t].out = out]
        /\ (kind = "deferred" => stalls < MaxStalls)
        /\ settled' = IF kind \in DoneKind THEN settled \cup {i} ELSE settled
        /\ stalls' = IF kind = "deferred" THEN stalls + 1 ELSE stalls
        /\ UNCHANGED <<claimed, committed, target, lease, exc, work>>
    BY DEF Resolve, DoneKind
  <1>2. held[t].out \in [Id -> Kind \cup {"none"}]
    BY DEF IInv, TypeOK, RangeState
  <1>3. /\ out \in [Id -> Kind \cup {"none"}]
        /\ \A j \in Id : out[j] = IF j = i THEN kind ELSE held[t].out[j]
    BY <1>2
  <1> HIDE DEF out
  <1>4. settled \subseteq settled' /\ settled' \in SUBSET Id /\ stalls' \in 0 .. MaxStalls
    BY <1>1, GroupBounds DEF IInv, TypeOK
  <1>5. \A j \in Id : out[j] \in DoneKind => j \in settled'
    BY <1>1, <1>3, <1>4 DEF IInv, HeldInv
  <1>. QED BY <1>1, <1>3, <1>4, <1>5, RangeOutcome

\* A process that forgets a range takes nothing with it.
LEMMA AbandonRangeInv ==
  ASSUME IInv, NEW t \in LeaseToken, AbandonRange(t)
  PROVE  IInv'
  <1>1. /\ held' = [held EXCEPT ![t] = NoRange]
        /\ UNCHANGED <<claimed, committed, target, lease, exc, work, settled, stalls>>
    BY DEF AbandonRange
  <1>2. TypeOK'
    BY <1>1, Records DEF IInv, TypeOK
  <1>3. \A v \in LeaseToken : held'[v] = IF v = t THEN NoRange ELSE held[v]
    BY <1>1 DEF IInv, TypeOK
  <1>4. HeldInv'
    BY <1>1, <1>3, Records DEF IInv, HeldInv, Held, Leased
  <1>5. RowInv' /\ LeaseInv' /\ OneOwnerPerMessage' /\ CommittedIsResolved'
    BY <1>1 DEF IInv, RowInv, LeaseInv, OneOwnerPerMessage, CommittedIsResolved,
                NothingOpenBelow, Unresolved, Leased, InLease
  <1>6. NoMessageLost'
    BY <1>1 DEF IInv, NoMessageLost, Accounted, Readable, Leased, InLease
  <1>. QED BY <1>2, <1>4, <1>5, <1>6 DEF IInv

\* The advancer: the least blocker has nothing open below it, and stays so until
\* it is applied.
LEMMA AdvanceInv ==
  ASSUME IInv, (\E m \in 0 .. MaxId : SelectTarget(m)) \/ ApplyTarget
  PROVE  IInv'
  <1>1. UNCHANGED <<claimed, lease, held, exc, work, settled, stalls>>
    BY DEF SelectTarget, ApplyTarget
  <1>2. RowInv' /\ LeaseInv' /\ HeldInv' /\ OneOwnerPerMessage'
    BY <1>1 DEF IInv, RowInv, LeaseInv, HeldInv, OneOwnerPerMessage, Leased, Held, InLease
  <1>3. NoMessageLost'
    BY <1>1 DEF IInv, NoMessageLost, Accounted, Readable, Leased, InLease
  <1>4. \A m : NothingOpenBelow(m) => /\ m <= claimed'
                                      /\ \A t \in LeaseToken : Leased(t)' => m <= lease'[t].low
                                      /\ \A i \in Id : Unresolved(i)' => m < i
    BY <1>1 DEF NothingOpenBelow, Leased, Unresolved
  <1>5. ASSUME NEW m \in 0 .. MaxId, SelectTarget(m) PROVE IInv'
    <2>1. target' = m /\ committed' = committed /\ m \in Blockers /\ \A b \in Blockers : m <= b
      BY <1>5 DEF SelectTarget
    <2>2. NothingOpenBelow(m)
      <3>1. m <= claimed /\ \A t \in LeaseToken : Leased(t) => m <= lease[t].low
        BY <2>1 DEF Blockers
      <3>2. ASSUME NEW i \in Id, Unresolved(i) PROVE m < i
        <4>1. m <= i - 1
          BY <2>1, <3>2 DEF Blockers
        <4>. QED BY <4>1 DEF Id
      <3>. QED BY <3>1, <3>2 DEF NothingOpenBelow
    <2>3. CommittedIsResolved'
      BY <1>4, <2>1, <2>2 DEF IInv, CommittedIsResolved, NothingOpenBelow
    <2>4. TypeOK'
      BY <1>1, <2>1 DEF IInv, TypeOK
    <2>. QED BY <1>2, <1>3, <2>3, <2>4 DEF IInv
  <1>6. CASE ApplyTarget
    <2>1. target' = -1 /\ (committed' = committed \/ committed' = target)
      BY <1>6 DEF ApplyTarget, Larger
    <2>2. TypeOK'
      <3>1. committed' \in 0 .. MaxId
        BY <1>6, GroupBounds DEF ApplyTarget, Larger, IInv, TypeOK
      <3>. QED BY <1>1, <2>1, <3>1, GroupBounds DEF IInv, TypeOK
    <2>3. NothingOpenBelow(-1)
      <3>1. /\ claimed \in Nat /\ \A i \in Id : i \in Nat
            /\ \A t \in LeaseToken : lease[t].low \in Nat
        BY DEF IInv, TypeOK, LeaseRow, Id
      <3>. QED BY <3>1 DEF NothingOpenBelow
    <2>4. CommittedIsResolved'
      BY <1>4, <2>1, <2>3 DEF IInv, CommittedIsResolved, NothingOpenBelow
    <2>. QED BY <1>2, <1>3, <2>2, <2>4 DEF IInv
  <1>. QED BY <1>5, <1>6

\* Every step preserves the invariant.
LEMMA StepInv == IInv /\ [Next]_vars => IInv'
  <1> SUFFICES ASSUME IInv, [Next]_vars PROVE IInv'
    OBVIOUS
  <1>1. CASE Next
    <2>1. ASSUME NEW t \in LeaseToken, RangeStep(t) PROVE IInv'
      BY <2>1, FreshClaimInv, ReclaimInv, QuarantineInv, ExpireLeaseInv, ResolveInv,
         CommitRangeInv, PartialCommitInv, ForceReclaimInv, AbandonRangeInv
      DEF RangeStep
    <2>. QED BY <1>1, <2>1, RunStepInv, AdvanceInv DEF Next
  <1>2. CASE UNCHANGED vars
    <2>1. UNCHANGED <<claimed, committed, target, lease, held, exc, work, settled, stalls>>
      BY <1>2 DEF vars
    <2>2. /\ settled' \in SUBSET Id /\ work' \in [RunToken -> 0 .. MaxId]
          /\ stalls' \in 0 .. MaxStalls /\ exc' \in [Id -> ExceptionRow]
      BY <2>1 DEF IInv, TypeOK
    <2>. QED BY <2>1, <2>2, WindowStep
  <1>. QED BY <1>1, <1>2

\* A good row is within its budget.
LEMMA BudgetHolds == IInv => AttemptsWithinBudget
  BY DEF IInv, RowInv, GoodRow, Open, AttemptsWithinBudget, Unresolved, Failures

\* The invariant holds in every behaviour of a group.
THEOREM Invariant == Spec => []IInv
  BY InitInv, StepInv, PTL DEF Spec

-----------------------------------------------------------------------------
\* Every variable keeps its type; a row's counters stay natural although two of
\* the outcomes give an attempt back.
THEOREM TypeCorrect == Spec => []TypeOK
  <1>1. IInv => TypeOK
    BY DEF IInv
  <1>. QED BY <1>1, Invariant, PTL

\* At least once, in every group: a readable message below the frontier is
\* settled, covered by an open lease or has a row in the exception window,
\* whatever crashes, expires, is reclaimed, quarantined, surrendered or
\* committed late.
THEOREM NothingLost == Spec => []NoMessageLost
  <1>1. IInv => NoMessageLost
    BY DEF IInv
  <1>. QED BY <1>1, Invariant, PTL

\* Open leases never overlap and never cover a message that has a row: commit
\* and quarantine never meet the primary key of exception_queue.
THEOREM OneOwner == Spec => []OneOwnerPerMessage
  <1>1. IInv => OneOwnerPerMessage
    BY DEF IInv
  <1>. QED BY <1>1, Invariant, PTL

\* Nothing is open at or below the committed mark, nor below a target that was
\* selected and not yet applied.
THEOREM CommittedResolved == Spec => []CommittedIsResolved
  <1>1. IInv => CommittedIsResolved
    BY DEF IInv
  <1>. QED BY <1>1, Invariant, PTL

\* No row of the window exceeds its budget, and one that waits has a run left.
THEOREM WithinBudget == Spec => []AttemptsWithinBudget
  BY BudgetHolds, Invariant, PTL

\* Whatever a step does, it rewrites only rows that are open and ids that had no
\* row, and it moves neither mark back.
LEMMA StepForward == IInv /\ Next => ForwardStep
  <1> SUFFICES ASSUME IInv, Next PROVE ForwardStep
    OBVIOUS
  <1>t. /\ claimed \in 0 .. MaxId /\ committed \in 0 .. MaxId /\ target \in -1 .. MaxId
        /\ exc \in [Id -> ExceptionRow]
    BY DEF IInv, TypeOK
  <1>s. ASSUME committed' = committed, claimed' = claimed,
               \A i \in Id : exc[i].status \in {"dead", "superseded"} => exc'[i] = exc[i]
        PROVE  ForwardStep
    BY <1>s, <1>t DEF ForwardStep
  <1>1. ASSUME NEW t \in LeaseToken, RangeStep(t) PROVE ForwardStep
    <2>1. ASSUME NEW high \in Id, FreshClaim(t, high) PROVE ForwardStep
      <3>1. claimed' = high /\ claimed < high /\ UNCHANGED <<committed, exc>> /\ high \in Nat
        BY <2>1 DEF FreshClaim, Id
      <3>. QED BY <1>t, <3>1 DEF ForwardStep
    <2>2. CASE Quarantine(t)
      BY <1>s, <2>2 DEF Quarantine, Insertable
    <2>3. CASE CommitRange(t)
      BY <1>s, <2>3 DEF CommitRange, Insertable, WithOutcomes
    <2>4. ASSUME NEW p \in Id, PartialCommit(t, p) PROVE ForwardStep
      BY <1>s, <2>4 DEF PartialCommit, Insertable, WithOutcomes
    <2>5. CASE UNCHANGED <<claimed, committed, exc>>
      BY <1>s, <2>5
    <2>. QED BY <1>1, <2>1, <2>2, <2>3, <2>4, <2>5
         DEF RangeStep, Reclaim, ExpireLease, Resolve, ForceReclaim, AbandonRange
  <1>2. ASSUME NEW t \in RunToken, RunStep(t) PROVE ForwardStep
    <2>1. ASSUME NEW i \in Id, ClaimException(i, t) PROVE ForwardStep
      <3>1. exc[i].status \notin {"dead", "superseded"}
        BY <2>1 DEF ClaimException, Claimable
      <3>. QED BY <1>s, <1>t, <2>1, <3>1 DEF ClaimException
    <2>2. CASE RenewLease(t) \/ RecordRun(t)
      <3>1. Owns(t)
        BY <2>2 DEF RenewLease, RecordRun, RecordSuccess, RecordFailure, RecordDelayed,
                    RecordTerminal, RecordSuperseded, RecordDeferred
      <3>2. work[t] \in Id /\ exc[work[t]].status = "inflight"
        BY <3>1, OwnedRow
      <3>3. /\ claimed' = claimed /\ committed' = committed
            /\ \E r : exc' = [exc EXCEPT ![work[t]] = r]
        <4>1. CASE RenewLease(t)
          BY <4>1 DEF RenewLease
        <4>2. CASE RecordRun(t)
          BY <4>2 DEF RecordRun, RecordSuccess, RecordFailure, RecordDelayed,
                      RecordTerminal, RecordSuperseded, RecordDeferred, Record
        <4>. QED BY <2>2, <4>1, <4>2
      <3>4. \A i \in Id : i # work[t] => exc'[i] = exc[i]
        BY <1>t, <3>3
      <3>. QED BY <1>s, <3>2, <3>3, <3>4
    <2>3. CASE AbandonRun(t)
      BY <1>s, <2>3 DEF AbandonRun
    <2>. QED BY <1>2, <2>1, <2>2, <2>3 DEF RunStep
  <1>3. CASE Kill
    BY <1>s, <1>3 DEF Kill, Killable
  <1>4. ASSUME NEW i \in Id, ExpireRun(i) PROVE ForwardStep
    BY <1>s, <1>t, <1>4 DEF ExpireRun
  <1>5. ASSUME NEW m \in 0 .. MaxId, SelectTarget(m) PROVE ForwardStep
    BY <1>s, <1>5 DEF SelectTarget
  <1>6. CASE ApplyTarget
    <2>1. UNCHANGED <<claimed, exc>> /\ committed <= committed'
      BY <1>t, <1>6 DEF ApplyTarget, Larger
    <2>. QED BY <1>t, <2>1 DEF ForwardStep
  <1>. QED BY <1>1, <1>2, <1>3, <1>4, <1>5, <1>6 DEF Next

\* The committed mark and the frontier never move back, and a dead or superseded
\* row is never touched again, not even by a run that finishes late.
THEOREM NeverBack == Spec => Forward
  <1>1. IInv /\ [Next]_vars => [ForwardStep]_vars
    BY StepForward
  <1>. QED BY <1>1, Invariant, PTL DEF Spec, Forward

-----------------------------------------------------------------------------
(* Ordered keys.  The ordered group writes the tables of CursorGroup with   *)
(* the same transactions, so CursorGroup's invariant carries over.  With    *)
(* it, the two halves of the gate are enough: below the committed mark      *)
(* nothing is open, and above it only the caller's own chain can be.        *)

\* What a delivery runs is a message of the log.
OInv == IInv /\ running \in [Delivery -> 0 .. MaxId]

-----------------------------------------------------------------------------
\* The outcome of message i of a chain, which may defer the messages behind it.
LEMMA ResolvedInv ==
  ASSUME IInv, NEW t \in LeaseToken, NEW i \in Id, NEW kind \in Kind, Held(t),
         held' = Resolved(t, i, kind),
         settled' = IF kind \in DoneKind THEN settled \cup {i} ELSE settled,
         UNCHANGED <<claimed, committed, target, lease, exc, work, stalls>>
  PROVE  IInv'
  <1> DEFINE out == [j \in Id |-> CASE j = i -> kind
                                    [] j > i /\ InRange(t, j) /\ Readable(j)
                                         /\ kind \notin {"success", "terminal"} -> "deferred"
                                    [] OTHER -> held[t].out[j]]
  <1>1. held' = [held EXCEPT ![t].out = out]
    BY DEF Resolved
  <1>2. held[t].out \in [Id -> Kind \cup {"none"}]
    BY DEF IInv, TypeOK, RangeState
  <1>3. \A j \in Id : \/ j = i /\ out[j] = kind
                      \/ j # i /\ (out[j] = "deferred" \/ out[j] = held[t].out[j])
    <2> SUFFICES ASSUME NEW j \in Id
                 PROVE  \/ j = i /\ out[j] = kind
                        \/ j # i /\ (out[j] = "deferred" \/ out[j] = held[t].out[j])
      OBVIOUS
    <2> DEFINE behind == j > i /\ InRange(t, j) /\ Readable(j)
                           /\ kind \notin {"success", "terminal"}
    <2>1. out[j] = CASE j = i -> kind
                     [] behind -> "deferred"
                     [] OTHER -> held[t].out[j]
      OBVIOUS
    <2>2. j = i => ~behind
      BY DEF Id
    <2> HIDE DEF out, behind
    <2>3. CASE j = i
      BY <2>1, <2>2, <2>3
    <2>4. CASE j # i /\ behind
      BY <2>1, <2>4
    <2>5. CASE j # i /\ ~behind
      BY <2>1, <2>5
    <2>. QED BY <2>3, <2>4, <2>5
  <1>4. DOMAIN out = Id /\ out = [j \in Id |-> out[j]]
    OBVIOUS
  <1> HIDE DEF out
  <1>5. out \in [Id -> Kind \cup {"none"}]
    BY <1>2, <1>3, <1>4 DEF Kind
  <1>6. settled \subseteq settled' /\ settled' \in SUBSET Id /\ stalls' \in 0 .. MaxStalls
    BY DEF IInv, TypeOK
  <1>7. \A j \in Id : out[j] \in DoneKind => j \in settled'
    BY <1>3, <1>6 DEF IInv, HeldInv, DoneKind
  <1>. QED BY <1>1, <1>5, <1>6, <1>7, RangeOutcome

\* The steps that only concern the key leave the tables alone.
LEMMA SameTables ==
  ASSUME IInv, UNCHANGED vars
  PROVE  IInv'
  BY StepInv

\* Every step of an ordered group preserves the invariant.
LEMMA OrderedStepInv == OInv /\ [OrderedNext]_allVars => OInv'
  <1> SUFFICES ASSUME OInv, [OrderedNext]_allVars PROVE OInv'
    OBVIOUS
  <1>i. IInv
    BY DEF OInv
  <1>r. running \in [Delivery -> 0 .. MaxId] /\ 0 \in 0 .. MaxId /\ Id \subseteq 0 .. MaxId
    BY GroupBounds DEF OInv, Id
  <1>1. ASSUME NEW t \in LeaseToken, OrderedRangeStep(t) PROVE OInv'
    <2>d. t \in Delivery
      BY DEF Delivery
    <2>1. ASSUME NEW i \in Id, StartInRange(t, i) PROVE OInv'
      BY <1>i, <1>r, <2>1, SameTables DEF OInv, StartInRange, Acquire
    <2>2. ASSUME NEW i \in Id, DeferInRange(t, i) \/ FailInRange(t, i) PROVE OInv'
      <3>1. /\ Held(t) /\ running' = running
            /\ \/ held' = Resolved(t, i, "deferred")
               \/ held' = Resolved(t, i, "exception")
            /\ UNCHANGED <<claimed, committed, target, lease, exc, work, settled, stalls>>
        BY <2>2 DEF DeferInRange, FailInRange, NextInChain, keyVars
      <3>2. /\ "deferred" \in Kind \ DoneKind /\ "exception" \in Kind \ DoneKind
        BY DEF Kind, DoneKind
      <3>. QED BY <1>i, <1>r, <3>1, <3>2, ResolvedInv DEF OInv
    <2>3. ASSUME NEW kind \in Kind, FinishInRange(t, kind) PROVE OInv'
      <3>1. running[t] \in Id
        BY <1>r, <2>d, <2>3 DEF FinishInRange, Id
      <3>2. IInv'
        BY <1>i, <2>3, <3>1, ResolvedInv DEF FinishInRange, DoneKind
      <3>. QED BY <1>r, <2>3, <3>2 DEF OInv, FinishInRange
    <2>4. ASSUME UNCHANGED keyVars,
                 \/ \E high \in Id : FreshClaim(t, high)
                 \/ \E u \in LeaseToken : Reclaim(t, u) \/ ForceReclaim(t, u)
                 \/ Quarantine(t) \/ ExpireLease(t) \/ CommitRange(t)
          PROVE  OInv'
      <3>1. IInv'
        BY <1>i, <2>4, FreshClaimInv, ReclaimInv, QuarantineInv, ExpireLeaseInv,
           CommitRangeInv, ForceReclaimInv
      <3>. QED BY <1>r, <2>4, <3>1 DEF OInv, keyVars
    <2>5. ASSUME Forget(t), AbandonRange(t) \/ \E p \in Id : PartialCommit(t, p) PROVE OInv'
      <3>1. IInv'
        BY <1>i, <2>5, PartialCommitInv, AbandonRangeInv
      <3>. QED BY <1>r, <2>5, <3>1 DEF OInv, Forget
    <2>. QED BY <1>1, <2>1, <2>2, <2>3, <2>4, <2>5 DEF OrderedRangeStep
  <1>2. ASSUME NEW t \in RunToken, OrderedRunStep(t) PROVE OInv'
    <2>d. t \in Delivery /\ work[t] \in 0 .. MaxId
      BY <1>i DEF Delivery, IInv, TypeOK
    <2>1. CASE StartException(t)
      BY <1>i, <1>r, <2>d, <2>1, SameTables DEF OInv, StartException, Acquire
    <2>2. CASE DeferException(t)
      <3>0. Owns(t) /\ Record(t, "deferred", Attempts(t) - 1, Delays(t))
            /\ UNCHANGED <<settled, stalls, running>>
        BY <2>2 DEF DeferException, keyVars
      <3>1. /\ Attempts(t) - 1 \in Nat /\ Delays(t) \in Nat
            /\ (Attempts(t) - 1) - Delays(t) < MaxRetries
        BY <1>i, <3>0, OwnedRow, GroupBounds DEF Attempts, Delays
      <3>2. settled \in SUBSET Id /\ stalls \in 0 .. MaxStalls
        BY <1>i DEF IInv, TypeOK
      <3>3. IInv'
        BY <1>i, <3>0, <3>1, <3>2, RecordInv
      <3>. QED BY <1>r, <3>0, <3>3 DEF OInv
    <2>3. CASE FailException(t)
      <3>1. RecordRun(t) /\ running' = running
        BY <2>3 DEF FailException, RecordRun, keyVars
      <3>. QED BY <1>i, <1>r, <3>1, RecordRunInv DEF OInv
    <2>4. CASE FinishException(t)
      <3>1. RecordRun(t) /\ running' = [running EXCEPT ![t] = 0]
        BY <2>4 DEF FinishException, RecordRun, EndRun
      <3>. QED BY <1>i, <1>r, <3>1, RecordRunInv DEF OInv
    <2>5. CASE \/ \E i \in Id : ClaimOrderedException(i, t)
               \/ RenewLease(t) /\ running[t] = 0 /\ UNCHANGED keyVars
               \/ LoseException(t)
               \/ AbandonRun(t) /\ Forget(t)
      <3>1. /\ RunStep(t)
            /\ running' \in {running, [running EXCEPT ![t] = 0]}
        BY <2>5 DEF RunStep, ClaimOrderedException, LoseException, Forget, EndRun, keyVars
      <3>2. IInv'
        BY <1>i, <3>1, RunStepInv
      <3>. QED BY <1>r, <3>1, <3>2 DEF OInv
    <2>. QED BY <1>2, <2>1, <2>2, <2>3, <2>4, <2>5 DEF OrderedRunStep
  <1>3. CASE ExpireKey
    BY <1>i, <1>3, SameTables DEF OInv, ExpireKey
  <1>4. CASE /\ \/ Kill
                \/ \E i \in Id : ExpireRun(i)
                \/ \E m \in 0 .. MaxId : SelectTarget(m)
                \/ ApplyTarget
             /\ UNCHANGED keyVars
    <2>1. IInv'
      BY <1>i, <1>4, RunStepInv, AdvanceInv
    <2>. QED BY <1>4, <2>1 DEF OInv, keyVars
  <1>5. CASE UNCHANGED allVars
    BY <1>i, <1>5, SameTables DEF OInv, allVars, keyVars
  <1>. QED BY <1>1, <1>2, <1>3, <1>4, <1>5 DEF OrderedNext

\* The invariant holds in every behaviour of an ordered group.
THEOREM OrderedInvariant == OrderedSpec => []OInv
  <1>1. OrderedInit => OInv
    BY InitInv, GroupBounds DEF OrderedInit, OInv
  <1>. QED BY <1>1, OrderedStepInv, PTL DEF OrderedSpec

\* At least once with the ordered policy too: deferring a chain behind a failed
\* or busy message loses none of it.
THEOREM OrderedNothingLost == OrderedSpec => []NoMessageLost
  <1>1. OInv => NoMessageLost
    BY DEF OInv, IInv
  <1>. QED BY <1>1, OrderedInvariant, PTL

-----------------------------------------------------------------------------
\* Where the gate is open, every earlier message outside the caller's range has
\* its final outcome: above committed there is none, and at or below it nothing
\* is leased or waiting.
LEMMA GateIsEnough ==
  ASSUME IInv, NEW i \in Id, NEW low, NEW high, Gate(i, low, high),
         NEW j \in Id, j < i, Readable(j), ~(low < j /\ j <= high)
  PROVE  Final(j)
  <1>1. j <= committed
    <2>1. InLog(j)
      BY DEF InLog, Readable
    <2>2. ~(j > committed)
      BY <2>1 DEF Gate
    <2>. QED BY <2>2 DEF IInv, TypeOK, Id
  <1>2. committed <= claimed /\ \A t \in LeaseToken : Leased(t) => committed <= lease[t].low
    BY DEF IInv, CommittedIsResolved, NothingOpenBelow
  <1>3. /\ committed \in Nat /\ claimed \in Nat /\ j \in Nat
        /\ \A t \in LeaseToken : lease[t].low \in Nat
    BY DEF IInv, TypeOK, LeaseRow, Id
  <1>4. j <= claimed /\ \A t \in LeaseToken : ~(Leased(t) /\ InLease(t, j))
    BY <1>1, <1>2, <1>3 DEF InLease
  <1>5. j \in settled \/ exc[j].status # "none"
    BY <1>4 DEF IInv, NoMessageLost, Accounted
  <1>6. exc[j].status \notin {"ready", "inflight", "deferred"}
    BY DEF Gate, Unresolved
  <1>7. exc[j] \in ExceptionRow /\ (exc[j].status = "superseded" => j \in settled)
    BY DEF IInv, TypeOK, RowInv
  <1>. QED BY <1>5, <1>6, <1>7 DEF Final, ExceptionRow

\* A message of a chain is next only when the earlier ones of the range are done.
LEMMA ChainIsDone ==
  ASSUME IInv, NEW t \in LeaseToken, NEW i \in Id, NextInChain(t, i),
         NEW j \in Id, j < i, Readable(j), InRange(t, j)
  PROVE  Final(j)
  BY DEF NextInChain, IInv, HeldInv, DoneKind, Final

\* A step starts at most the run it is about.
LEMMA OnlyStarts ==
  ASSUME OInv, OrderedNext, NEW d \in Delivery, running[d] = 0, running'[d] # 0
  PROVE  \/ d \in LeaseToken /\ \E i \in Id : StartInRange(d, i) /\ running'[d] = i
         \/ d \in RunToken /\ StartException(d) /\ running'[d] = work[d]
  <1>r. running \in [Delivery -> 0 .. MaxId]
    BY DEF OInv
  <1>1. ASSUME NEW t \in Delivery PROVE [running EXCEPT ![t] = 0][d] = 0
    BY <1>r
  <1>2. running' # running /\ \A t \in Delivery : running' # [running EXCEPT ![t] = 0]
    <2>1. ASSUME running' = running PROVE FALSE
      BY <2>1
    <2>2. ASSUME NEW t \in Delivery, running' = [running EXCEPT ![t] = 0] PROVE FALSE
      BY <1>1, <2>2
    <2>. QED BY <2>1, <2>2
  <1>3. LeaseToken \subseteq Delivery /\ RunToken \subseteq Delivery
    BY DEF Delivery
  <1>4. ASSUME NEW t \in LeaseToken, OrderedRangeStep(t)
        PROVE  d = t /\ \E i \in Id : StartInRange(d, i) /\ running'[d] = i
    <2>1. PICK i \in Id : StartInRange(t, i)
      BY <1>2, <1>3, <1>4 DEF OrderedRangeStep, DeferInRange, FailInRange, FinishInRange,
                              Forget, keyVars
    <2>2. running' = [running EXCEPT ![t] = i]
      BY <2>1 DEF StartInRange, Acquire
    <2>3. d = t /\ running'[d] = i
      BY <1>r, <1>3, <2>2
    <2>. QED BY <2>1, <2>3
  <1>5. ASSUME NEW t \in RunToken, OrderedRunStep(t)
        PROVE  d = t /\ StartException(d) /\ running'[d] = work[d]
    <2>1. StartException(t)
      BY <1>2, <1>3, <1>5
      DEF OrderedRunStep, ClaimOrderedException, DeferException, FailException,
          FinishException, LoseException, EndRun, Forget, keyVars
    <2>2. running' = [running EXCEPT ![t] = work[t]]
      BY <2>1 DEF StartException, Acquire
    <2>3. d = t /\ running'[d] = work[t]
      BY <1>r, <1>3, <2>2
    <2>. QED BY <2>1, <2>3
  <1>. QED BY <1>2, <1>4, <1>5 DEF OrderedNext, ExpireKey, keyVars

\* Per-key order: in every ordered group a run starts only when every earlier
\* message of the key has succeeded or was given up.
THEOREM OrderedStarts == OrderedSpec => StartsInOrder
  <1>1. ASSUME OInv, [OrderedNext]_allVars,
               NEW d \in Delivery, running[d] = 0, running'[d] # 0,
               NEW j \in Id, j < running'[d], Readable(j)
        PROVE  Final(j)
    <2>1. OrderedNext /\ IInv
      BY <1>1 DEF allVars, keyVars, OInv
    <2>2. ASSUME d \in LeaseToken, NEW i \in Id, StartInRange(d, i), running'[d] = i
          PROVE  Final(j)
      <3>1. NextInChain(d, i) /\ Gate(i, held[d].low, held[d].high)
        BY <2>2 DEF StartInRange
      <3>2. CASE InRange(d, j)
        BY <1>1, <2>1, <2>2, <3>1, <3>2, ChainIsDone
      <3>3. CASE ~InRange(d, j)
        BY <1>1, <2>1, <2>2, <3>1, <3>3, GateIsEnough DEF InRange
      <3>. QED BY <3>2, <3>3
    <2>3. ASSUME d \in RunToken, StartException(d), running'[d] = work[d]
          PROVE  Final(j)
      <3>1. work[d] \in Id /\ Gate(work[d], 0, 0)
        BY <2>1, <2>3 DEF StartException, IInv, TypeOK, Id
      <3>2. ~(0 < j /\ j <= 0)
        BY DEF Id
      <3>. QED BY <1>1, <2>1, <2>3, <3>1, <3>2, GateIsEnough
    <2>. QED BY <1>1, <2>1, <2>2, <2>3, OnlyStarts
  <1>2. OInv /\ [OrderedNext]_allVars =>
          [\A d \in Delivery : running[d] = 0 /\ running'[d] # 0 =>
             \A j \in Id : j < running'[d] /\ Readable(j) => Final(j)]_allVars
    BY <1>1
  <1>. QED BY <1>2, OrderedInvariant, PTL DEF OrderedSpec, StartsInOrder
=============================================================================
