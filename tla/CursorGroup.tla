----------------------------- MODULE CursorGroup -----------------------------
(***************************************************************************)
(* What happens to the messages of one cursor consumer group after the     *)
(* frontier has passed them: range leases and their reclaim, range commit  *)
(* and shutdown (messageconsumer), the exception window (exceptionconsumer)*)
(* and the committed mark (cursoradvancer).                                *)
(*                                                                         *)
(* The rows of claim_lease, exception_queue and consumer_group_cursor are  *)
(* the shared state; each action is one transaction, or one step inside a  *)
(* consumer process.  What a process holds in memory outlives its lease,   *)
(* so every write it makes later may be stale.  A process may die at any   *)
(* step, and a lease may expire at any step: only tokens tell a live owner *)
(* from a stale one.  The frontier is ClaimFrontier's: the claimed ids are *)
(* settled.  Message keys and backoff times are left out.                  *)
(***************************************************************************)
EXTENDS Integers, FiniteSets

CONSTANTS
    MaxId,             \* bound: the log holds the ids 1 .. MaxId
    Row,               \* what each id of the log is to this group
    Limit,             \* ids per fresh claim
    MaxRangeReclaims,  \* reclaims after which a range is quarantined
    MaxRetries,        \* MessageMax.Retry.MaxRetries
    MaxDelays,         \* Retry.MaxDelays, 0 = unlimited
    LeaseToken,        \* bound: range tokens in use at one moment
    RunToken,          \* bound: exception tokens in use at one moment
    NoToken,           \* SQL NULL in lease_token
    MaxStalls          \* bound: surrendered ranges, key deferrals and delays

Id == 1 .. MaxId

\* "normal": read by the group; "gap": the id was never committed; "version":
\* another payload version; "unbound": no binding of the group matches.
RowKind == {"normal", "gap", "version", "unbound"}

ASSUME GroupBounds ==
    /\ MaxId \in Nat /\ MaxStalls \in Nat /\ MaxDelays \in Nat
    /\ Limit \in Nat \ {0} /\ MaxRangeReclaims \in Nat \ {0} /\ MaxRetries \in Nat \ {0}
    /\ Row \in [Id -> RowKind]
    /\ NoToken \notin RunToken

VARIABLES
    claimed,    \* consumer_group_cursor.claimed
    committed,  \* consumer_group_cursor.committed
    target,     \* the advancer's SELECTed target, -1 = none in flight
    lease,      \* claim_lease rows by token
    held,       \* rangeState of the process that was given the token
    exc,        \* exception_queue rows by message id
    work,       \* the message id of the exception claimed under a token, 0 = none
    settled,    \* history: ids with a final outcome: success, terminal, superseded
    stalls      \* surrenders, deferrals and delays so far

vars == <<claimed, committed, target, lease, held, exc, work, settled, stalls>>

Kind == {"success", "exception", "terminal", "deferred", "delayed"}
NoLease == [low |-> 0, high |-> 0, reclaims |-> 0, expired |-> FALSE]
NoRange == [low |-> 0, high |-> 0, out |-> [i \in Id |-> "none"]]
NoRow == [status |-> "none", attempts |-> 0, delays |-> 0,
          token |-> NoToken, expired |-> FALSE]

Larger(a, b)  == IF a >= b THEN a ELSE b
Smaller(a, b) == IF a <= b THEN a ELSE b

-----------------------------------------------------------------------------
Leased(t) == lease[t].high # 0
Held(t)   == held[t].high # 0

\* gen_random_uuid: a token nothing carries and no process remembers.  A row
\* that gets a new token may get its old one back once nobody remembers it.
Fresh(t) == ~Leased(t) /\ ~Held(t)
Rotated(t, u) == ~Held(u) /\ (u = t \/ ~Leased(u))

InLease(t, i) == lease[t].low < i /\ i <= lease[t].high
InRange(t, i) == held[t].low < i /\ i <= held[t].high

\* readMessages: the rows of a range that the group is given.
Readable(i) == Row[i] = "normal"

NewRange(low, high) == [low |-> low, high |-> high, out |-> [i \in Id |-> "none"]]

\* A row of the exception window that still has to be resolved.
Unresolved(i) == exc[i].status \in {"ready", "inflight", "deferred"}

\* attempts - delays: the failures a row has used up.
Failures(i) == exc[i].attempts - exc[i].delays

\* The exception_queue row deliveryStatement writes for an outcome.
NewRow(status, delays) == [NoRow EXCEPT !.status = status, !.delays = delays]
OutcomeRow(kind) ==
    CASE kind = "exception" -> NewRow("ready", 0)
      [] kind = "delayed"   -> NewRow("ready", 1)
      [] kind = "deferred"  -> NewRow("deferred", 0)
      [] kind = "terminal"  -> NewRow("dead", 0)
      [] OTHER              -> NoRow

\* The primary key (group, message_id): inserting an existing row fails and the
\* transaction rolls back.
Insertable(ids) == \A i \in ids : exc[i].status = "none"

-----------------------------------------------------------------------------
Init ==
    /\ claimed = 0 /\ committed = 0 /\ target = -1
    /\ lease = [t \in LeaseToken |-> NoLease]
    /\ held = [t \in LeaseToken |-> NoRange]
    /\ exc = [i \in Id |-> NoRow]
    /\ work = [t \in RunToken |-> 0]
    /\ settled = {}
    /\ stalls = 0

(* Range claims: messageconsumer claim.go, fresh_claim.go, reclaim.go. *)

\* claimMessages: the frontier moves to a proven head and the range is leased in
\* the same transaction.
FreshClaim(t, high) ==
    /\ Fresh(t)
    /\ claimed < high /\ high <= Smaller(claimed + Limit, MaxId)
    /\ claimed' = high
    /\ lease' = [lease EXCEPT ![t] = [NoLease EXCEPT !.low = claimed, !.high = high]]
    /\ held' = [held EXCEPT ![t] = NewRange(claimed, high)]
    /\ UNCHANGED <<committed, target, exc, work, settled, stalls>>

\* reclaimWithCursor below the limit: the expired row gets a new token u and a
\* new lease, and the range is read again.
Reclaim(t, u) ==
    /\ Leased(t) /\ lease[t].expired
    /\ Rotated(t, u)
    /\ lease[t].reclaims + 1 < MaxRangeReclaims
    /\ lease' = [lease EXCEPT ![t] = NoLease,
                              ![u] = [lease[t] EXCEPT !.reclaims = @ + 1, !.expired = FALSE]]
    /\ held' = [held EXCEPT ![u] = NewRange(lease[t].low, lease[t].high)]
    /\ UNCHANGED <<claimed, committed, target, exc, work, settled, stalls>>

\* quarantine: every log row of the range becomes a 'ready' exception and the
\* lease is freed.
Quarantine(t) ==
    LET rows == {i \in Id : InLease(t, i) /\ Row[i] # "gap"}
    IN  /\ Leased(t) /\ lease[t].expired
        /\ lease[t].reclaims + 1 >= MaxRangeReclaims
        /\ Insertable(rows)
        /\ exc' = [i \in Id |-> IF i \in rows THEN NewRow("ready", 0) ELSE exc[i]]
        /\ lease' = [lease EXCEPT ![t] = NoLease]
        /\ UNCHANGED <<claimed, committed, target, held, work, settled, stalls>>

\* A lease runs out: its holder is slow, gone, or its clock is behind.
ExpireLease(t) ==
    /\ Leased(t) /\ ~lease[t].expired
    /\ lease' = [lease EXCEPT ![t].expired = TRUE]
    /\ UNCHANGED <<claimed, committed, target, held, exc, work, settled, stalls>>

(* A consumer process and the ranges it holds: consumer_runner.go, commit.go. *)

\* runItem resolves one message of a held range, with or without a run.  The
\* process does not know whether it still owns the lease.  "success" also stands
\* for superseded: neither writes a row.
Resolve(t, i, kind) ==
    /\ Held(t) /\ InRange(t, i) /\ Readable(i)
    /\ held[t].out[i] = "none"
    /\ kind = "deferred" => stalls < MaxStalls
    /\ held' = [held EXCEPT ![t].out[i] = kind]
    /\ settled' = IF kind \in {"success", "terminal"} THEN settled \cup {i} ELSE settled
    /\ stalls' = IF kind = "deferred" THEN stalls + 1 ELSE stalls
    /\ UNCHANGED <<claimed, committed, target, lease, exc, work>>

\* isResolved
AllResolved(t) == \A i \in Id : InRange(t, i) /\ Readable(i) => held[t].out[i] # "none"

\* Faulty variant: the last resolved id, whatever is still pending below it.
IsHighestResolved(t, p) ==
    /\ p \in Id /\ InRange(t, p) /\ Readable(p)
    /\ held[t].out[p] # "none"
    /\ \A i \in Id : InRange(t, i) /\ i > p => held[t].out[i] = "none"

\* contiguousResolved: the resolved prefix of a range ends at p.
IsLastProcessed(t, p) ==
    /\ p \in Id /\ InRange(t, p) /\ Readable(p)
    /\ \A i \in Id : InRange(t, i) /\ Readable(i) /\ i <= p => held[t].out[i] # "none"
    /\ \A i \in Id : InRange(t, i) /\ Readable(i) /\ i > p =>
         \E j \in Id : p < j /\ j <= i /\ Readable(j) /\ held[t].out[j] = "none"

\* queueOutcomes for the ids of a held range up to p: the rows it inserts.
Outcomes(t, p) == {i \in Id : InRange(t, i) /\ i <= p
                              /\ held[t].out[i] \notin {"none", "success"}}
WithOutcomes(t, p) ==
    [i \in Id |-> IF i \in Outcomes(t, p) THEN OutcomeRow(held[t].out[i]) ELSE exc[i]]

\* commit: the token-guarded DELETE frees the lease and the outcomes become rows.
\* The reply may be lost; the process then keeps the range and its retry finds
\* no lease.
CommitRange(t) ==
    /\ Held(t) /\ AllResolved(t)
    /\ Leased(t)
    /\ Insertable(Outcomes(t, MaxId))
    /\ lease' = [lease EXCEPT ![t] = NoLease]
    /\ exc' = WithOutcomes(t, MaxId)
    /\ held' \in {held, [held EXCEPT ![t] = NoRange]}
    /\ UNCHANGED <<claimed, committed, target, work, settled, stalls>>

\* Faulty variant: the lease keeps the whole range.
PartialCommitUnnarrowed(t, p) ==
    /\ Held(t) /\ IsLastProcessed(t, p)
    /\ Leased(t)
    /\ Insertable(Outcomes(t, p))
    /\ exc' = WithOutcomes(t, p)
    /\ held' = [held EXCEPT ![t] = NoRange]
    /\ UNCHANGED <<claimed, committed, target, lease, work, settled, stalls>>

\* closeRange at shutdown with a resolved prefix: the lease keeps its token and
\* shrinks to the suffix.
PartialCommit(t, p) ==
    /\ Held(t) /\ IsLastProcessed(t, p)
    /\ Leased(t)
    /\ Insertable(Outcomes(t, p))
    /\ lease' = [lease EXCEPT ![t].low = p]
    /\ exc' = WithOutcomes(t, p)
    /\ held' = [held EXCEPT ![t] = NoRange]
    /\ UNCHANGED <<claimed, committed, target, work, settled, stalls>>

\* closeRange at shutdown for a range nobody started: it is surrendered under a
\* token nobody holds, already expired and not counted as a reclaim.  The process
\* forgets t in the same step, so t may stand for the new token.
ForceReclaim(t, u) ==
    /\ stalls < MaxStalls
    /\ Held(t) /\ \A i \in Id : held[t].out[i] = "none"
    /\ Leased(t)
    /\ u = t \/ Fresh(u)
    /\ lease' = [lease EXCEPT ![t] = NoLease,
                              ![u] = [lease[t] EXCEPT !.reclaims = Larger(@ - 1, -1),
                                                      !.expired = TRUE]]
    /\ held' = [held EXCEPT ![t] = NoRange]
    /\ stalls' = stalls + 1
    /\ UNCHANGED <<claimed, committed, target, exc, work, settled>>

\* The process forgets a range: it died, its commit failed or found the lease
\* lost, or shutdown had nothing to record.
AbandonRange(t) ==
    /\ Held(t)
    /\ held' = [held EXCEPT ![t] = NoRange]
    /\ UNCHANGED <<claimed, committed, target, lease, exc, work, settled, stalls>>

(* The exception window: exceptionconsumer kill.go, claim.go, outcome.go. *)

\* Faulty variant: off by one.
KillableBeyond == {i \in Id : /\ exc[i].status = "inflight" /\ exc[i].expired
                              /\ Failures(i) > MaxRetries}

\* kill: expired rows that are out of attempts.
Killable == {i \in Id : /\ exc[i].status = "inflight" /\ exc[i].expired
                        /\ Failures(i) >= MaxRetries}
Kill ==
    /\ Killable # {}
    /\ exc' = [i \in Id |-> IF i \in Killable
                            THEN [exc[i] EXCEPT !.status = "dead", !.token = NoToken,
                                                !.expired = FALSE]
                            ELSE exc[i]]
    /\ UNCHANGED <<claimed, committed, target, lease, held, work, settled, stalls>>

Claimable(i) ==
    /\ Failures(i) < MaxRetries
    /\ Row[i] # "version"
    /\ \/ exc[i].status \in {"ready", "deferred"}
       \/ exc[i].status = "inflight" /\ exc[i].expired

\* claim: the row is in flight under a new token and one attempt is spent.
InFlight(i, t) ==
    [exc[i] EXCEPT !.status = "inflight", !.token = t, !.attempts = @ + 1, !.expired = FALSE]

ClaimException(i, t) ==
    /\ Claimable(i)
    /\ work[t] = 0 /\ \A j \in Id \ {i} : exc[j].token # t
    /\ exc' = [exc EXCEPT ![i] = InFlight(i, t)]
    /\ work' = [work EXCEPT ![t] = i]
    /\ UNCHANGED <<claimed, committed, target, lease, held, settled, stalls>>

ExpireRun(i) ==
    /\ exc[i].status = "inflight" /\ ~exc[i].expired
    /\ exc' = [exc EXCEPT ![i].expired = TRUE]
    /\ UNCHANGED <<claimed, committed, target, lease, held, work, settled, stalls>>

\* Faulty variant: an outcome that is not guarded by the token.
OwnsUnguarded(t) == work[t] # 0

\* The lease_token guard of every outcome: the row still carries the run's token.
Owns(t) == work[t] # 0 /\ exc[work[t]].token = t

\* renewLease: only the token is compared, so an expired run comes back to life
\* when nobody has taken it over.
RenewLease(t) ==
    /\ Owns(t) /\ exc[work[t]].expired
    /\ exc' = [exc EXCEPT ![work[t]].expired = FALSE]
    /\ UNCHANGED <<claimed, committed, target, lease, held, work, settled, stalls>>

\* A token-guarded outcome: the row leaves 'inflight' and drops its token.
Record(t, status, attempts, delays) ==
    /\ exc' = [exc EXCEPT ![work[t]] =
                 [status |-> status, attempts |-> attempts, delays |-> delays,
                  token |-> NoToken, expired |-> FALSE]]
    /\ work' = [work EXCEPT ![t] = 0]
    /\ UNCHANGED <<claimed, committed, target, lease, held>>

Attempts(t) == exc[work[t]].attempts
Delays(t)   == exc[work[t]].delays

\* recordSuccess deletes the row.
RecordSuccess(t) ==
    /\ Owns(t)
    /\ Record(t, "none", 0, 0)
    /\ settled' = settled \cup {work[t]}
    /\ UNCHANGED stalls

\* Faulty variant: a failure that never exhausts the budget.
RetryForever(t) ==
    /\ Owns(t)
    /\ Record(t, "ready", Attempts(t), Delays(t))
    /\ UNCHANGED <<settled, stalls>>

\* recordFailure: another retry while failures remain.
RecordFailure(t) ==
    /\ Owns(t) /\ Failures(work[t]) < MaxRetries
    /\ Record(t, "ready", Attempts(t), Delays(t))
    /\ UNCHANGED <<settled, stalls>>

\* recordDelayed: the handler asked for a later run and has delays left.
RecordDelayed(t) ==
    /\ Owns(t) /\ (MaxDelays = 0 \/ Delays(t) < MaxDelays)
    /\ stalls < MaxStalls
    /\ Record(t, "ready", Attempts(t), Delays(t) + 1)
    /\ stalls' = stalls + 1
    /\ UNCHANGED settled

\* recordTerminal: a bad payload, a terminal error, or no attempts or delays left.
RecordTerminal(t) ==
    /\ Owns(t)
    /\ Record(t, "dead", Attempts(t), Delays(t))
    /\ settled' = settled \cup {work[t]}
    /\ UNCHANGED stalls

RecordSuperseded(t) ==
    /\ Owns(t)
    /\ Record(t, "superseded", Attempts(t) - 1, Delays(t))
    /\ settled' = settled \cup {work[t]}
    /\ UNCHANGED stalls

\* recordDeferred: the key was busy, so no run started.
RecordDeferred(t) ==
    /\ Owns(t)
    /\ stalls < MaxStalls
    /\ Record(t, "deferred", Attempts(t) - 1, Delays(t))
    /\ stalls' = stalls + 1
    /\ UNCHANGED settled

\* The runner died, or its outcome matched no row (ErrLeaseLost).
AbandonRun(t) ==
    /\ work[t] # 0
    /\ work' = [work EXCEPT ![t] = 0]
    /\ UNCHANGED <<claimed, committed, target, lease, held, exc, settled, stalls>>

(* The committed mark: cursoradvancer committed.go. *)

\* Faulty variant: the open leases are not among the terms.
BlockersWithoutLeases == {claimed} \cup {i - 1 : i \in {j \in Id : Unresolved(j)}}

\* The terms of LEAST.
Blockers ==
    {claimed} \cup {lease[t].low : t \in {u \in LeaseToken : Leased(u)}}
              \cup {i - 1 : i \in {j \in Id : Unresolved(j)}}

\* advanceCommitted, first statement: one snapshot of all three tables.
SelectTarget(m) ==
    /\ target = -1
    /\ m \in Blockers /\ \A b \in Blockers : m <= b
    /\ target' = m
    /\ UNCHANGED <<claimed, committed, lease, held, exc, work, settled, stalls>>

\* advanceCommitted, second statement, in a transaction of its own.
ApplyTarget ==
    /\ target # -1
    /\ committed' = Larger(committed, target)
    /\ target' = -1
    /\ UNCHANGED <<claimed, lease, held, exc, work, settled, stalls>>

-----------------------------------------------------------------------------
RangeStep(t) ==
    \/ \E high \in Id : FreshClaim(t, high)
    \/ \E u \in LeaseToken : Reclaim(t, u)
    \/ Quarantine(t)
    \/ ExpireLease(t)
    \/ \E i \in Id, kind \in Kind : Resolve(t, i, kind)
    \/ CommitRange(t)
    \/ \E p \in Id : PartialCommit(t, p)
    \/ \E u \in LeaseToken : ForceReclaim(t, u)
    \/ AbandonRange(t)

\* What the outcome of a run records.
RecordRun(t) ==
    \/ RecordSuccess(t)
    \/ RecordFailure(t)
    \/ RecordDelayed(t)
    \/ RecordTerminal(t)
    \/ RecordSuperseded(t)
    \/ RecordDeferred(t)

RunStep(t) ==
    \/ \E i \in Id : ClaimException(i, t)
    \/ RenewLease(t)
    \/ RecordRun(t)
    \/ AbandonRun(t)

Next ==
    \/ \E t \in LeaseToken : RangeStep(t)
    \/ \E t \in RunToken : RunStep(t)
    \/ Kill
    \/ \E i \in Id : ExpireRun(i)
    \/ \E m \in 0 .. MaxId : SelectTarget(m)
    \/ ApplyTarget

Spec == Init /\ [][Next]_vars

\* Some process always polls, every process that holds work ends in one way or
\* another, dead or alive, and leases of dead holders run out.  Success is not
\* assumed: every run may crash.
Fairness ==
    /\ WF_vars(\E t \in LeaseToken, high \in Id : FreshClaim(t, high))
    /\ WF_vars(\E t, u \in LeaseToken : Reclaim(t, u) \/ Quarantine(t))
    /\ \A t \in LeaseToken :
         /\ WF_vars(ExpireLease(t))
         /\ WF_vars(CommitRange(t) \/ AbandonRange(t))
    /\ \A t \in RunToken : WF_vars(RecordRun(t) \/ AbandonRun(t))
    /\ \A i \in Id :
         /\ WF_vars(\E t \in RunToken : ClaimException(i, t))
         /\ WF_vars(ExpireRun(i))
    /\ WF_vars(Kill)
    /\ WF_vars(\E m \in 0 .. MaxId : SelectTarget(m))
    /\ WF_vars(ApplyTarget)

FairSpec == Spec /\ Fairness

-----------------------------------------------------------------------------
LeaseRow == [low : 0 .. MaxId, high : 0 .. MaxId,
             reclaims : -1 .. MaxRangeReclaims - 1, expired : BOOLEAN]
RangeState == [low : 0 .. MaxId, high : 0 .. MaxId, out : [Id -> Kind \cup {"none"}]]
ExceptionRow ==
    [status : {"none", "ready", "inflight", "deferred", "dead", "superseded"},
     attempts : Nat, delays : Nat, token : RunToken \cup {NoToken}, expired : BOOLEAN]

TypeOK ==
    /\ claimed \in 0 .. MaxId
    /\ committed \in 0 .. MaxId
    /\ target \in -1 .. MaxId
    /\ lease \in [LeaseToken -> LeaseRow]
    /\ held \in [LeaseToken -> RangeState]
    /\ exc \in [Id -> ExceptionRow]
    /\ work \in [RunToken -> 0 .. MaxId]
    /\ settled \in SUBSET Id
    /\ stalls \in 0 .. MaxStalls

\* The message is somebody's: an open lease covers it, it has a row in the
\* exception window, or it was resolved.
Accounted(i) ==
    \/ i \in settled
    \/ \E t \in LeaseToken : Leased(t) /\ InLease(t, i)
    \/ exc[i].status # "none"

\* At least once: no message that the frontier has passed is ever forgotten,
\* whichever process crashes, commits late, shuts down or loses its lease
\* (commit.go, reclaim.go, outcome.go).
NoMessageLost ==
    \A i \in Id : i <= claimed /\ Readable(i) => Accounted(i)

\* One owner: open leases are disjoint, and no message has both a lease and a row
\* in the exception window.  This is what lets commit and quarantine insert
\* without ON CONFLICT ("no ON CONFLICT needed", commit.go).
OneOwnerPerMessage ==
    \A i \in Id : \A t \in LeaseToken : Leased(t) /\ InLease(t, i) =>
        /\ exc[i].status = "none"
        /\ \A u \in LeaseToken \ {t} : ~(Leased(u) /\ InLease(u, i))

\* "committed is the mark below which every offset is resolved": also for a
\* target that was selected and not applied yet, whatever was claimed, reclaimed
\* or quarantined in between (committed.go).
NothingOpenBelow(mark) ==
    /\ mark <= claimed
    /\ \A t \in LeaseToken : Leased(t) => mark <= lease[t].low
    /\ \A i \in Id : Unresolved(i) => mark < i
CommittedIsResolved == NothingOpenBelow(committed) /\ NothingOpenBelow(target)

\* No row is stranded: a row that waits for a run has attempts left, so either
\* the claim or the kill backstop can always take it on, and failures never
\* exceed the budget (kill.go, claim.go, consumer_runner.go recordFailure).
AttemptsWithinBudget ==
    \A i \in Id : Unresolved(i) =>
        /\ Failures(i) <= MaxRetries
        /\ exc[i].status # "inflight" => Failures(i) < MaxRetries

\* committed, the claimed frontier and the outcome of a dead or superseded row
\* never go back.
ForwardStep ==
    /\ committed <= committed' /\ claimed <= claimed'
    /\ \A i \in Id : exc[i].status \in {"dead", "superseded"} => exc'[i] = exc[i]

Forward == [][ForwardStep]_vars

\* Each message of the exception window "lives or dies on its own": its row is
\* resolved in the end, even if every run crashes (reclaim.go, kill.go).
LivesOrDies == \A i \in Id : Unresolved(i) ~> ~Unresolved(i)
=============================================================================
