----------------------------- MODULE OrderedKeys -----------------------------
(***************************************************************************)
(* A cursor consumer group whose messages all carry one key and the        *)
(* ordered concurrency policy: CursorGroup composed with the key's lease,  *)
(* the chain of a range's messages (claim_buffer.go add, consumer_runner.go*)
(* processChain) and the ordered claim (key_lease.go claimOrdered).        *)
(*                                                                         *)
(* A delivery runs under the key's lease, and gets it only when no earlier *)
(* message of the key is open.  The gate looks at the exception window and *)
(* at the log above committed, except the caller's own range, where the    *)
(* chain orders the runs.                                                  *)
(***************************************************************************)
EXTENDS CursorGroup

VARIABLES
    key,      \* the message_key_lease row: whose it is, whether it has expired
    running   \* the message a range or an exception is running, 0 = none

keyVars == <<key, running>>
allVars == <<vars, keyVars>>

Delivery == LeaseToken \cup RunToken
NoKey == [holder |-> NoToken, expired |-> FALSE]

\* The rows of the key in the log.
InLog(i) == Row[i] # "gap"

OrderedInit ==
    /\ Init
    /\ key = NoKey
    /\ running = [d \in Delivery |-> 0]

-----------------------------------------------------------------------------
(* claimOrdered and release. *)

\* Faulty variant: the gate looks at the exception window only.
GateWithoutLog(i, low, high) == \A j \in Id : j < i => ~Unresolved(j)

\* Nothing of the key is open below i, outside the caller's range (low, high].
Gate(i, low, high) ==
    /\ \A j \in Id : j < i => ~Unresolved(j)
    /\ \A j \in Id : j < i /\ j > committed /\ InLog(j) => low < j /\ j <= high

\* Faulty variant: an expired lease is not taken over.
KeyAvailableIfFree == key.holder = NoToken

KeyAvailable == key.holder = NoToken \/ key.expired

Acquire(d, i) ==
    /\ key' = [holder |-> d, expired |-> FALSE]
    /\ running' = [running EXCEPT ![d] = i]

\* The row a release leaves behind.
Freed(d) == IF key.holder = d THEN NoKey ELSE key

EndRun(d) ==
    /\ key' = Freed(d)
    /\ running' = [running EXCEPT ![d] = 0]

ExpireKey ==
    /\ key.holder # NoToken /\ ~key.expired
    /\ key' = [key EXCEPT !.expired = TRUE]
    /\ UNCHANGED <<vars, running>>

-----------------------------------------------------------------------------
(* A range and its chain. *)

\* Faulty variant: the messages of the key are not chained.
AnyInChain(t, i) == Held(t) /\ InRange(t, i) /\ Readable(i) /\ held[t].out[i] = "none"

\* processChain: the next message runs when its predecessor succeeded or is dead.
NextInChain(t, i) ==
    /\ Held(t) /\ InRange(t, i) /\ Readable(i) /\ held[t].out[i] = "none"
    /\ \A j \in Id : InRange(t, j) /\ Readable(j) /\ j < i =>
         held[t].out[j] \in {"success", "terminal"}

\* runItem is given the key.
StartInRange(t, i) ==
    /\ NextInChain(t, i) /\ running[t] = 0
    /\ Gate(i, held[t].low, held[t].high) /\ KeyAvailable
    /\ Acquire(t, i)
    /\ UNCHANGED vars

\* The outcome of message i, and what resolveDeferredBehind does to the chain
\* behind a message that did not succeed.
Resolved(t, i, kind) ==
    [held EXCEPT ![t].out =
       [j \in Id |-> CASE j = i -> kind
                       [] j > i /\ InRange(t, j) /\ Readable(j)
                            /\ kind \notin {"success", "terminal"} -> "deferred"
                       [] OTHER -> held[t].out[j]]]

\* runItem finds the key busy.
DeferInRange(t, i) ==
    /\ NextInChain(t, i) /\ running[t] = 0
    /\ ~ (Gate(i, held[t].low, held[t].high) /\ KeyAvailable)
    /\ held' = Resolved(t, i, "deferred")
    /\ UNCHANGED <<claimed, committed, target, lease, exc, work, settled, stalls, keyVars>>

\* The claim call fails: the message is an exception without having run.
FailInRange(t, i) ==
    /\ NextInChain(t, i) /\ running[t] = 0
    /\ held' = Resolved(t, i, "exception")
    /\ UNCHANGED <<claimed, committed, target, lease, exc, work, settled, stalls, keyVars>>

\* The run ends and frees the key; a release that fails leaves it to expire.
FinishInRange(t, kind) ==
    /\ running[t] # 0 /\ Held(t)
    /\ held' = Resolved(t, running[t], kind)
    /\ settled' = IF kind \in {"success", "terminal"} THEN settled \cup {running[t]}
                  ELSE settled
    /\ running' = [running EXCEPT ![t] = 0]
    /\ key' \in {key, Freed(t)}
    /\ UNCHANGED <<claimed, committed, target, lease, exc, work, stalls>>

-----------------------------------------------------------------------------
(* The exception window. *)

\* claim passes over a row whose key is under an unexpired lease or that has an
\* earlier open row of its key.
ClaimOrderedException(i, t) ==
    /\ KeyAvailable
    /\ \A j \in Id : j < i => ~Unresolved(j)
    /\ ClaimException(i, t)
    /\ UNCHANGED keyVars

StartException(t) ==
    /\ work[t] # 0 /\ running[t] = 0
    /\ Gate(work[t], 0, 0) /\ KeyAvailable
    /\ Acquire(t, work[t])
    /\ UNCHANGED vars

\* The key is busy: recordDeferred gives the attempt back.
DeferException(t) ==
    /\ work[t] # 0 /\ running[t] = 0
    /\ ~ (Gate(work[t], 0, 0) /\ KeyAvailable)
    /\ Owns(t)
    /\ Record(t, "deferred", Attempts(t) - 1, Delays(t))
    /\ UNCHANGED <<settled, stalls, keyVars>>

\* The claim call fails, which counts as this attempt's failure.
FailException(t) ==
    /\ work[t] # 0 /\ running[t] = 0
    /\ RecordFailure(t) \/ (Failures(work[t]) >= MaxRetries /\ RecordTerminal(t))
    /\ UNCHANGED keyVars

\* recordAndReleaseKey: the outcome and the release are one transaction.
FinishException(t) ==
    /\ running[t] # 0
    /\ RecordSuccess(t) \/ RecordFailure(t) \/ RecordDelayed(t) \/ RecordTerminal(t)
    /\ EndRun(t)

\* The outcome matched no row: the transaction still commits the release.
LoseException(t) ==
    /\ running[t] # 0 /\ ~Owns(t)
    /\ AbandonRun(t)
    /\ EndRun(t)

-----------------------------------------------------------------------------
\* A process that forgets a range or a run leaves the key to expire.
Forget(d) ==
    /\ running' = [running EXCEPT ![d] = 0]
    /\ UNCHANGED key

OrderedRangeStep(t) ==
    \/ \E i \in Id : StartInRange(t, i) \/ DeferInRange(t, i) \/ FailInRange(t, i)
    \/ \E kind \in Kind \ {"deferred"} : FinishInRange(t, kind)
    \/ /\ \/ \E high \in Id : FreshClaim(t, high)
          \/ \E u \in LeaseToken : Reclaim(t, u)
          \/ Quarantine(t)
          \/ ExpireLease(t)
          \/ CommitRange(t)
       /\ UNCHANGED keyVars
    \/ \E u \in LeaseToken : ForceReclaim(t, u) /\ running[t] = 0 /\ UNCHANGED keyVars
    \/ \E p \in Id : PartialCommit(t, p) /\ Forget(t)
    \/ AbandonRange(t) /\ Forget(t)

OrderedRunStep(t) ==
    \/ \E i \in Id : ClaimOrderedException(i, t)
    \/ RenewLease(t) /\ running[t] = 0 /\ UNCHANGED keyVars
    \/ StartException(t)
    \/ DeferException(t)
    \/ FailException(t)
    \/ FinishException(t)
    \/ LoseException(t)
    \/ AbandonRun(t) /\ Forget(t)

OrderedNext ==
    \/ \E t \in LeaseToken : OrderedRangeStep(t)
    \/ \E t \in RunToken : OrderedRunStep(t)
    \/ ExpireKey
    \/ /\ \/ Kill
          \/ \E i \in Id : ExpireRun(i)
          \/ \E m \in 0 .. MaxId : SelectTarget(m)
          \/ ApplyTarget
       /\ UNCHANGED keyVars

OrderedSpec == OrderedInit /\ [][OrderedNext]_allVars

\* As in CursorGroup: polling goes on, every holder ends dead or alive, leases
\* and the key's lease run out, and success is never assumed.
OrderedFairness ==
    /\ WF_allVars(\E t \in LeaseToken, high \in Id : FreshClaim(t, high) /\ UNCHANGED keyVars)
    /\ WF_allVars(\E t, u \in LeaseToken : (Reclaim(t, u) \/ Quarantine(t)) /\ UNCHANGED keyVars)
    /\ \A t \in LeaseToken :
         /\ WF_allVars(ExpireLease(t) /\ UNCHANGED keyVars)
         /\ WF_allVars((CommitRange(t) /\ UNCHANGED keyVars) \/ (AbandonRange(t) /\ Forget(t)))
    /\ \A t \in RunToken :
         WF_allVars(\/ StartException(t) \/ DeferException(t) \/ FailException(t)
                    \/ FinishException(t)
                    \/ LoseException(t) \/ (AbandonRun(t) /\ Forget(t)))
    /\ \A i \in Id :
         /\ WF_allVars(\E t \in RunToken : ClaimOrderedException(i, t))
         /\ WF_allVars(ExpireRun(i) /\ UNCHANGED keyVars)
    /\ WF_allVars(Kill /\ UNCHANGED keyVars)
    /\ WF_allVars(\E m \in 0 .. MaxId : SelectTarget(m) /\ UNCHANGED keyVars)
    /\ WF_allVars(ApplyTarget /\ UNCHANGED keyVars)
    /\ WF_allVars(ExpireKey)

OrderedFairSpec == OrderedSpec /\ OrderedFairness

-----------------------------------------------------------------------------
\* A final outcome of a message: it succeeded, or it is dead.
Final(i) == i \in settled \/ exc[i].status = "dead"

\* Per-key order: a run of a message starts only after every earlier message of
\* its key has succeeded or was given up, through expired ranges, reclaims,
\* quarantine, retries and stale committed marks (key_lease.go: "no earlier
\* same-key message is unresolved for the group").
StartsInOrder ==
    [][ \A d \in Delivery : running[d] = 0 /\ running'[d] # 0 =>
            \A j \in Id : j < running'[d] /\ Readable(j) => Final(j) ]_allVars

\* Waiting for predecessors ends: every message of the key is resolved and the
\* committed mark reaches the end of the log, even if every run crashes.
EventuallyInOrder == <>[](committed = MaxId)
=============================================================================
