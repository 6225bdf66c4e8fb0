------------------------------ MODULE KeyLease ------------------------------
(***************************************************************************)
(* One message key of one consumer group: the message_key_lease row that   *)
(* lets one delivery of the key run at a time, and the compaction_head row *)
(* that says which message of the key is the newest (key_lease.go,         *)
(* insert.go, the stream janitor's key_lease.go).                          *)
(*                                                                         *)
(* A claim's first statement reads the head in its snapshot and then waits *)
(* for the lease row; the recheck runs in the same transaction with a      *)
(* snapshot of its own, and holds the row lock until it commits, so the    *)
(* two take effect together.  A token names one call of Claim and stays    *)
(* the same when the call is retried after a lost reply.  Expiry does not  *)
(* stop a run.                                                             *)
(***************************************************************************)
EXTENDS Integers, FiniteSets

CONSTANTS
    Token,       \* bound: claims of the key in progress at one moment
    NoToken,     \* no lease row
    MaxKeyedId,  \* bound: messages of the key
    Rank,        \* (schema_version, compaction_rank) of each message
    Compacted,   \* the messages that were produced with compaction
    MaxFaults,   \* bound: deliveries that die and replies that are lost
    MaxSweeps    \* bound: janitor passes over an expired lease

KeyedId == 1 .. MaxKeyedId

ASSUME KeyBounds ==
    /\ MaxKeyedId \in Nat /\ MaxFaults \in Nat /\ MaxSweeps \in Nat
    /\ NoToken \notin Token
    /\ Rank \in [KeyedId -> Nat] /\ Compacted \subseteq KeyedId

VARIABLES
    log,        \* messages of the key whose producer has committed
    head,       \* compaction_head.message_id, 0 = no row
    lease,      \* the lease row: its token and whether expires_at has passed
    claim,      \* each token's delivery: message, phase, what its snapshot saw
    picked,     \* the janitor's DELETE has picked this tuple as expired
    acquired,   \* history: messages that were ever given the key
    ran,        \* history: messages whose run has ended
    superseded, \* history: messages resolved as superseded
    stolen,     \* history: a sweep has deleted a lease that had not expired
    faults, sweeps

keyHistoryVars == <<acquired, ran, superseded, stolen>>
boundVars == <<faults, sweeps>>
keyLeaseVars == <<log, head, lease, claim, picked, keyHistoryVars, boundVars>>

NoLease == [token |-> NoToken, expired |-> FALSE]
NoClaim == [phase |-> "idle", msg |-> 0, isHead |-> FALSE, expired |-> FALSE]

\* (schema_version, compaction_rank, message_id), compared in that order.
Newer(i, j) == Rank[i] > Rank[j] \/ (Rank[i] = Rank[j] /\ i > j)

-----------------------------------------------------------------------------
KeyLeaseInit ==
    /\ log = {} /\ head = 0
    /\ lease = NoLease
    /\ claim = [t \in Token |-> NoClaim]
    /\ picked = FALSE
    /\ acquired = {} /\ ran = {} /\ superseded = {} /\ stolen = FALSE
    /\ faults = 0 /\ sweeps = 0

\* Faulty variant: the last compacted message to arrive takes the head.
LastWriterHead(i) == IF i \in Compacted THEN i ELSE head

\* The latest CTE: a compacted message takes the head if it is newer.
Latest(i) == IF i \in Compacted /\ (head = 0 \/ Newer(i, head)) THEN i ELSE head

\* protectedInsertSQL commits.  Ids are drawn before the head row is locked, so
\* producers reach the head in any order; the newest wins.
Publish(i) ==
    /\ i \notin log
    /\ log' = log \cup {i}
    /\ head' = Latest(i)
    /\ UNCHANGED <<lease, claim, picked, keyHistoryVars, boundVars>>

\* Claim mints a token and sends its statement, whose snapshot is fixed before
\* it waits for the lease row.
SnapshotHead(t, i) ==
    /\ claim' = [claim EXCEPT ![t] = [NoClaim EXCEPT !.phase = "claiming", !.msg = i,
                                      !.isHead = (i \in Compacted => head = i)]]
    /\ UNCHANGED <<log, head, lease, picked, keyHistoryVars, boundVars>>

StartClaim(t, i) ==
    /\ claim[t].phase = "idle" /\ lease.token # t
    /\ i \in log \ (ran \cup superseded)
    /\ \A u \in Token : claim[u].msg # i
    /\ SnapshotHead(t, i)

\* The reply of a claim that committed was lost: the call is retried under the
\* same token.
RetryClaim(t) ==
    /\ claim[t].phase = "ambiguous"
    /\ SnapshotHead(t, claim[t].msg)

\* Faulty variant: an expired row is not taken over.
AvailableIfFree(t) == lease.token = NoToken \/ lease.token = t

\* The upsert inserts the row, or updates one that is expired or its own.
Available(t) == lease.token = NoToken \/ lease.expired \/ lease.token = t

\* Faulty variant: no recheck, the statement's snapshot decides.
IsHeadBySnapshot(t) == claim[t].isHead

\* The recheck of a compacted message, in a fresh snapshot.
IsStillHead(t) == claim[t].msg \in Compacted => head = claim[t].msg

\* The attempt gets the lease row and the recheck keeps it.  The reply may be lost.
Acquire(t) ==
    /\ claim[t].phase = "claiming"
    /\ claim[t].isHead /\ Available(t) /\ IsStillHead(t)
    /\ lease' = [token |-> t, expired |-> FALSE]
    /\ acquired' = acquired \cup {claim[t].msg}
    /\ picked' = (picked /\ lease.token # NoToken)
    /\ \/ /\ claim' = [claim EXCEPT ![t].phase = "running"]
          /\ UNCHANGED faults
       \/ /\ faults < MaxFaults
          /\ faults' = faults + 1
          /\ claim' = [claim EXCEPT ![t].phase = "ambiguous"]
    /\ UNCHANGED <<log, head, ran, superseded, stolen, sweeps>>

\* Another delivery holds the key: this one is deferred and tried again later.
Busy(t) ==
    /\ claim[t].phase = "claiming"
    /\ claim[t].isHead /\ ~Available(t)
    /\ claim' = [claim EXCEPT ![t] = NoClaim]
    /\ UNCHANGED <<log, head, lease, picked, keyHistoryVars, boundVars>>

\* The head has moved, in the statement's snapshot or in the recheck's, which
\* deletes the row the call has just taken or had taken before a lost reply.
Superseded(t) ==
    /\ claim[t].phase = "claiming"
    /\ ~claim[t].isHead \/ (Available(t) /\ ~IsStillHead(t))
    /\ LET freed == lease.token = t \/ (claim[t].isHead /\ Available(t))
       IN  /\ lease' = IF freed THEN NoLease ELSE lease
           /\ picked' = (picked /\ ~freed)
    /\ superseded' = superseded \cup {claim[t].msg}
    /\ claim' = [claim EXCEPT ![t] = NoClaim]
    /\ UNCHANGED <<log, head, acquired, ran, stolen, boundVars>>

\* Faulty variant: a release that is not guarded by the token.
ReleaseAny(t) == TRUE

\* release deletes the row that still carries the token.
Releases(t) == lease.token = t

\* The run ends, with any outcome, and frees the key.
Release(t) ==
    /\ claim[t].phase = "running"
    /\ lease' = IF Releases(t) THEN NoLease ELSE lease
    /\ picked' = (picked /\ ~Releases(t))
    /\ ran' = ran \cup {claim[t].msg}
    /\ claim' = [claim EXCEPT ![t] = NoClaim]
    /\ UNCHANGED <<log, head, acquired, superseded, stolen, boundVars>>

\* The delivery dies, or a call fails after its last retry; its lease row stays.
Crash(t) ==
    /\ claim[t].phase # "idle"
    /\ faults < MaxFaults
    /\ faults' = faults + 1
    /\ claim' = [claim EXCEPT ![t] = NoClaim]
    /\ UNCHANGED <<log, head, lease, picked, keyHistoryVars, sweeps>>

\* The time a lease was taken for runs out.
ExpireRow ==
    /\ lease.token # NoToken /\ ~lease.expired
    /\ lease' = [lease EXCEPT !.expired = TRUE]
    /\ claim' = [claim EXCEPT ![lease.token].expired = (@ \/ claim[lease.token].phase # "idle")]
    /\ UNCHANGED <<log, head, picked, keyHistoryVars, boundVars>>

\* sweepKeyLeasesBatch: the subselect picks an expired row in the statement's
\* snapshot.
PickExpired ==
    /\ lease.token # NoToken /\ lease.expired /\ ~picked
    /\ sweeps < MaxSweeps
    /\ sweeps' = sweeps + 1
    /\ picked' = TRUE
    /\ UNCHANGED <<log, head, lease, claim, keyHistoryVars, faults>>

\* The DELETE gets the row lock.  The picked keys are compared again, expires_at
\* is not: a row a claim has meanwhile taken over is deleted too.
DeletePicked ==
    /\ picked
    /\ lease' = NoLease
    /\ picked' = FALSE
    /\ stolen' = (stolen \/ ~lease.expired)
    /\ UNCHANGED <<log, head, claim, acquired, ran, superseded, boundVars>>

-----------------------------------------------------------------------------
ClaimStep(t) ==
    \/ RetryClaim(t)
    \/ Acquire(t)
    \/ Busy(t)
    \/ Superseded(t)
    \/ Release(t)

\* Everything is resolved, no row is left and no producer is coming.
Done ==
    /\ log = KeyedId /\ ran \cup superseded = KeyedId
    /\ lease = NoLease /\ \A t \in Token : claim[t].phase = "idle"
    /\ UNCHANGED keyLeaseVars

KeyLeaseNext ==
    \/ \E i \in KeyedId : Publish(i)
    \/ \E t \in Token, i \in KeyedId : StartClaim(t, i)
    \/ \E t \in Token : ClaimStep(t) \/ Crash(t)
    \/ ExpireRow
    \/ PickExpired
    \/ DeletePicked
    \/ Done

KeyLeaseSpec == KeyLeaseInit /\ [][KeyLeaseNext]_keyLeaseVars

\* Deliveries are polled for, every call ends, and the clock moves on.  Nothing
\* makes a claim find the key free: a message that is busy is tried again.
Fairness ==
    /\ \A i \in KeyedId : SF_keyLeaseVars(\E t \in Token : StartClaim(t, i))
    /\ \A t \in Token : WF_keyLeaseVars(ClaimStep(t))
    /\ WF_keyLeaseVars(ExpireRow)
    /\ WF_keyLeaseVars(DeletePicked)

FairKeyLeaseSpec == KeyLeaseSpec /\ Fairness

-----------------------------------------------------------------------------
KeyLeaseTypeOK ==
    /\ log \subseteq KeyedId /\ head \in {0} \cup Compacted
    /\ lease \in [token : Token \cup {NoToken}, expired : BOOLEAN]
    /\ claim \in [Token -> [phase : {"idle", "claiming", "ambiguous", "running"},
                            msg : 0 .. MaxKeyedId, isHead : BOOLEAN, expired : BOOLEAN]]
    /\ picked \in BOOLEAN /\ stolen \in BOOLEAN
    /\ acquired \subseteq log /\ ran \subseteq acquired /\ superseded \subseteq log
    /\ faults \in 0 .. MaxFaults /\ sweeps \in 0 .. MaxSweeps

\* No two runs of the key overlap while both leases are unexpired.
NoOverlap ==
    \A t, u \in Token :
        /\ claim[t].phase = "running" /\ ~claim[t].expired
        /\ claim[u].phase = "running" /\ ~claim[u].expired
        => t = u

\* A delivery has "the exclusive right to run a keyed message": two runs of the
\* key overlap only when the lease of one has expired, also when claims are
\* retried, holders die and late holders release (key_lease.go), and when the
\* janitor sweeps, as long as it deletes expired rows only.
OneRunPerKey == stolen \/ NoOverlap

\* Acquired guarantees that a compacted message "was still its key's compaction
\* head after the lease was won": once a message has been given the key, no older
\* one is, whatever the claims waited for in between.
NeverBackwards ==
    [][ \A i \in (acquired' \ acquired) \cap Compacted :
            \A j \in acquired \cap Compacted : ~Newer(j, i) ]_keyLeaseVars

\* A message is only skipped as superseded when a newer one has been published,
\* so the newest message of a key is never skipped.
NewestNeverSkipped ==
    \A i \in superseded : \E j \in log \cap Compacted : Newer(j, i)

\* Every published message of the key is run or superseded in the end, although
\* deliveries die with the key held and compete for it.
EventuallyResolved == \A i \in KeyedId : i \in log ~> i \in ran \cup superseded
=============================================================================
