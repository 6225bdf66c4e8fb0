------------------------------- MODULE Produce -------------------------------
(***************************************************************************)
(* Producing to one stream from one process (pkg/produce, pkg/producer):   *)
(* unkeyed Produce calls that share transactions through the batcher,      *)
(* Produce calls with a caller's IdempotencyKey, which run a transaction   *)
(* of their own, and ProduceInTx calls inside a transaction the caller     *)
(* owns.  All of them draw ids from one sequence, route them to partitions *)
(* of PartitionSize ids and heal a partition that does not exist yet; a    *)
(* produce that reaches a trigger point creates the next one early.        *)
(*                                                                         *)
(* One attempt at a transaction is one step: its statements claim the      *)
(* idempotency keys, draw the ids and commit, or the first statement that  *)
(* fails rolls all of it back and burns the ids it drew.  A claim on a key *)
(* that an open transaction has inserted waits for that transaction.       *)
(***************************************************************************)
EXTENDS Integers, Sequences, FiniteSets, SequencesExt

CONSTANTS
    Op,               \* unkeyed Produce calls; each mints a key of its own
    KeyedCall,        \* Produce calls that carry a caller's key
    Tx,               \* transactions a caller owns
    Key,              \* the callers' idempotency keys
    Worker,           \* the goroutines that can run: ConcurrencyLimit of them
    MaxSize,          \* Batch.MaxSize
    MaxRetries,       \* RetryPolicy.MaxRetries of the datastore
    PartitionSize,    \* ids per partition
    Scenarios,        \* the calls one execution makes, and their payloads
    LastValue,        \* ids drawn before the execution begins
    MaxPerTx,         \* bound: ProduceInTx calls in one transaction
    MaxFaults,        \* bound: transient, ambiguous and late commits, failed creates
    MaxHealFailures   \* bound: lock_timeout expiries of a heal nobody here blocks

Runner == Worker \cup KeyedCall \cup Tx
MessageKey == Op \cup Key

\* What the server, or the encoder, makes of a payload.
Kinds == {"good", "rejected", "unencodable"}

ASSUME ProduceBounds ==
    /\ MaxSize \in Nat \ {0} /\ MaxRetries \in Nat \ {0}
    /\ PartitionSize \in Nat \ {0} /\ LastValue \in Nat /\ MaxPerTx \in Nat
    /\ Scenarios \subseteq UNION {[C -> Kinds] : C \in SUBSET (Op \cup KeyedCall \cup Tx)}
    /\ MaxFaults \in Nat /\ MaxHealFailures \in Nat
    /\ Cardinality(Tx) <= 1  \* two such transactions can deadlock on keys
    /\ IsFiniteSet(Worker) /\ Worker # {}  \* ConcurrencyLimit must be >= 1
    /\ Op \cap KeyedCall = {} /\ Tx \cap (Op \cup KeyedCall) = {}
    /\ Worker \cap (KeyedCall \cup Tx) = {}

VARIABLES
    kind,     \* the payload of each call of this execution
    queue,    \* workQueue.work
    workers,  \* workQueue.workers
    caller,   \* where each unkeyed call is
    resp,     \* the outcome recorded for each call of Op and KeyedCall
    run,      \* what each worker, keyed call and transaction is doing
    kept,     \* keys inserted by a transaction that is still open
    made,     \* ProduceInTx calls a transaction has made
    holders,  \* open transactions that hold a lock on the log's parent table
    log,      \* rows in message_log for each key
    claims,   \* committed rows of idempotency_key
    seq,      \* last_value of the id sequence
    parts,    \* existing partitions
    gate,     \* createAheadGate: the highest trigger claimed so far
    ahead,    \* partitions a background create is to make
    faults, healFailures

callVars == <<queue, workers, caller>>
txVars == <<kept, made, holders>>
logVars == <<log, claims, seq, parts>>
aheadVars == <<gate, ahead>>
boundVars == <<faults, healFailures>>
vars == <<kind, callVars, resp, run, txVars, logVars, aheadVars, boundVars>>

\* A runner's retry loop: the batches still to resolve, first one first, the
\* attempts spent, the heals of this attempt, the statement that met the
\* missing partition, the partition the heal is to create, and whether the
\* server itself reported an attempt's transient error (a PgError).
Doing(where, jobs) ==
    [pc |-> where, job |-> jobs, tries |-> 0, heals |-> 0, missing |-> 0, target |-> 0,
     told |-> FALSE]

Kind(k) == IF k \in Op THEN kind[k] ELSE "good"
Batch(r) == Head(run[r].job)
Recorded(r, i) == IF r \in Worker THEN Batch(r)[i] ELSE r

Fault ==
    /\ faults < MaxFaults
    /\ faults' = faults + 1
    /\ UNCHANGED healFailures

Init ==
    /\ kind \in Scenarios
    /\ queue = <<>> /\ workers = 0
    /\ caller = [o \in Op |-> "idle"]
    /\ resp = [c \in Op \cup KeyedCall |-> "none"]
    /\ run = [r \in Runner |-> Doing("off", <<>>)]
    /\ kept = [t \in Tx |-> {}]
    /\ made = [t \in Tx |-> 0]
    /\ holders = {}
    /\ log = [k \in MessageKey |-> 0]
    /\ claims = {}
    /\ seq = LastValue
    /\ parts = {LastValue \div PartitionSize}
    /\ gate = -1
    /\ ahead = {}
    /\ faults = 0 /\ healFailures = 0

-----------------------------------------------------------------------------
(* The batcher's queue: two lock sections per caller, one per dequeue. *)

Enqueue(o) ==
    /\ o \in DOMAIN kind /\ caller[o] = "idle"
    /\ queue' = Append(queue, o)
    /\ caller' = [caller EXCEPT ![o] = "enqueued"]
    /\ UNCHANGED <<kind, workers, resp, run, txVars, logVars, aheadVars, boundVars>>

\* Faulty variant: the caller that finds its operation alone starts the worker.
NeedsWorkerIfAlone == Len(queue) = 1

\* The first enqueue always gets a worker; more only under backlog pressure.
NeedsWorker ==
    \/ workers = 0
    \/ workers < Cardinality(Worker) /\ Len(queue) > workers * MaxSize

StartWorker(o) ==
    /\ caller[o] = "enqueued"
    /\ caller' = [caller EXCEPT ![o] = "waiting"]
    /\ IF NeedsWorker
       THEN LET w == CHOOSE x \in Worker : run[x].pc = "off"
            IN  /\ workers' = workers + 1
                /\ run' = [run EXCEPT ![w] = Doing("taking", <<>>)]
       ELSE UNCHANGED <<workers, run>>
    /\ UNCHANGED <<kind, queue, resp, txVars, logVars, aheadVars, boundVars>>

\* How many operations one dequeue takes.
Taken == IF Len(queue) < MaxSize THEN Len(queue) ELSE MaxSize

\* An empty queue ends the worker under the lock that saw it empty.
Dequeue(w) ==
    /\ run[w].pc = "taking"
    /\ IF queue = <<>>
       THEN /\ workers' = workers - 1
            /\ run' = [run EXCEPT ![w] = Doing("off", <<>>)]
            /\ UNCHANGED queue
       ELSE /\ run' = [run EXCEPT ![w] = Doing("attempt", <<SubSeq(queue, 1, Taken)>>)]
            /\ queue' = SubSeq(queue, Taken + 1, Len(queue))
            /\ UNCHANGED workers
    /\ UNCHANGED <<kind, caller, resp, txVars, logVars, aheadVars, boundVars>>

\* The caller's context is cancelled and ShutdownGrace passes: it stops waiting,
\* its operation stays in the batch.
Abandon(o) ==
    /\ caller[o] = "waiting" /\ resp[o] = "none"
    /\ caller' = [caller EXCEPT ![o] = "abandoned"]
    /\ UNCHANGED <<kind, queue, workers, resp, run, txVars, logVars, aheadVars, boundVars>>

-----------------------------------------------------------------------------
(* Per-call transactions and transactions of the caller's. *)

\* Produce with an IdempotencyKey, or ProduceFunc: AppendMessage.
ProduceKeyed(c, k) ==
    /\ c \in DOMAIN kind /\ run[c].pc = "off"
    /\ run' = [run EXCEPT ![c] = Doing("attempt", << <<k>> >>)]
    /\ UNCHANGED <<kind, callVars, resp, txVars, logVars, aheadVars, boundVars>>

ProduceInTx(t, k) ==
    /\ t \in DOMAIN kind /\ run[t].pc \in {"off", "open"}
    /\ made[t] < MaxPerTx
    /\ made' = [made EXCEPT ![t] = @ + 1]
    /\ run' = [run EXCEPT ![t] = Doing("attempt", << <<k>> >>)]
    /\ UNCHANGED <<kind, callVars, resp, kept, holders, logVars, aheadVars, boundVars>>

\* The caller commits its transaction, or rolls it back.
EndTx(t) ==
    /\ run[t].pc = "open"
    /\ run' = [run EXCEPT ![t] = Doing("done", <<>>)]
    /\ \/ /\ log' = [k \in MessageKey |-> log[k] + IF k \in kept[t] THEN 1 ELSE 0]
          /\ claims' = claims \cup kept[t]
       \/ UNCHANGED <<log, claims>>
    /\ kept' = [kept EXCEPT ![t] = {}]
    /\ holders' = holders \ {t}
    /\ UNCHANGED <<kind, callVars, resp, made, seq, parts, aheadVars, boundVars>>

-----------------------------------------------------------------------------
(* Where a runner goes when its first batch is resolved: resolveBatch. *)

AfterBatch(r, jobs) ==
    IF jobs # <<>> THEN Doing("attempt", jobs)
    ELSE IF r \in Worker THEN Doing("taking", <<>>)
    ELSE IF r \in Tx THEN Doing("open", <<>>)
    ELSE Doing("done", run[r].job)

Resolved(r) == run' = [run EXCEPT ![r] = AfterBatch(r, Tail(run[r].job))]

\* Every operation of the batch gets its outcome, one per statement.
RecordAll(r, outcomes) ==
    resp' = [c \in DOMAIN resp |->
               IF \E i \in DOMAIN Batch(r) : c = Recorded(r, i)
               THEN outcomes[CHOOSE i \in DOMAIN Batch(r) : c = Recorded(r, i)]
               ELSE resp[c]]

\* Faulty variant: the evicted operation stays in the batch that reruns.
WithoutNone(batch, i) == batch

\* batch.remove
Without(batch, i) == RemoveAt(batch, i)

\* One statement's own failure.  A worker records it and reruns the rest; a
\* single call fails with it.
EvictStatement(r, i) ==
    /\ resp' = IF r \in Tx THEN resp ELSE [resp EXCEPT ![Recorded(r, i)] = "evicted"]
    /\ LET rest == Without(Batch(r), i)
           jobs == (IF rest = <<>> THEN <<>> ELSE <<rest>>) \o Tail(run[r].job)
       IN  run' = [run EXCEPT ![r] = AfterBatch(r, jobs)]

\* Faulty variant: the batch is reported committed.
FailBatchAsDone(r) == Resolved(r) /\ RecordAll(r, [i \in DOMAIN Batch(r) |-> "appended"])

\* Faulty variant: the statement index is looked at before the deadline.
FailBatchByIndex(r) == EvictStatement(r, 1)

\* failBatch: a transient error or a deadline, whatever index it carries.
FailBatch(r) == Resolved(r) /\ RecordAll(r, [i \in DOMAIN Batch(r) |-> "failed"])

\* classifyBatchFailure sees the errors of all attempts joined: the first
\* PgError in the join decides, so a statement that fails after an attempt the
\* server called off with a transient error fails the whole batch.
FailStatement(r, i) == IF run[r].told THEN FailBatch(r) ELSE EvictStatement(r, i)

\* A transient error: the retry loop runs the attempt again until its attempts
\* are spent, and then everything in the batch fails.  ProduceInTx never retries.
Retry(r) ==
    IF run[r].tries + 1 < MaxRetries /\ r \notin Tx
    THEN /\ \E reported \in {run[r].told, TRUE} :
              run' = [run EXCEPT ![r] = [Doing("attempt", @.job) EXCEPT
                        !.tries = run[r].tries + 1, !.told = reported]]
         /\ UNCHANGED resp
    ELSE FailBatch(r)

-----------------------------------------------------------------------------
(* One attempt: protectedInsertSQL for each statement, in pipeline order. *)

\* Faulty variant: the key is minted inside the attempt, so none is found.
IsDuplicateNever(r, k) == FALSE

\* The claim exists: committed, or made earlier in the same transaction.
IsDuplicate(r, k) == k \in claims \/ (r \in Tx /\ k \in kept[r])

\* No other open transaction has the batch's keys: a claim waits for it.
KeysFree(r) == \A t \in Tx \ {r} : kept[t] \cap ToSet(Batch(r)) = {}

Fresh(r) == {i \in DOMAIN Batch(r) : ~IsDuplicate(r, Batch(r)[i])}
IdAt(r, i) == seq + Cardinality({j \in Fresh(r) : j <= i})
Uncovered(r) == {i \in Fresh(r) : IdAt(r, i) \div PartitionSize \notin parts}
Rejected(r) == {i \in DOMAIN Batch(r) : Kind(Batch(r)[i]) = "rejected"}
Unencodable(r) == {i \in DOMAIN Batch(r) : Kind(Batch(r)[i]) = "unencodable"}

Attempting(r) == run[r].pc = "attempt" /\ Unencodable(r) = {} /\ KeysFree(r)
CanCommit(r) == Attempting(r) /\ Rejected(r) \cup Uncovered(r) = {}

\* The ids the attempt drew stay drawn, whatever becomes of it.
DrawUpTo(i, r) == seq' = IdAt(r, i)
DrawAll(r) == seq' = seq + Cardinality(Fresh(r))

\* json.Marshal fails before anything is sent, and carries no statement index
\* the rulebook trusts: each operation is tried alone.
FailToEncode(r) ==
    /\ run[r].pc = "attempt" /\ Unencodable(r) # {}
    /\ IF Len(Batch(r)) = 1
       THEN Resolved(r) /\ RecordAll(r, [i \in DOMAIN Batch(r) |-> "unencodable"])
       ELSE /\ LET singles == [i \in DOMAIN Batch(r) |-> <<Batch(r)[i]>>]
               IN  run' = [run EXCEPT ![r] = Doing("attempt", singles \o Tail(@.job))]
            /\ UNCHANGED resp
    /\ UNCHANGED <<kind, callVars, txVars, logVars, aheadVars, boundVars>>

\* The server rejects a statement that precedes any missing partition.
Reject(r) ==
    /\ Attempting(r) /\ Rejected(r) # {}
    /\ LET i == Min(Rejected(r))
       IN  /\ \A j \in Uncovered(r) : i <= j
           /\ FailStatement(r, i)
           /\ DrawUpTo(i - 1, r)
    /\ UNCHANGED <<kind, callVars, txVars, log, claims, parts, aheadVars, boundVars>>

\* A statement is routed to a partition that does not exist: insertUntilCovered
\* heals, or gives up with ErrPartitionCreationBehind, a declared permanent error
\* that decides whatever it is joined with.
MissPartition(r) ==
    /\ Attempting(r) /\ Uncovered(r) # {}
    /\ LET i == Min(Uncovered(r))
       IN  /\ \A j \in Rejected(r) : i < j
           /\ DrawUpTo(i, r)
           /\ IF run[r].heals > MaxRetries
              THEN EvictStatement(r, i) /\ healFailures' = healFailures + 1
              ELSE /\ run' = [run EXCEPT ![r].pc = "heal", ![r].missing = i]
                   /\ UNCHANGED <<resp, healFailures>>
    /\ UNCHANGED <<kind, callVars, txVars, log, claims, parts, aheadVars, faults>>

\* What a committed attempt leaves in the database.
Land(r) ==
    /\ log' = [k \in MessageKey |->
                 log[k] + IF \E i \in Fresh(r) : Batch(r)[i] = k THEN 1 ELSE 0]
    /\ claims' = claims \cup ToSet(Batch(r))

\* createAheadGate: the trigger points at 80% and 95% of a partition, the first
\* one the new ids contain, claimed once per process.
TriggerPoint(id, pct) ==
    (id \div PartitionSize) * PartitionSize + (PartitionSize * pct) \div 100

ClaimId(first, last) ==
    LET hit == {pct \in {80, 95} : TriggerPoint(last, pct) \in first .. last}
    IN  IF hit = {} THEN -1 ELSE (last \div PartitionSize) * 100 + Min(hit)

TriggerAhead(r) ==
    LET last == seq + Cardinality(Fresh(r))
        claim == IF Fresh(r) = {} THEN -1 ELSE ClaimId(seq + 1, last)
    IN  IF claim > gate
        THEN /\ gate' = claim
             /\ ahead' = ahead \cup {last \div PartitionSize + 1}
        ELSE UNCHANGED aheadVars

Outcome(r, i) == IF i \in Fresh(r) THEN "appended" ELSE "duplicate"

Commit(r) ==
    /\ r \notin Tx
    /\ CanCommit(r)
    /\ Land(r)
    /\ DrawAll(r)
    /\ TriggerAhead(r)
    /\ Resolved(r)
    /\ RecordAll(r, [i \in DOMAIN Batch(r) |-> Outcome(r, i)])
    /\ UNCHANGED <<kind, callVars, txVars, parts, boundVars>>

\* The connection dies: the commit landed or it did not, and the attempt reruns
\* under the same keys.
LoseCommit(r) ==
    /\ r \notin Tx
    /\ CanCommit(r)
    /\ Fault
    /\ Land(r) \/ UNCHANGED <<log, claims>>
    /\ DrawAll(r)
    /\ Retry(r)
    /\ UNCHANGED <<kind, callVars, txVars, parts, aheadVars>>

\* AttemptTimeout passes: the batch fails as a whole, landed or not.
TimeOutAttempt(r) ==
    /\ r \in Worker
    /\ CanCommit(r)
    /\ Fault
    /\ Land(r) \/ UNCHANGED <<log, claims>>
    /\ DrawAll(r)
    /\ FailBatch(r)
    /\ UNCHANGED <<kind, callVars, txVars, parts, aheadVars>>

\* The insert is kept by the savepoint; the caller's commit decides.
InsertInTx(t) ==
    /\ CanCommit(t)
    /\ kept' = [kept EXCEPT ![t] = @ \cup {Batch(t)[i] : i \in Fresh(t)}]
    /\ holders' = holders \cup {t}
    /\ DrawAll(t)
    /\ TriggerAhead(t)
    /\ Resolved(t)
    /\ UNCHANGED <<kind, callVars, resp, made, log, claims, parts, boundVars>>

-----------------------------------------------------------------------------
(* Creating partitions: the heal, and the background create-ahead. *)

ReadLastValue(r) ==
    /\ run[r].pc = "heal"
    /\ run' = [run EXCEPT ![r].pc = "create", ![r].target = (seq + 1) \div PartitionSize]
    /\ UNCHANGED <<kind, callVars, resp, txVars, logVars, aheadVars, boundVars>>

\* CREATE ... PARTITION OF takes an exclusive lock on the parent, which an open
\* transaction that produced holds shared; one that exists needs no lock.
Creatable(n) == n \in parts \/ holders = {}

CreatePartition(r) ==
    /\ run[r].pc = "create"
    /\ Creatable(run[r].target)
    /\ parts' = parts \cup {run[r].target}
    /\ run' = [run EXCEPT ![r].pc = "attempt", ![r].heals = @ + 1]
    /\ UNCHANGED <<kind, callVars, resp, txVars, log, claims, seq, aheadVars, boundVars>>

\* lock_timeout expires.  55P03 is not transient, and the index of the statement
\* that met the missing partition is still attached to it.
TimeOutHeal(r) ==
    /\ run[r].pc = "create"
    /\ run[r].target \notin parts
    /\ ~Creatable(run[r].target) \/ healFailures < MaxHealFailures
    /\ healFailures' = healFailures + 1
    /\ FailStatement(r, run[r].missing)
    /\ UNCHANGED <<kind, callVars, txVars, logVars, aheadVars, faults>>

\* The heal's connection fails.
FailHeal(r) ==
    /\ run[r].pc = "create"
    /\ Fault
    /\ Retry(r)
    /\ UNCHANGED <<kind, callVars, txVars, logVars, aheadVars>>

CreatePartitionAhead(n) ==
    /\ n \in ahead
    /\ Creatable(n)
    /\ parts' = parts \cup {n}
    /\ ahead' = ahead \ {n}
    /\ UNCHANGED <<kind, callVars, resp, run, txVars, log, claims, seq, gate, boundVars>>

\* Best effort: a failure warns and drops, and the claim at the gate stays.
DropCreateAhead(n) ==
    /\ n \in ahead
    /\ ahead' = ahead \ {n}
    /\ UNCHANGED <<kind, callVars, resp, run, txVars, logVars, gate, boundVars>>

-----------------------------------------------------------------------------
CallerStep ==
    \/ \E o \in Op : Enqueue(o) \/ StartWorker(o) \/ Abandon(o)
    \/ \E c \in KeyedCall, k \in Key : ProduceKeyed(c, k)
    \/ \E t \in Tx : EndTx(t) \/ InsertInTx(t) \/ \E k \in Key : ProduceInTx(t, k)

RunnerStep(r) ==
    \/ FailToEncode(r) \/ Reject(r) \/ MissPartition(r) \/ Commit(r)
    \/ LoseCommit(r) \/ TimeOutAttempt(r)
    \/ ReadLastValue(r) \/ CreatePartition(r) \/ TimeOutHeal(r) \/ FailHeal(r)

BackgroundStep ==
    \E n \in ahead : CreatePartitionAhead(n) \/ DropCreateAhead(n)

\* Every call made has returned: nothing is left to do.
Done ==
    /\ \A o \in Op \cap DOMAIN kind : resp[o] # "none"
    /\ \A r \in Runner : run[r].pc \in {"off", "done"}
    /\ UNCHANGED vars

Next ==
    \/ CallerStep
    \/ \E w \in Worker : Dequeue(w)
    \/ \E r \in Runner : RunnerStep(r)
    \/ BackgroundStep
    \/ Done

Spec == Init /\ [][Next]_vars

-----------------------------------------------------------------------------
Succeeded == {"appended", "duplicate"}

\* Whatever is retried, abandoned, split or left in an open transaction, one
\* idempotency key puts at most one row into the log.
KeyLandsOnce == \A k \in MessageKey : log[k] <= 1

\* A Produce that returned success, as new or as a duplicate, is durable: nothing
\* is ever confirmed on the strength of a transaction that can still roll back.
SuccessIsDurable ==
    /\ \A o \in Op : resp[o] \in Succeeded => log[o] = 1
    /\ \A c \in KeyedCall : resp[c] \in Succeeded => log[Batch(c)[1]] = 1

\* The rulebook isolates poison: an operation is evicted from a shared
\* transaction, or told it cannot be encoded, only for a fault of its own, as
\* long as no heal has failed.
PoisonIsolated ==
    \A o \in Op :
        /\ resp[o] = "unencodable" => Kind(o) = "unencodable"
        /\ resp[o] = "evicted" => Kind(o) = "rejected" \/ healFailures > 0

\* What the comment in classifyBatchFailure says: a PgError with a statement
\* index is the server rejecting that one statement.
EvictedIsRejected == \A o \in Op : resp[o] = "evicted" => Kind(o) = "rejected"

\* Every operation gets exactly one outcome: batchResponse.record closes the
\* done channel, and closing it again panics in the worker.
AnsweredOnce ==
    [][\A c \in Op \cup KeyedCall : resp[c] # "none" => resp'[c] = resp[c]]_vars

\* No work is stranded between the callers' two lock sections and a worker's
\* last look at the queue: what has no outcome yet is in some worker's hands, or
\* queued with a worker running or a caller about to start one.
NoWorkStranded ==
    \A o \in Op : caller[o] # "idle" /\ resp[o] = "none" =>
        \/ \E w \in Worker : \E i \in DOMAIN run[w].job : o \in ToSet(run[w].job[i])
        \/ /\ o \in ToSet(queue)
           /\ \/ \E w \in Worker : run[w].pc # "off"
              \/ \E p \in Op : caller[p] = "enqueued"
=============================================================================
