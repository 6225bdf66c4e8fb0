# sqlstreams: TLA+ models and proofs

sqlstreams is a message stream library on Postgres. Producers append rows to a
stream's message log; consumer groups read it, either through a shared cursor
(ranges of ids under a lease, failures set aside in an exception window) or
through fan-out (one delivery row per message). All coordination is rows,
locks, snapshots and leases in the database: a process holds nothing that
another one cannot take over. Around this core are a registry of streams and
groups, schedules, workers and their managers, retention, migrations, metrics,
alerts, and a bench lab that judges recorded runs.

This directory models the system in TLA+, checks it with TLC on small instances
and proves most of the safety properties with TLAPS, for instances of any size.
`PROJECT.json` lists the components, the runs, the source lines behind every
definition, the hazards and the theorems.

## 1. Inventory

Paths are under `src/`.

| Component | State | Operations | Modelled in |
|---|---|---|---|
| Message log, produce (`pkg/produce/controller`) | `message_log_<id>`, its sequence, `idempotency_key`, partitions | append, batch, append in the caller's transaction, create ahead, heal | `MessageLog`, `Produce` |
| Batcher (`pkg/produce/batcher`) | in-memory queue, workers | enqueue, take, flush, evict a statement, answer | `Produce` |
| Cursor claim (`pkg/consume/messageconsumer/controller`) | `consumer_group_cursor` | register, observe, fresh claim | `CursorClaim`, abstract: `ClaimFrontier` |
| Range leases (`reclaim.go`, `commit.go`) | `claim_lease` | reclaim, quarantine, commit, partial commit, force reclaim | `CursorGroup` |
| Message consumer runner (`pkg/consume/messageconsumer`) | ranges in memory, queue, permits, chains per ordered key | prefetch, dispatch, run, resolve, close | `ClaimBuffer`, `OrderedKeys` |
| Group config (`config_state.go`, `metadata.go`) | the document on the worker row, each instance's copy | declare, refresh, claim, resolve options | `GroupConfig` |
| Exception window (`pkg/consume/exceptionconsumer`) | `exception_queue` | kill, claim, renew, six outcomes | `CursorGroup`, `OrderedKeys` |
| Cursor advancer (`pkg/consume/cursoradvancer`) | `committed` | select target, apply target | `CursorGroup` |
| Fan-out consumer (`pkg/consume/deliveryconsumer`) | `delivery`, `consumer_group_cursor` | fan out, claim, outcomes | `DeliveryGroup` |
| Message key leases (`pkg/consume/base`) | `message_key_lease` | claim (plain, compacted, ordered), release | `KeyLease`, `OrderedKeys` |
| Groups and bindings (`pkg/consume/controller`) | `consumer_group_config`, `binding_config`, `binding_config_log` | register, declare, wait, install, destroy, sweep | `GroupRegistry` |
| Stream lifecycle (`pkg/stream/controller`, `pkg/admin/stream.go`) | `stream_config`, its log, the stream's tables | register, replace, rename, destroy | `StreamRegistry` |
| Stream janitor (`pkg/stream/janitor`) | the rows it deletes | drop partitions, sweep rows, heads, key leases | `Retention`, `KeyLease` |
| Compaction (`pkg/compaction`) | `compaction_head` | upsert, lock, sweep | `CompactionHeads`, `KeyLease` |
| Schedules (`pkg/schedule`, `pkg/scheduler`) | `schedule_config`, `schedule_cursor` | register, replace, suspend, delete, produce due times, run by hand, status | `Schedules`, `ScheduleStatus` |
| Cron expressions (`pkg/schedule/internal/robfig`) | none | parse, next time, shortest rate | `Cron` |
| Workers (`pkg/worker/controller`) | `worker_config`, `worker_instance` | claim, renew, release, sweep, set target | `WorkerInstances` |
| Managers (`pkg/worker/manager`, `pkg/systemmanager`) | running executions of a process | claim own row, reconcile, drain, restart | `WorkerManager` |
| System, migrations (`pkg/system`, `pkg/migrate`) | `migration_log`, the applied steps | register, migrate up and down, destroy, admit a build | `SchemaVersions` |
| Metrics (`pkg/metric`) | counters and events of a session, a pass | queue, flush, collect | `SessionMetrics`, `CollectorPass` |
| Alerts (`pkg/alert`) | alert heads, measurements, lease history | evaluate, record | `AlertEvidence`, `AlertHeads`, `CollectorProgress` |
| Retry wrappers (`pkg/common`) | attempts | run, retry, give up | `Retries` |
| Logging (`pkg/common/logging`) | ring of records, suppression windows | capture, suppress, drain | `LogPipeline` |
| Bench lab (`.bench`) | records, phases, processes | run, guard, check | `LabVerdict`, `LabManager`, `LabGuards`, `LabConsumers` |
| Vacuum, otel export, client, CLI, end-to-end tests | none that the above depend on | | not modelled |

How the parts interact. Producers and consumers share only the log: a producer's
commit is what a claim's snapshot may or may not see. A fresh claim hands a
range to the message consumer and leaves a `claim_lease` row. A commit turns
outcomes that are not a success into `exception_queue` rows, which the exception
consumer works off. The advancer reads cursor, leases and exceptions and moves
`committed`, on which the ordered-key gate and retention depend. Keyed messages
additionally take a `message_key_lease` before a handler runs. Every consumer,
advancer, janitor and collector is itself run by a worker instance, which a
manager starts; schedules, metrics and alerts are messages on system streams.

What is hard in it:

- **Ids commit out of order.** `nextval` is not transactional, so the visible
  head may sit above an id whose producer is still open. The fence that solves
  this pairs a head with a transaction id and is evaluated with a snapshot that
  may be old when the row lock is granted.
- **Leases expire while their holder lives.** Every write of a holder may be
  stale; only tokens tell.
- **Statement snapshots precede row locks.** What a statement read before it
  waited may be wrong when it proceeds (READ COMMITTED re-evaluates only the
  updated row), and `now()` is the start of the transaction.
- **Read, then act in another transaction.** Registrations, replacements,
  destruction, retention, schedules and alerts look first and write later.
- **Lost replies and retries.** A call may have committed although it failed.
- **Goroutines** share a queue, a range or a counter without a common lock.
- **Crashes at any step**, and liveness that may not assume that anything ever
  succeeds.

What makes each part correct is what its run checks (section 3).

## 2. The modules

### The delivery core

**`MessageLog`** is the log as producers write it, with the parts of Postgres
that the fences rest on: transaction ids (assigned by the first write, the
idempotency key), the id sequence, commit and abort, visibility, and
`xmin`/`xmax` of a snapshot. It has no `Next`; `CursorClaim` and `DeliveryGroup`
extend it and interleave `Produce` with their own steps.

**`Produce`** is the producing side of one process: unkeyed calls that share
transactions through the batcher, keyed calls, and calls in a caller's
transaction, over a log whose partitions are created ahead or healed. One attempt
at a transaction is one step; what follows a failure (retry, heal, evict, fail the
batch) are steps of their own. A failure is judged by the errors of all attempts
joined: `told` remembers that an earlier one was a transient error of the server.

**`ClaimFrontier`** is the abstract specification of a group's read position:
every id's fate is decided once, and the frontier only passes decided ids and
hands out every row among them.

**`CursorClaim`** is the claim protocol of racing workers: `readClaimSnapshot` is
`ReadClaimSnapshot` and `DrawObservationXid` (the head is read in the statement
snapshot, the transaction id is drawn afterwards), the claim statement is
`BeginFreshClaim` (snapshot fixed) and `FreshClaimMessagesWithCursor` (row lock
granted, gate, cursor update, lease and read in one transaction). A worker may
die anywhere. `RegisterAtHead` takes the visible head as settled, as the code
does, so ids below it that commit later are skipped: properties speak of ids
above `start`.

**`CursorGroup`** starts where the frontier has passed: `lease` is `claim_lease`,
`held` is what a process remembers of a range (and outlives the lease), `exc` is
`exception_queue`, `work` is the exception a runner has claimed, `target` is the
advancer's value between its two statements. Each action is one transaction or
one step inside a process. `Row` says what each id is to the group: a message, a
gap, another payload version, or matched by no binding.

**`OrderedKeys`** extends `CursorGroup` for one key with the ordered policy: the
key's lease row, the chain inside a range (`processChain`,
`resolveDeferredBehind`), the gate of `claimOrdered` over the exception window
and the log above `committed`, and the release inside the outcome's transaction.

**`KeyLease`** is one key of one group outside the ordered policy: the compaction
head as producers race for it, the claim with its snapshot and its recheck,
retries under the same token, late releases, expiry, and the janitor's sweep as
two steps (the subselect picks, the DELETE gets the lock later).

**`DeliveryGroup`** is the fan-out path: `fanOut`'s two statements by racing
workers, and the delivery rows, which have no lease.

**`ClaimBuffer`** is the message consumer inside one process: the map of ranges
has a lock, a range's results do not, so a handler's lookup, result and counter
are separate steps, and shutdown takes the ranges out of the map in between. Only a
fresh claim asks for what the queue has room for; a reclaimed range (`Expired`) comes
back whole, and the prefetcher may wait with a part of it added.

**`GroupConfig`** is the document that a declaration stores, the copy an instance
refreshes, and the copy a claim and its messages run with.

### Registries, workers and upkeep

**`GroupRegistry`** (declarations of binding sets and the sessions that wait for
each other), **`StreamRegistry`** (look up, lock, look up again; the row found may
be renamed or deleted before it is updated; destruction in batches),
**`SchemaVersions`** (migration steps behind a session lock that a dead connection
drops), **`Schedules`** (scan, then claim under the row lock; replacement,
suspension and deletion in between), **`Retention`** (the janitor judges a
partition before the transaction that drops it), **`CompactionHeads`** (the head
row as a lock), **`WorkerInstances`** (one worker row and the processes that
compete to run it; the claim's and the renewal's `now()` are fixed when their
transaction begins, and only the claim and the change of the target lock the
row), **`WorkerManager`** (a host's life: claim, reconcile, drain, and what the
end of a life means to `SystemManager.Run` and to `Consume`).

**`Cron`** is an algorithm: parser, `Next` as the loop of the code, one step per
iteration, and `minRate`. Its calendar is a parameter; a year of few short months
with a leap month has every carry of the real one.

### What watches and judges

**`AlertEvidence`**, **`AlertHeads`**, **`CollectorProgress`**, **`CollectorPass`**,
**`SessionMetrics`**, **`ScheduleStatus`**, **`LogPipeline`** and **`Retries`** are
each one component with the readers and writers that run beside it. The lab is
modelled because its verdict is what the repository's claims rest on:
**`LabVerdict`** lets the library under judgement misbehave, remembers how
(`fault`) and holds the verdict against it, with rows and records that age by
times of their own; **`LabGuards`**, **`LabManager`** and **`LabConsumers`** are the
guards of a scenario that may require, report or leave out each of them and may
record nothing, the processes, which may miss their signal, and the counters of a run.

### Composition and instances

`OrderedKeys` composes the range protocol, the exception window and the key
lease; `CursorClaim` and `DeliveryGroup` compose with the log. Components that
share no state are put side by side in **`MCConsumers`** and **`MCServices`**:
a variable `part` says which of them a behaviour is about, the others stay in
their initial state, so each is checked over its whole state space without a
product. The constant `Parts` says which of them a run explores:
all of them in the runs, one to look at a component alone. The other **`MC…`** modules give one module its constants; `CursorClaim`,
`DeliveryGroup` and `WorkerInstances` are checked as they stand.

The theorems are in **`ClaimProofs`**, about `CursorClaim` and `KeyLease`; in
**`CursorGroupProofs`**, about `CursorGroup` and `OrderedKeys`; in **`ProduceProofs`**;
in **`WorkersProofs`**, about `WorkerInstances` and `WorkerManager`; in
**`ConsumersProofs`**, about `DeliveryGroup`, the exception window, `GroupRegistry`,
`ClaimBuffer`, `GroupConfig` and `Retries` side by side in `MCConsumers`; and, about the
modules side by side in `MCServices`, in **`ServicesProofs`** (`Retention`,
`CompactionHeads`, `StreamRegistry`, `SchemaVersions`, `Schedules`, `ScheduleStatus`,
`LabManager`, `LabGuards`, `LabConsumers`, `LabVerdict`) and **`TelemetryProofs`**
(`AlertHeads`, `AlertEvidence`, `CollectorPass`, `SessionMetrics`, `LogPipeline`).
**`SumLemmas`** has the facts on minima, maxima and sums over finite sets that the last
three need. Section 4 says what they prove.

Definitions marked "Faulty variant" are plausible bugs of the code they stand
beside. `PROJECT.json` names one for each property; every other variant in the
modules (for instance `WindowOfSpan`, `ItemConfigNow`, `GroupDoneOnceStarted`,
`MessagesOfRows`, `WorstByNumber`) also violates the property of its part when it
takes the place of the definition it varies, which is how each conjunct of a
composite property is known to say something.

### Abstractions

- A transaction is one step when nothing it reads can change before it commits
  (the row lock is held), and several steps when a snapshot is taken before a
  wait. The recheck of a key claim runs while the lease row is locked, so claim
  and recheck are one step; the head read before the wait is a step of its own.
- The transaction id that a claim draws for itself is not modelled: it is larger
  than every observation and only delays other claims' `xmin`. The observation's
  own transaction ends at once.
- Times are reduced to "before or past `expires_at`" in the lease protocols and to
  small numbers where durations are compared (alerts, schedules, guards). Backoff
  delays are left out: a row that waits for its time is a row that is not claimed
  yet. Expiry may come at any moment.
- Tokens are a small set and are reused once nothing carries or remembers them.
- `CursorGroup` leaves keys out (`OrderedKeys` and `KeyLease` have them) and
  takes the frontier's promise for granted: claimed ids are settled, which is
  what `CursorClaim` shows. `WorkerManager` takes a claim as one step, whose
  transactions are `WorkerInstances`'.
- For a key lease the clock is read when the row is locked; for a worker instance
  when the transaction begins. In the key claim the window is one statement wide.
- A fan-out group is registered at the beginning of its stream.
- Variables that only record what happened (`settledIds`, `halfway`, `manned`,
  `leaseWrites`, `handovers`, `hasty`) are read by no guard but a bound.
- Payloads, names, SQL text, log wording and report layout are left out.

## 3. The runs

Every run lists its properties in its `.cfg`. A passing run has no violation in
the whole state space of its instance.

| Run | Instance | What it shows |
|---|---|---|
| `claim` | 2 workers, 3 ids, 5 transaction ids, 2 open producers, limit 2 | `SettledHeadIsSettled`, `NoMessageSkipped`, `RangesPartitionClaimed`, and that `CursorClaim` implements `ClaimFrontier` |
| `group_ranges` | 2 messages, 2 range tokens, 1 runner, quarantine at the second reclaim | `NoMessageLost`, `OneOwnerPerMessage`, `CommittedIsResolved` |
| `delivery_open_producers` | 2 overlapping producers | expected violation of `NoMessagePassed` (section 6) |
| `key_lease` | 2 claims, 4 messages of which 3 are compacted and one outranks a later one, 1 fault, 1 sweep | `OneRunPerKey`, `NewestNeverSkipped`, `NeverBackwards`, `EventuallyResolved` |
| `ordered_keys` | 2 messages of a key in ranges of one, 2 range tokens, 1 runner | `StartsInOrder` across ranges |
| `ordered_keys_live` | 2 messages of a key in one range, 1 range token, 1 runner | `StartsInOrder` within a range, `LivesOrDies`, `EventuallyInOrder` |
| `worker_instances` | 2 processes, 3 rows, targets 0, 1, 2 and unlimited, 2 faults, 2 changes, 1 late renewal | `LiveWithinTarget`, `SuspendedStops`, `AlwaysReplaced` |
| `worker_manager` | a system and a consume host, 4 worker rows, 4 row changes, 1 exit | `OneExecutionPerRow`, `WantedRowsRun` |
| `worker_manager_restored` | the same | expected violation of `ResumesWhenRestored` (section 6) |
| `produce` | 3 unkeyed and 2 keyed calls, a caller's transaction, 2 batch workers, batches of 2, partitions of 3 ids, 1 fault | `KeyLandsOnce`, `SuccessIsDurable`, `PoisonIsolated`, `NoWorkStranded`, `AnsweredOnce` |
| `consumers` | parts delivery (2 open producers, 3 ids, 2 workers, limit 1), exceptions, groups, buffer (a fresh and a reclaimed range, a queue of 2), config, retries | `DeliveriesSound`, `ExceptionsSound`, `OutcomesForward`, `GroupRegistrySound`, `ClaimsSound`, `RetriesSound` |
| `services` | parts retention, heads, streams, schema, schedules, status, cron, evidence, alerts, progress, pass, session, log, verdict, manager, guards, consumers | `LogIsKept`, `StreamRegistrySound`, `SchemaSound`, `SchedulesSound`, `SuspendedIsSilent`, `CronSound`, `AlertsSound`, `TelemetrySound`, `LabSound` |

The composite properties name the property of each part, which its module states
and comments: for instance `LogIsKept` is `RemovedIsResolved`, `NoOrphanException`
and `NoDanglingHead` of `Retention` and `HeadsMoveForward` of `CompactionHeads`.

Why the bounds are enough to be interesting.

- The fence needs a producer below the head that is still open while another has
  committed above it, an observation by one worker and a claim by another: 2 open
  producers, 3 ids and 2 workers reach this, with gaps from aborts, and 5
  transaction ids leave room for 3 producers and 2 observations.
- The range protocol needs a stale holder, its successor and the advancer between
  its two statements: 2 tokens and 2 messages, one of which may be committed
  partially. The exception window (part exceptions: a message, a row of another
  version and one no binding matches) needs two runners that take over from each
  other; 2 retries make an attempt that is neither the first nor the last.
- Priority of ranks over ids needs 3 compacted messages, and an uncompacted one
  shows that it never becomes the head.
- Two processes race for one instance, and rows left by lost replies and crashes
  stand for further processes.
- A batch needs two statements so that one can be poisoned, a third operation so
  that something is queued while both workers are busy or leaving, and ids that
  end a partition; a keyed pair shares a key.
- Two binding sets and three processes make a waiter behind a waiter; two streams
  and three registrants make a rename collide with a registration; two migrators
  of different builds and a step outside a transaction, which has a Down and shuts
  out older builds, make a takeover and an interrupted step walked back over.
- With 2 producers open at once a higher id of an earlier transaction commits while
  the lower one is open, so the fan-out does pass a message in this instance.
- The fresh range fills the queue; the reclaimed one is claimed with one place left,
  which no fresh range of its size would be. It has one chain, so the wait in
  `EnQueue` with part of a range added does not happen in this instance: that needs a
  range of three messages and 3.5 million states for this part alone.
- The lease log is kept for 1, the pending span is 3 and the collector's clock is
  up to 1 off: a handover's earlier lease may be swept, and a stamp may lie ahead.
- Four scenarios of the lab: all guards required, nothing recorded, the guards
  reported or left out, and the headroom alone left out.
- A partition of 2 ids in a log of 4 leaves one partition full and one partial.
- Two checks, collectors, sessions or lab processes overlap; clocks run a little
  past the longest window they are compared with.

`MaxStalls` bounds surrenders, deferrals and delays, which the code repeats
without limit and which do not change the budget. It is 0 in `ordered_keys`, where
a surrendered range differs from an abandoned one that expires only in its count
of reclaims; surrenders happen in `ordered_keys_live` and `group_ranges`. The safety
properties of every passing run are proved for all sizes (section 4); there the bounds
only limit what the liveness properties and the mutants see.

Deadlock is checked except in `claim`, `delivery_open_producers`, `consumers` and
`services`, where ids, clocks and calls are bounded and run out, and in
`worker_manager`, where a host that was cancelled has stopped.

### Fairness

Fairness is only assumed of what the code's loops and the clock guarantee:
consumers, advancer and managers poll for ever; a process that holds something
ends in one way or another, which includes dying; leases of holders that do
nothing run out; a heartbeat beats. Success is never assumed: `LivesOrDies`,
`EventuallyInOrder` and `EventuallyResolved` hold although every run may crash.
In `KeyLease` the start of a claim is strongly fair because the few tokens are a
bound of the model: in the code a poll always finds a fresh token. In
`WorkerInstances` only rows whose holder is gone are sure to expire. In
`WorkerManager` a host's own loop (claim, retry, heartbeat, refresh, reconcile,
drain) and the steps of an execution that was started or told to stop are fair;
changes of rows, exits and cancellation are not.

## 4. What is proved

TLAPS checks the following for every value of the constants.

**`ClaimProofs`**, the cursor (assumptions `LogBounds`, `ClaimBounds`): `TypeCorrect`,
`GateIsSafe`, `NoSkip`, `Partition`, `Refinement`. The safety invariants are not
inductive: what a gate passes depends on pairs observed earlier, by this worker
or by a peer. `IInv` adds
- `LogInv`: ids and transaction ids are assigned in order;
- `Fenced(h, x)`: every id up to `h` was drawn by a transaction below `x`. It
  holds of an observed pair because the transaction id is drawn after the head
  was read, no later step can break it, and it holds of the componentwise
  maximum of two pairs, which is what the cursor row stores;
- below the `xmin` of a claim statement every transaction has ended, also when
  the statement has waited since;
- so a head whose transaction id the `xmin` has reached has only decided ids
  below it, and `claimed <= settledHead`.
The refinement maps an id to its fate and `claimed` to the frontier; a producer's
step is `Decide` or a stutter, a claim is `Advance` or a stutter.

**`ClaimProofs`**, the key lease (assumption `KeyBounds`): `KeyTypeCorrect`,
`NewestSurvives`, `Monotone`, `Exclusive`. `KeyIInv` says that the head row is the newest compacted
message of the log (`HeadInv`, from the order of rank and id being total and
transitive) and that a claim whose snapshot saw another head had seen a newer
message (`ClaimInv`), which no later step takes away. `Monotone` follows because
only the head is given a compacted key. `Exclusive` needs `HolderInv` besides: an
unexpired run is named by an unexpired lease row. It is preserved by every step
but one, the janitor's delete of a row that a claim has just taken over; the
theorem therefore excludes behaviours in which that has happened (section 6).

**`CursorGroupProofs`** (assumption `GroupBounds`): `NothingLost`, `OneOwner`,
`CommittedResolved`, `WithinBudget`, `NeverBack`. The three properties are inductive
together with `RowInv` (a row of the window lies below the frontier, has a token and
a spent attempt exactly while it is in flight, and is within its budget), `LeaseInv`
and `HeldInv`. The last is what the rest stands on: a process remembers a range after
its lease has expired, was reclaimed, quarantined or given up; the invariant says
that as long as there is a lease under the token it remembers, the bounds are the
same, because a row that changes hands changes its token. So a commit, however late,
writes exactly the part of the log that its own lease covers, which no other lease
and no row covers. The advancer's `target` stays below everything open until it is
applied, since nothing at or below it opens again. `NeverBack` is an action property
of the same invariant.

**`CursorGroupProofs`**, ordered keys: `OrderedNothingLost`, `OrderedStarts`.
The ordered group writes the tables of `CursorGroup` with the same transactions, so
that module's invariant carries over (`OInv` only types what runs). The two halves of
the gate are then enough: at or below the committed mark nothing is open, and above it
only the caller's own chain can be, whose earlier messages are final or have just
deferred it.

**`ProduceProofs`** (assumption `ProduceBounds`: at least one batch worker, and at most
one open transaction of callers, since two can deadlock on their keys):
`LandsOnce`, `Durable`, `Isolated`, `NotStranded`, `OneAnswer`. TLC checked the
invariant on the `produce` instance (2.6 million states) first. `ShapeInv` says what
each runner can be doing, `PlaceInv` that an operation which waits for its outcome is
in exactly one place (once in the queue, or once in one worker's job), `PoolInv` that
`workers` counts the running workers and a queue that is not empty has one or a caller
yet to look whether it needs one, and `KeyInv` that a key has its row exactly when its
claim is committed. A lost commit reply leaves both behind, so the retry finds a
duplicate. `Isolated` says that an operation is evicted only for its own payload; the
converse is false (section 6). `OneAnswer` is an action property: a retry never resolves a batch again.

**`WorkersProofs`**, the rows (assumption `WorkerBounds`, rows finite): `TypeCorrect`,
`WithinTarget`. A claim counts live rows under the worker's row lock but by the clock of
its transaction's beginning. `BegunInv` says that the rows it leaves out of its count
are still expired, because a renewal that was granted takes its row out of every such
set; `RenewInv` that a renewal revives an expired row only when the expiry came between
its beginning and its UPDATE. `LiveWithinTarget` speaks of behaviours without such late
renewals (section 6). The attempt to prove it showed a fault of an earlier model, in
which a release that fails still changed what the claims under way leave out.

**`WorkersProofs`**, the managers (assumption `ManagerBounds`): `OneExecution`. A
goroutine that runs has an entry in its life's pool (`PoolInv`), so a pass never adds a row that runs
(`PendingInv`); one that was told to stop inside a life had its row deleted and is never
started again, and the next life waits for all others (`LifeInv`).

**`ConsumersProofs`** (assumptions `GroupRegistryBounds`, `ClaimBufferBounds`,
`GroupConfigBounds`, `LogBounds`, `DeliveryBounds`, `ExceptionTokens`,
`DurationsAreBounded`, `PoliciesAreIntegers`): `GroupRight`, `ClaimsRight`,
`DeliveriesRight`, `ExceptionsRight`, `OutcomesStand`, `RetriesRight`. TLC checked the
invariants and the assumptions on the `consumers` instance first.
- Fan-out: that no message is passed is false (section 6); `DeliveriesSound` says
  which one can be, for any number of producers: one that is `Overtaken`, a higher id of
  an earlier transaction having committed. Every head that is stored or held came with a
  transaction id above the owners of all ids up to it but the overtaken ones
  (`FencesInv`), and below the `xmin` of a scan every transaction has ended, so the scan
  sees what they left (`ViewInv`); a head whose id the `xmin` has reached has below it
  only ids that are settled or overtaken (`MarkInv`). A full batch holds the lowest ids above the mark (`BatchIsLowest`), so
  the cap at its last id passes nothing either (`FanOutMoves`), and a row that exists
  stays. That the mark and resolved rows never go back needs the types only.
- Exception window: `Exceptions` is an instance of `CursorGroup`, so its invariant is
  that of `CursorGroupProofs`, instantiated the same way (`ExceptionsProof`); the
  lemmas there are cited for the instance's log and tokens, whose assumptions are shown
  first (`RowsAreKinds`, `ExceptionTokens`). Its log is the fixed one of three ids;
  `CursorGroupProofs` has the theorems for any.
- Registration: a process that waits can be in an older group, and rows of the ledger
  come and go, so `WaitersInv` speaks of the present group only and of order: the last
  row of a process that waits is one that says so. A sweep takes out a waiting row
  only when the same process has a later one; a row that is appended, kept or taken
  out leaves the order of the others (`LedgerGrows`, `LedgerShrinks`).
- Claim buffer: every message of a range is in one place, which is being added, in
  the queue, in one handler, or resolved (`JobsInv`), and of a key's chain only one
  message is outstanding: those before it are resolved and those behind it not yet
  reached. That is why a successor can be entered without a lock on the chain.
  `CountInv` says that `resolvedCount` is the number of results that have been written
  and counted; as a handler writes before it counts, the last one to count finds all
  of them written, and the snapshot flag lets one commit (`CommitInv`). A range that is
  surrendered at shutdown has dispatched nothing (`DispatchInv`, `CloseInv`). The room
  the prefetcher computed stays, since others only take from the queue (`RoomInv`), so a
  fresh range fits; a reclaimed one is exempt (section 6).
  The assumption is that a message is the next of its key for at most one other.
- Config: what an instance runs is what its document resolves to (`CopiesInv`), and
  resolving is idempotent on stored documents (`KeptAsRead`). A resolved document has
  a ceiling on the timeout, so a lease sized from it covers every requested option
  and the margins (`LeaseCovers`); what it has lost since is the time waited
  (`OperationsInv`).
- Retry: the delays grow up to an attempt from which on they are constant, so
  `CalculateTotalDelay`, a sum and a product, is the sum of all delays (`DelaysAdd`), and
  `Validate` bounds it by dividing what is left (`QuotientBounds`). The waits lie between
  the attempts and are as long as the policy says (`PacedInv`); until a call that must
  not run twice returns, nothing of it has landed (`LandedInv`).

**`ServicesProofs`** (the assumptions of the modules it is about): `LogKept`,
`StreamsRight`, `SchemaRight`, `SchedulesRight`, `SuspendedSilent`, `LabSettles`,
`LabRight`.
- Retention: `settledIds` remembers the messages with an outcome other than a ready
  exception row, or with none to come; a message that was removed is one of them. Below
  the group's claimed mark every transaction has ended (`DecidedInv`), what is owed lies above the committed mark and in the log
  (`OwedInv`), and a janitor's transaction is about ids at or below that mark, whose
  exception rows and heads it has seen (`JanitorInv`). `LogKept` assumes that
  `AllowDropPastCommitted` is off, the default: with it on the janitor is allowed to
  remove what is owed, and can leave exception rows behind (section 6).
- Heads: a transaction that holds its key's head row knows the head it will compare
  with (`HeadTxInv`); explicit locks and upserts take the same row lock.
- Streams: a row has an id that was drawn and a name no other row has (`NamesInv`), and
  a call knows the id of the row it works on (`CallsInv`). Every step that writes a row
  writes its snapshot in the same transaction, from the row and not from what the
  call looked up earlier, and the transaction that deletes the row takes the tables,
  the partitions that came back and the worker rows with it.
- Schema: what an owner's rows say is a walk up and down from the baseline, with a
  row for every version up to the present one that carries that step's declaration
  (`WalkOf`), and a migration that is about to take a step holds the lock and starts
  where the owner is, unless a destruction has removed the owner under it (`CallOf`).
  A step outside a transaction that ends before its row is written is `halfway`, until
  a run of the same step writes its row: of its version neither `RecordedIsApplied` nor
  `AdmittedIsServed` says anything, because a migration in the other direction passes
  over it (section 6). Of every other version they hold, for any registry.
- Schedules: under the row lock the schedule is neither suspended nor replaced
  (`LockInv`), the due time was the newest when it was found, and everything sent has
  its idempotency key (`KeyOfSent`), which is why no time is sent twice even if the
  row is declared anew.
- Status: the head is the newest message or was swept (`HeadIdInv`); because it is
  read after the messages, a listed message that is not the head was replaced or
  is gone (`ReportInv`).
- Lab manager (`RunIsAccountedFor`): between repetitions no process runs, and the worst
  code is the worst of the codes so far (`WorstFits`). A signal may fail; the deferred
  stop does not signal such a process again, waits, and kills it when the budget is spent.
- Lab consumers (`SettledTotalIsWhole`): a process has counted at least as many
  deliveries as first ones, and once the checker has seen the drain no first
  delivery is left to count, so a snapshot written afterwards has them all (`SettleInv`).
- Lab guards (`GuardsFitPhases`): what was measured of a phase that has ended is what held
  then (`MeasuredInv`). With one paced stream its phases lie one after the other
  (`PaceInv`) and every call has a time in its phase that no other call has
  (`PacedCallsInv`), so the windows part the calls, and the count of slips is that of the
  late calls of measured phases. The held column and the verdict do ask different
  questions: a check that is reported, left out or unavailable for want of records fails
  no run, while the column counts the slope always, the headroom unless it is reported,
  and holds no paced phase without records. So a run that fails has a phase that did not
  hold, and the converse is stated for the scenarios of `GuardsBind`.
- Lab verdict (`VerdictFitsRun`): a row that is not in the log has aged or was lost, and a
  row that was rejected is a fault (`AnswersInv`, `LogRowsInv`); a message a cursor has
  passed is done, dead or abandoned (`DeliveriesInv`). What the checker drained it drained
  of all messages (`CheckerInv`), a check that did not fail has cleared the run of what it
  looks for (`CheckedInv`), and without a fault nothing is left that a check could count
  (`SettledInv`), unless a row expired before its record aged (`hasty`). A fault may
  pass only where the records no longer show it (`Hidden`): a row expired and no record
  names its id, or a row was lost whose record has aged and no group is known to miss it. `LabRight` has the hypothesis `SafetyIsJudged`: the scenario records its
  messages and, of the checks, only the four every scenario must have can fail, the
  others report. The run's scenario is one.

**`TelemetryProofs`** (the assumptions of the modules it is about): `AlertsSpaced`,
`VerdictsFit`, `SilenceCounts`, the three parts of `AlertsSound` that `AlertsRight` puts
together, and `PassesComplete`, `SessionCounted`, `NothingUnsaid`, the three parts of
`TelemetrySound` that `TelemetryRight` puts together; and `CronRight`.
- Alerts (`RepeatsSpaced`): a notice that keeps status and severity lands no sooner than
  the repeat interval after the one before it. What a head row shows, and what a check read under the
  lock, is the newest alert of its owner, or nothing and then the newest is older than
  the repeat interval (`Shows`, `AlertLockInv`). A head that retention removed is older
  than that, because `NewAlertController` clamps the interval to the retention.
- Alert verdicts (`VerdictFitsHistory`): a row that retention has removed is older than
  the window (`StoredInv`, `ReadInv`), so the samples are exactly the rows of the window
  (`SamplesTell`); they are put in order by a recursive function, and the place of a row
  is the number of rows from it up, which needs no induction over data (`RowPlace`,
  `NewestFirstIs`). What the walk has passed was active and close together (`Walked`),
  and where it stops nothing older can have been active since without a gap, unless the
  pending duration is reached anyway: the window is longer by two gaps (`WalkIsWhole`).
  `VerdictsFit` has the hypothesis `ReadIsPrompt`: a stream that keeps longer than a
  window does so by at least the time between a check's two reads. The code refuses a
  stream that does not keep longer than the window, and does not bound the time between
  the reads; TLC evaluated the hypothesis and checked the invariant (`EvidenceInv`) on
  the `services` instance.
- Collector progress (`SilenceIsCounted`): a row of the lease log says no more than was
  written, and a moment at which a lease was held is on record as long as the log is
  kept, so the lease before a handover is there while the handover is no older
  (`RecordsInv`). The loop over the log is a recursive function of the rows it has
  taken: from the start it has found on everything is covered, and a row claimed before
  that start also expired before it (`CoverageFits`). `SilenceCounts` has
  no hypothesis: an alert that is active is always justified, and one that is due is
  active if every handover in the pending span is recent enough for the log to have kept
  the lease before it (`RecordReaches`). The defaults keep the log for 24 hours and make
  the span 2 minutes; the code compares the two nowhere (section 6).
- Collector pass (`CompletedPassIsWhole`): a pass that has not failed has landed every
  series up to the one it is at, of the system and of each stream it listed
  (`PassHolds`); a pass is complete only when all of them are past their last one.
- Session (`EventsAccountedFor`, `SeriesIsOwn`, `OutstandingIsReal`): the events there
  still are, together with the drops that are counted somewhere, number at least those
  recorded (`EventsInv`). What the flusher's swaps overwrite is empty at that moment
  (`FlushInv`). The session's counter never exceeds what the session claimed
  (`CountersInv`). What a reader has seen and found not cleared was open at its first
  read (`ReaderInv`). Routines are finitely many (`LimitIsPositive`).
- Log pipeline (`NothingLostUnsaid`): a ring holds the newest records said of its
  operation, the oldest at `start` (`RingHolds`); a record is written over the oldest,
  whose place becomes the newest's. The lines left out are those the lines that were
  emitted say, those a caller carries to its next line, and those the window has counted
  (`CountsInv`); callers are finitely many, so that these are sums.
- Cron (`NextIsFirst`, `MinRateIsShortest`, theorem `CronRight`; assumptions
  `CronCalendar`, `CronInputs`): for any calendar, expression and time. Times are ordered
  unit by unit, and nothing lies between a unit and the one after it (`AddMonthIs` to
  `AddSecondIs`); seconds, sums of days over years and months, tell the same order
  (`SecondsInOrder`). The walk has passed nothing that is scheduled (`PastNone`), and once
  a field was incremented every field below the first that does not match is at its
  lowest (`AtUnit`). That is why the code may cut the lower fields only once: after a
  carry that starts the search again they are cut already. What an iteration skips is a
  unit whose field does not match, so nothing of it is scheduled (`MonthSkipped` to
  `SecondSkipped`). A result lies after all times `minRate` was given before, so its
  gap to the last of them is the only one between neighbours that is new (`Rated`).

**`SumLemmas`** has what the proofs above need of minimum, maximum and sum over a finite
set: a sum grows by what one element's term grows, and splits over a partition. They are
proved by the smallest counterexample on cardinalities, as the induction theorems of the
library take an operator.

Only model-checked are the liveness properties (`EventuallyResolved`, `LivesOrDies`,
`EventuallyInOrder`, `SuspendedStops`, `AlwaysReplaced`, `WantedRowsRun`): fairness and
`ENABLED` are outside the prover's reach. Every invariant and action property of a
passing run is stated by a theorem above, with the hypotheses named there.

## 5. Not modelled

- Vacuum, the otel exporter, the client and CLI facades, option validation and
  presentation hold no state the modelled parts read back.
- The consumer janitor's deletes of resolved delivery and log rows remove rows that
  nothing reads any more; its sweep of the binding ledger is in `GroupRegistry`.
- `Cron`: time zones with a daylight-saving change (the branch of `Next` for a
  midnight that does not exist), `@every`, fractions of a second, the text of a
  spec. A spec that starts with `TZ=` and has no space is cut at index -1 in
  `parser.go:101-106`.
- The SQL of migration steps: the registries of this build are empty, a step is a
  version number.
- Lab: scenario files, charts and reports; a guard is what it counts.
- A delivery row whose runner dies stays `processing`; the code documents this, and
  no property claims otherwise. A transaction left open anywhere in the database
  holds `xmin` back and delays claims; no liveness is claimed of `CursorClaim`.
- A second `ProduceInTx` in one transaction whose id opens a new partition waits,
  on another connection, for its own transaction until `lock_timeout`
  (`produce/controller/datastore/append.go:64-69`); `Produce` has the failure, not
  the wait.

## 6. Where the code and its words differ

Shown by a run that expects the violation:

- `delivery_open_producers`: `fanout.go` pairs the head with the snapshot's
  `xmax`, which does not bound running transactions. The mark passes an id whose
  producer commits later; the message gets no delivery row. What does hold with open
  producers is `OnlyOvertakenPassed`: such a message has a committed one with a higher
  id and a lower transaction id.
- `worker_manager_restored`: a suspended manager row ends the manager of a
  `Consume` session with no error and nothing claims it again, while
  `worker/events.go:33` says its chain is unreconciled "until target_instances is
  restored".

Stated in a module and violated by its specification, without a run of its own:

- `NoOverlap` (`KeyLease`): the janitor's DELETE compares only the keys after it has
  waited and removes a lease that a claim has just taken over
  (`stream/janitor/controller/datastore/key_lease.go:40`; its comment at 35-36
  considers only the other order). `OneRunPerKey` and `Exclusive` exclude it.
- `NeverOverTarget` (`WorkerInstances`): a renewal whose transaction began before
  its row expired still extends it afterwards, next to the row that replaced it
  (`worker/controller/datastore/instance.go:142` against 134-135).
- `LivesOrDies` (`CursorGroup`) when a quarantined range holds a message of another
  payload version: neither the exception claim nor the kill backstop takes the row,
  and `committed` stays below it for ever (`reclaim.go:124`, comment at 96-97).
- `RunsItsOwnSet` (`GroupRegistry`): between the installation of a session's set
  and its first heartbeat another process may install its own (`consumer_instance.go:130-141`,
  decision 0511).
- `IdleDestroyKeepsMessages` (`StreamRegistry`): a message appended after the check
  that the stream is idle is discarded with it (`admin/stream.go:228`: "no message
  would be discarded").
- `CursorOnSchedule` (`Schedules`): a registration compares its expression with the row it
  read, and keeps the cursor when they agree; another registration in between leaves
  the cursor on a time of its own expression (`replace.go:16-20`).
- `ExpiredIsCovered` (`LabVerdict`): a lost message whose retention has passed is
  covered by no other check (`produce_checks.go:11`). `VerdictFitsRun` exempts exactly
  that (`Hidden`), and the other side of it: a record ages by the time of the reply
  (`produce_checks.go:27`), a row by its own, so a run in which retention drops a row
  before its record is as old can fail without a fault (`hasty`).
- `WarmupIsExcluded` (`LabGuards`) with two streams: windows of different streams
  overlap, so what happens in one stream's warmup counts in another phase
  (`results.go:119`: "warmup (excluded from run guards)").

Exempt from a property that is checked, by a named condition:

- `RecordReaches` in `SilenceIsCounted` (`CollectorProgress`): nothing compares
  `ProgressPending` with the time the lease log is kept. When the log is kept for
  less, the sweep may take a lease that the span still needs, and an alert that is due
  is not raised. The run keeps the log shorter than the span.
- `halfway` in `RecordedIsApplied` (`SchemaVersions`): a step outside a transaction
  that is interrupted before its row is written is skipped by a migration in the other
  direction, and its effect stays. Validation admits such a step with a
  `Down` and with a `MinCompatible` that shuts builds out; the run's step has both.
- `Expired` ranges in `AddedRangeFits` (`ClaimBuffer`): a reclaimed range ignores the
  limit of the claim and comes back whole (`reclaim.go:20-90`, called at
  `claim.go:34-41`). The prefetcher then waits in `EnQueue` with part of the range
  added (`consumer_runner.go:161-163,207`), which the limit is there to avoid.
- `GuardsBind` in `GuardsFitPhases` (`LabGuards`): with recording disabled
  (`measure.go:333,349`), or `schedule_kept` or `backlog_bounded` declared `report` or
  not at all (`measure.go:73-75`), a run passes with a phase the ladder says gave way.

Seen while modelling, stated by no property:

- A transient `PgError` of an earlier try stays in the joined error of the call
  (`retry_datastore.go:65`). A rejected statement after it fails the whole batch,
  where `resolve.go:74-76` says transients never reach that choice and a rejection
  alone evicts the one statement.
- `alert.go:87` admits the severity "warn" only, so the case of `classify` that
  publishes a changed severity at once (`classify.go:20-22`) never happens in this
  build; `AlertHeads` leaves it out. Of the completion values that `evaluate.go:148-160`
  cannot use, `CollectorProgress` has the stamp in the future, not a malformed value.

- Quarantine copies rows that no binding matches, and the exception consumer runs
  the handler on them (`reclaim.go:124`).
- Lowering `MaxRetries` leaves `ready` exception rows with more failures than the
  new budget, which neither claim nor kill takes (`exceptionconsumer` `claim.go:41`).
- With `AllowDropPastCommitted` exception rows above the dropped prefix can be left
  without their message (`drop.go:105-106`, `sweep.go:124`); `LogIsKept` is checked
  without it. `sweep.go:16-17` describes two cutoffs, line 41 passes one twice.
- `producer_instance.go:72-73` promises `ErrPartitionLockTimeout`, which only the
  create-ahead path returns.
- `system.go:30-32` says streams left behind keep orphaned tables; the DROP fails on
  their foreign keys.
- `systemmanager.go:141-142`: errors before the first claim are retried, not
  returned.
- `metadata.go:10-12`: the row stores the declaration with defaults filled in, so
  later library defaults do not reach it.
- `message_status.go:12`: a message that was claimed while it was the head may have
  run and still be shown as superseded; without a delivery log everything is
  superseded or pending.
- A high-ranked head that expires takes the head row with it although lower-ranked
  messages of its key remain. An alert whose active head is swept is never
  published as resolved. A dropped "cleared" event leaves its routine outstanding.
- `collector/instance.go:201-205` uses the alerts stream without checking that it
  was found; a stream destroyed between the list and its snapshot fails the pass.
- `.bench/checker/drain.go:38-41`: a snapshot after the last cursor advance lacks
  the retries of failed deliveries.

## 7. Where it could grow

- `ClaimBuffer` as an implementation of the `held` part of `CursorGroup`.
- `Retention` composed with the registration of groups at the head.
