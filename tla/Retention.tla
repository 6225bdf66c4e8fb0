------------------------------ MODULE Retention ------------------------------
(***************************************************************************)
(* What the stream janitor removes while producers and one consumer group  *)
(* work on the same stream (pkg/stream/janitor, pkg/compaction):           *)
(* partitions whose newest row is past RetentionTTL, the expired prefix of *)
(* the others, and with the rows their exception and compaction_head rows. *)
(*                                                                         *)
(* The janitor reads the head of the log and judges a partition before its *)
(* transaction begins; inside it every statement sees what has committed   *)
(* by then.  DROP waits for every open transaction that produced, up to    *)
(* lock_timeout; the DELETE of a head row waits for its row lock.          *)
(***************************************************************************)
EXTENDS Integers, FiniteSets, FiniteSetsExt

CONSTANTS
    MaxId,                  \* bound: ids drawn
    IdsPerPartition,        \* partition_size
    CompactionKey,          \* message keys whose messages are compacted
    NoKey,                  \* a message that is not compacted
    KeyAt,                  \* the key of the message that draws each id
    AllowDropPastCommitted, \* stream_config
    BatchSize               \* rows one sweep transaction deletes

ASSUME RetentionBounds ==
    /\ MaxId \in Nat /\ IdsPerPartition \in Nat \ {0} /\ BatchSize \in Nat \ {0}
    /\ AllowDropPastCommitted \in BOOLEAN
    /\ NoKey \notin CompactionKey
    /\ KeyAt \in [1 .. MaxId -> CompactionKey \cup {NoKey}]

Id == 1 .. MaxId
NoHead == 0
EmptyHead == -1  \* a head row without a message: what LockHead leaves behind

VARIABLES
    lastId,     \* last id drawn
    row,        \* each id: unused, open, in the log, burned or removed
    aged,       \* ids whose created_at is past the ttl
    partitions, \* existing partitions
    headOf,     \* compaction_head
    exception,  \* exception_queue: none, ready or dead
    held,       \* messages of the group's open range leases
    claimedTo, committedTo, \* the group's cursor row
    settledIds, \* history: ids the group succeeded with or gave up on
    jan         \* the janitor's transaction

retentionVars ==
    <<lastId, row, aged, partitions, headOf, exception, held,
      claimedTo, committedTo, settledIds, jan>>
rowVars == <<lastId, row, aged, partitions, headOf>>
groupVars == <<exception, held, claimedTo, committedTo, settledIds>>

PartitionOf(i) == i \div IdsPerPartition
InPartition(n) == {i \in Id : PartitionOf(i) = n}
Visible == {i \in Id : row[i] = "in"}
Open == {i \in Id : row[i] = "open"}
Unresolved == {i \in Id : exception[i] = "ready"}

NoFloor == MaxId
IdleJanitor ==
    [pc |-> "idle", part |-> 0, ids |-> {}, heads |-> {}, exceptions |-> {}]

RetentionInit ==
    /\ lastId = 0
    /\ row = [i \in Id |-> "unused"]
    /\ aged = {}
    /\ partitions = {0}
    /\ headOf = [k \in CompactionKey |-> NoHead]
    /\ exception = [i \in Id |-> "none"]
    /\ held = {}
    /\ claimedTo = 0 /\ committedTo = 0
    /\ settledIds = {}
    /\ jan = IdleJanitor

-----------------------------------------------------------------------------
(* Producers, and the locks on compaction_head rows. *)

\* A head row is locked by the open transaction that writes its key, or by the
\* janitor that deletes it.
HeadLocked(k) ==
    k # NoKey /\ (k \in jan.heads \/ \E i \in Open : KeyAt[i] = k)

\* The first insert of a transaction; Produce models the partition's creation.
OpenInsert ==
    /\ lastId < MaxId
    /\ ~HeadLocked(KeyAt[lastId + 1])
    /\ lastId' = lastId + 1
    /\ row' = [row EXCEPT ![lastId'] = "open"]
    /\ partitions' = partitions \cup {PartitionOf(lastId')}
    /\ UNCHANGED <<aged, headOf, groupVars, jan>>

CommitInsert(i) ==
    /\ row[i] = "open"
    /\ row' = [row EXCEPT ![i] = "in"]
    /\ headOf' = [k \in CompactionKey |->
                    IF k = KeyAt[i] /\ headOf[k] < i THEN i ELSE headOf[k]]
    /\ UNCHANGED <<lastId, aged, partitions, groupVars, jan>>

RollBackInsert(i) ==
    /\ row[i] = "open"
    /\ row' = [row EXCEPT ![i] = "burned"]
    /\ UNCHANGED <<lastId, aged, partitions, headOf, groupVars, jan>>

\* LockHead in a transaction that then publishes nothing.
LockEmptyHead(k) ==
    /\ headOf[k] = NoHead /\ ~HeadLocked(k)
    /\ headOf' = [headOf EXCEPT ![k] = EmptyHead]
    /\ UNCHANGED <<lastId, row, aged, partitions, groupVars, jan>>

\* created_at is when the transaction began, so ids age in any order, and a row
\* may be past the ttl as soon as it commits.
Age(i) ==
    /\ row[i] = "in" /\ i \notin aged
    /\ aged' = aged \cup {i}
    /\ UNCHANGED <<lastId, row, partitions, headOf, groupVars, jan>>

-----------------------------------------------------------------------------
(* The group: CursorClaim and CursorGroup model it in full. *)

\* A claim passes an id only when its transaction has ended.
ClaimNext ==
    /\ claimedTo < lastId
    /\ row[claimedTo + 1] # "open"
    /\ claimedTo' = claimedTo + 1
    /\ held' = IF row[claimedTo'] = "in" THEN held \cup {claimedTo'} ELSE held
    /\ UNCHANGED <<rowVars, exception, committedTo, settledIds, jan>>

\* Every outcome but a ready exception row settles the message.
Settles(i, outcome) ==
    settledIds' = IF outcome = "ready" THEN settledIds ELSE settledIds \cup {i}

\* A range commit: the outcome rows carry the ids the claim read, whether or
\* not the log still has them.
RecordOutcome(i, outcome) ==
    /\ i \in held
    /\ held' = held \ {i}
    /\ exception' = [exception EXCEPT ![i] = outcome]
    /\ Settles(i, outcome)
    /\ UNCHANGED <<rowVars, claimedTo, committedTo, jan>>

\* The exception window runs a row only while the log has its message.
ResolveException(i, outcome) ==
    /\ exception[i] = "ready"
    /\ row[i] = "in"
    /\ i \notin jan.exceptions
    /\ exception' = [exception EXCEPT ![i] = outcome]
    /\ Settles(i, outcome)
    /\ UNCHANGED <<rowVars, held, claimedTo, committedTo, jan>>

AdvanceMark ==
    /\ committedTo' = Max({committedTo, Min({i - 1 : i \in held \cup Unresolved} \cup {claimedTo})})
    /\ committedTo' # committedTo
    /\ UNCHANGED <<rowVars, exception, held, claimedTo, settledIds, jan>>

-----------------------------------------------------------------------------
(* The janitor. *)

\* MIN(claimed) instead of MIN(committed).
cursorFloorOfClaims == IF AllowDropPastCommitted THEN NoFloor ELSE claimedTo

cursorFloor == IF AllowDropPastCommitted THEN NoFloor ELSE committedTo

ActivePartition == Max({0} \cup Visible) \div IdsPerPartition

partitionExpired(n) ==
    LET rows == InPartition(n) \cap Visible
    IN rows # {} /\ Max(rows) \in aged

\* dropExpiredPartitions, up to the transaction.
ChooseDrop(n) ==
    /\ jan.pc = "idle"
    /\ n \in partitions /\ n < ActivePartition
    /\ partitionExpired(n)
    /\ jan' = [jan EXCEPT !.pc = "chosen", !.part = n]
    /\ UNCHANGED <<rowVars, groupVars>>

\* The first id stands for the last one.
LastIdInPartitionByFirst(n) == n * IdsPerPartition

LastIdInPartition(n) == (n + 1) * IdsPerPartition - 1

\* The dead rows are taken for resolved.
ExceptionRowsReady(ids) == {i \in ids : exception[i] = "ready"}

ExceptionRows(ids) == {i \in ids : exception[i] # "none"}

\* The floor, and the exception rows the transaction sees; its deletes take
\* effect when it commits.
BeginDrop ==
    /\ jan.pc = "chosen"
    /\ jan' = IF LastIdInPartition(jan.part) > cursorFloor
              THEN IdleJanitor
              ELSE [jan EXCEPT !.pc = "drop_heads",
                               !.ids = InPartition(jan.part),
                               !.exceptions = ExceptionRows(InPartition(jan.part))]
    /\ UNCHANGED <<rowVars, groupVars>>

\* The compaction_head delete is left out.
OrphanedHeadsNone == {}

OrphanedHeads == {k \in CompactionKey : headOf[k] \in jan.ids}

DeleteHeads ==
    /\ jan.pc \in {"drop_heads", "sweep_heads"}
    /\ \A k \in OrphanedHeads : ~HeadLocked(k)
    /\ jan' = [jan EXCEPT !.pc = IF jan.pc = "drop_heads" THEN "drop" ELSE "sweep",
                          !.heads = OrphanedHeads]
    /\ UNCHANGED <<rowVars, groupVars>>

RemoveRows ==
    /\ row' = [i \in Id |-> IF i \in jan.ids /\ row[i] = "in" THEN "out" ELSE row[i]]
    /\ headOf' = [k \in CompactionKey |-> IF k \in jan.heads THEN NoHead ELSE headOf[k]]
    /\ exception' = [i \in Id |-> IF i \in jan.exceptions THEN "none" ELSE exception[i]]
    /\ jan' = IdleJanitor
    /\ UNCHANGED <<lastId, aged, held, claimedTo, committedTo, settledIds>>

\* DROP TABLE locks the parent table: no transaction that produced is open.
DropPartition ==
    /\ jan.pc = "drop"
    /\ Open = {}
    /\ partitions' = partitions \ {jan.part}
    /\ RemoveRows

\* lock_timeout, the pass's deadline or a crash: the transaction rolls back.
AbortJanitor ==
    /\ jan.pc # "idle"
    /\ jan' = IdleJanitor
    /\ UNCHANGED <<rowVars, groupVars>>

\* The lowest rows of a set, at most BatchSize of them.
Lowest(ids) == {i \in ids : Cardinality({j \in ids : j < i}) < BatchSize}

\* sweepBatch on partition n: its oldest row has expired; the rows it deletes
\* have too and are not above the floor.
BeginSweep(n) ==
    /\ jan.pc = "idle"
    /\ n \in partitions
    /\ LET rows == InPartition(n) \cap Visible
           swept == Lowest({i \in rows \cap aged : i <= cursorFloor})
       IN /\ rows # {} /\ Min(rows) \in aged
          /\ swept # {}
          /\ jan' = [jan EXCEPT !.pc = "sweep_heads", !.ids = swept,
                                !.exceptions = ExceptionRows(swept)]
    /\ UNCHANGED <<rowVars, groupVars>>

CommitSweep ==
    /\ jan.pc = "sweep"
    /\ RemoveRows
    /\ UNCHANGED partitions

\* SKIP LOCKED: a head row a transaction holds is left for a later pass.
SweepEmptyHead(k) ==
    /\ jan.pc = "idle"
    /\ headOf[k] = EmptyHead /\ ~HeadLocked(k)
    /\ headOf' = [headOf EXCEPT ![k] = NoHead]
    /\ UNCHANGED <<lastId, row, aged, partitions, groupVars, jan>>

\* One pass tries the stages in a fixed order and repeats for ever; a stage may
\* find nothing or time out, so from pass to pass any stage may follow any other.
JanitorPass ==
    \/ \E n \in partitions : ChooseDrop(n) \/ BeginSweep(n)
    \/ BeginDrop \/ DeleteHeads \/ DropPartition \/ AbortJanitor \/ CommitSweep
    \/ \E k \in CompactionKey : SweepEmptyHead(k)

RetentionNext ==
    \/ OpenInsert
    \/ \E i \in Id : CommitInsert(i) \/ RollBackInsert(i) \/ Age(i)
    \/ \E k \in CompactionKey : LockEmptyHead(k)
    \/ ClaimNext \/ AdvanceMark
    \/ \E i \in Id, o \in {"none", "ready", "dead"} : RecordOutcome(i, o)
    \/ \E i \in Id, o \in {"none", "dead"} : ResolveException(i, o)
    \/ JanitorPass

RetentionSpec == RetentionInit /\ [][RetentionNext]_retentionVars

-----------------------------------------------------------------------------
(* Properties. *)

\* Retention never takes a message from under the group: what the janitor removed
\* had succeeded or been given up, so neither a range lease nor a ready exception
\* row still owed it (cursorFloor, the lastIdInPartition test of dropPartition and
\* the id <= floor of sweepBatch, all judged before the transaction that removes
\* commits).  With AllowDropPastCommitted it may, on purpose.
RemovedIsResolved ==
    AllowDropPastCommitted \/ \A i \in Id : row[i] = "out" => i \in settledIds

\* No exception row outlives its message: one that did could be neither run
\* nor killed (both join the log), would hold the group's committed mark for
\* ever, and, dead, could never be seen by the janitor again.
NoOrphanException ==
    \A i \in Id : exception[i] # "none" => row[i] = "in"

\* A compaction head points at a message the log still has: the head a key's
\* newest message is compared with is never one that is gone.
NoDanglingHead ==
    \A k \in CompactionKey : headOf[k] > 0 => row[headOf[k]] = "in"

=============================================================================
