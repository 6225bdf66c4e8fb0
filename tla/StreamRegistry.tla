---------------------------- MODULE StreamRegistry ---------------------------
(***************************************************************************)
(* The streams of a system: registration by several processes, the         *)
(* replacement of a stored config by a newer declaration, renames, and a    *)
(* destruction that drains the log's partitions in batches while producers *)
(* still write (pkg/stream/controller, pkg/admin/stream.go).               *)
(*                                                                         *)
(* A name is looked up, locked and looked up again; what was found is      *)
(* updated by id in a transaction of its own, so the row may have been     *)
(* renamed or deleted since.                                               *)
(***************************************************************************)
EXTENDS Integers, Sequences, FiniteSets, SequencesExt

CONSTANTS
    Name, NoName,
    Registrant,       \* processes that call RegisterStream once each
    NameOf, ConfigOf, \* the name and the config [size, ttl] each declares
    NoRegistrant,
    MaxStreamId,      \* bound: stream rows ever inserted
    MaxPartition,     \* bound: partitions a log ever has
    DropBatch,        \* dropPartitionBatchSize
    MaxSnapshots      \* bound: config snapshots a rename adds to

ASSUME StreamRegistryBounds ==
    /\ MaxStreamId \in Nat \ {0} /\ MaxPartition \in Nat \ {0} /\ DropBatch \in Nat \ {0}
    /\ MaxSnapshots \in Nat
    /\ NoName \notin Name /\ NoRegistrant \notin Registrant
    /\ NameOf \in [Registrant -> Name] /\ ConfigOf \in [Registrant -> [size : Nat, ttl : Nat]]

StreamId == 1 .. MaxStreamId
NoStream == 0
NoConfig == [size |-> 0, ttl |-> 0]

VARIABLES
    streamIds,   \* ids drawn
    nameOf,      \* stream_config: the name of each row, NoName without a row
    config,      \* stream_config: the declared values
    configLog,   \* stream_config_log of each stream
    tables,      \* streams whose tables exist
    parts,       \* partitions of each message log
    messages,    \* whether the log holds a row
    workers,     \* streams whose janitor and vacuum rows are declared
    nameLock,    \* holders of the per-name advisory locks
    reg,         \* each RegisterStream call
    drop         \* the DestroyStream call

streamRegistryVars ==
    <<streamIds, nameOf, config, configLog, tables, parts, messages, workers,
      nameLock, reg, drop>>
streamRows == <<streamIds, nameOf, config, configLog>>
streamTables == <<tables, parts, messages>>

NotCalled == [pc |-> "start", id |-> NoStream, found |-> NoConfig]
Returned == [NotCalled EXCEPT !.pc = "returned"]
NoDrop == [pc |-> "idle", id |-> NoStream, forced |-> FALSE, passes |-> 0,
           batch |-> {}]

StreamRegistryInit ==
    /\ streamIds = 0
    /\ nameOf = [s \in StreamId |-> NoName]
    /\ config = [s \in StreamId |-> NoConfig]
    /\ configLog = [s \in StreamId |-> <<>>]
    /\ tables = {}
    /\ parts = [s \in StreamId |-> {}]
    /\ messages = [s \in StreamId |-> FALSE]
    /\ workers = {}
    /\ nameLock = [n \in Name |-> NoRegistrant]
    /\ reg = [r \in Registrant |-> NotCalled]
    /\ drop = NoDrop

Registered == {s \in StreamId : nameOf[s] # NoName}

\* Get: the id under a name, or NoStream.
Get(n) == IF \E s \in StreamId : nameOf[s] = n
          THEN CHOOSE s \in StreamId : nameOf[s] = n
          ELSE NoStream

Snapshot(s) == [name |-> nameOf[s], config |-> config[s]]

-----------------------------------------------------------------------------
(* register.  A call returns its result or an error. *)

Found(r, s) == [reg EXCEPT ![r].pc = "found", ![r].id = s, ![r].found = config[s]]

\* The lookup outside any transaction.
FindStream(r) ==
    /\ reg[r].pc = "start"
    /\ LET s == Get(NameOf[r])
       IN reg' = IF s = NoStream THEN [reg EXCEPT ![r].pc = "locking"] ELSE Found(r, s)
    /\ UNCHANGED <<streamRows, streamTables, workers, nameLock, drop>>

\* The advisory lock, and the second lookup under it.
LockName(r) ==
    /\ reg[r].pc = "locking"
    /\ nameLock[NameOf[r]] = NoRegistrant
    /\ nameLock' = [nameLock EXCEPT ![NameOf[r]] = r]
    /\ LET s == Get(NameOf[r])
       IN reg' = IF s = NoStream THEN [reg EXCEPT ![r].pc = "creating"] ELSE Found(r, s)
    /\ UNCHANGED <<streamRows, streamTables, workers, drop>>

UnlockName(r) ==
    nameLock' = [nameLock EXCEPT ![NameOf[r]] =
                   IF @ = r THEN NoRegistrant ELSE @]

\* Row, snapshot, tables with their first partition and migration baseline.
\* A rename that took the name in the meantime fails the insert.
CreateStream(r) ==
    /\ reg[r].pc = "creating"
    /\ UnlockName(r)
    /\ IF Get(NameOf[r]) # NoStream
       THEN /\ reg' = [reg EXCEPT ![r] = Returned]
            /\ UNCHANGED <<streamRows, streamTables>>
       ELSE /\ streamIds < MaxStreamId
            /\ LET s == streamIds + 1
               IN /\ streamIds' = s
                  /\ nameOf' = [nameOf EXCEPT ![s] = NameOf[r]]
                  /\ config' = [config EXCEPT ![s] = ConfigOf[r]]
                  /\ configLog' = [configLog EXCEPT ![s] =
                                     <<[name |-> NameOf[r], config |-> ConfigOf[r]]>>]
                  /\ tables' = tables \cup {s}
                  /\ parts' = [parts EXCEPT ![s] = {0}]
                  /\ reg' = [reg EXCEPT ![r].pc = "declaring", ![r].id = s]
            /\ UNCHANGED messages
    /\ UNCHANGED <<workers, drop>>

\* The snapshot is made of what the lookup found.
SnapshotOfFound(r, updated) == [name |-> NameOf[r], config |-> updated]

\* The snapshot is the row the update returned.
SnapshotOfRow(r, updated) == [name |-> nameOf[reg[r].id], config |-> updated]

\* replaceConfig, with its early returns.
ReplaceConfig(r) ==
    LET s == reg[r].id
    IN /\ reg[r].pc = "found"
       /\ UnlockName(r)
       /\ \/ /\ reg[r].found.size # ConfigOf[r].size \/ reg[r].found = ConfigOf[r]
             /\ reg' = IF reg[r].found = ConfigOf[r]
                       THEN [reg EXCEPT ![r].pc = "declaring", ![r].found = NoConfig]
                       ELSE [reg EXCEPT ![r] = Returned]
             /\ UNCHANGED <<config, configLog>>
          \/ /\ reg[r].found.size = ConfigOf[r].size /\ reg[r].found # ConfigOf[r]
             /\ IF s \notin Registered
                THEN /\ reg' = [reg EXCEPT ![r] = Returned]
                     /\ UNCHANGED <<config, configLog>>
                ELSE LET updated == [config[s] EXCEPT !.ttl = ConfigOf[r].ttl]
                     IN /\ config' = [config EXCEPT ![s] = updated]
                        /\ configLog' = [configLog EXCEPT ![s] =
                                           Append(@, SnapshotOfRow(r, updated))]
                        /\ reg' = [reg EXCEPT ![r].pc = "declaring", ![r].found = NoConfig]
       /\ UNCHANGED <<streamIds, nameOf, streamTables, workers, drop>>

\* The worker rows reference the stream's row.
DeclareWorkers(r) ==
    /\ reg[r].pc = "declaring"
    /\ IF reg[r].id \in Registered
       THEN workers' = workers \cup {reg[r].id}
       ELSE UNCHANGED workers
    /\ reg' = [reg EXCEPT ![r] = Returned]
    /\ UNCHANGED <<streamRows, streamTables, nameLock, drop>>

\* A crash or a lost connection, anywhere in the call.
AbandonRegister(r) ==
    /\ reg[r].pc \in {"locking", "creating", "found", "declaring"}
    /\ UnlockName(r)
    /\ reg' = [reg EXCEPT ![r] = Returned]
    /\ UNCHANGED <<streamRows, streamTables, workers, drop>>

-----------------------------------------------------------------------------
(* Rename, and producers. *)

Rename(from, to) ==
    LET s == Get(from)
    IN /\ from # to /\ s # NoStream
       /\ Get(to) = NoStream
       /\ nameOf' = [nameOf EXCEPT ![s] = to]
       /\ Len(configLog[s]) < MaxSnapshots
       /\ configLog' = [configLog EXCEPT ![s] = Append(@, [name |-> to, config |-> config[s]])]
       /\ UNCHANGED <<streamIds, config, streamTables, workers, nameLock, reg, drop>>

\* A batch that lands in an existing partition.
ProduceTo(s) ==
    /\ s \in tables /\ parts[s] # {} /\ ~messages[s]
    /\ messages' = [messages EXCEPT ![s] = TRUE]
    /\ UNCHANGED <<streamRows, tables, parts, workers, nameLock, reg, drop>>

\* The create-ahead or the heal of an insert no partition covers.
CreatePartition(s, n) ==
    /\ s \in tables /\ n \notin parts[s]
    /\ parts' = [parts EXCEPT ![s] = @ \cup {n}]
    /\ UNCHANGED <<streamRows, tables, messages, workers, nameLock, reg, drop>>

-----------------------------------------------------------------------------
(* DestroyStream. *)

FindDestroyed(n, force) ==
    /\ drop.pc = "idle" /\ Get(n) # NoStream
    /\ drop' = [drop EXCEPT !.pc = IF force THEN "counting" ELSE "asserting",
                            !.id = Get(n), !.forced = force]
    /\ UNCHANGED <<streamRows, streamTables, workers, nameLock, reg>>

assertStreamIdle ==
    /\ drop.pc = "asserting"
    /\ drop' = IF messages[drop.id] THEN NoDrop ELSE [drop EXCEPT !.pc = "counting"]
    /\ UNCHANGED <<streamRows, streamTables, workers, nameLock, reg>>

PassLimit(count) == count \div DropBatch + 3

CountPartitions ==
    /\ drop.pc = "counting"
    /\ LET count == Cardinality(parts[drop.id])
       IN drop' = IF count = 0
                  THEN [drop EXCEPT !.pc = "deleting"]
                  ELSE [drop EXCEPT !.pc = "listing", !.passes = PassLimit(count)]
    /\ UNCHANGED <<streamRows, streamTables, workers, nameLock, reg>>

\* One pass: list at most DropBatch partitions, in any order.
ListPartitions(batch) ==
    /\ drop.pc = "listing" /\ drop.passes > 0
    /\ batch \subseteq parts[drop.id]
    /\ Cardinality(batch) = (IF Cardinality(parts[drop.id]) < DropBatch
                             THEN Cardinality(parts[drop.id]) ELSE DropBatch)
    /\ drop' = IF batch = {} THEN [drop EXCEPT !.pc = "deleting"]
               ELSE [drop EXCEPT !.pc = "dropping", !.batch = batch]
    /\ UNCHANGED <<streamRows, streamTables, workers, nameLock, reg>>

\* DROP TABLE IF EXISTS of each; the rows of a dropped partition go with it.
DropBatchOfPartitions ==
    /\ drop.pc = "dropping"
    /\ parts' = [parts EXCEPT ![drop.id] = @ \ drop.batch]
    /\ messages' = [messages EXCEPT ![drop.id] = @ /\ parts'[drop.id] # {}]
    /\ drop' = [drop EXCEPT !.pc = "listing", !.passes = @ - 1, !.batch = {}]
    /\ UNCHANGED <<streamRows, tables, workers, nameLock, reg>>

\* Producers kept creating partitions: ErrStreamPartitionsRemain.
GiveUpDrain ==
    /\ drop.pc = "listing" /\ drop.passes = 0
    /\ drop' = NoDrop
    /\ UNCHANGED <<streamRows, streamTables, workers, nameLock, reg>>

\* The tables stay: the row goes in a transaction of its own.
DroppedTablesNone(s) == {}

\* Every table of the stream in the transaction that deletes its row; the
\* partitions that came back go with their parent.
DroppedTables(s) == {s}

\* The rows that reference the stream's row cascade.
DeleteStream ==
    LET s == drop.id
    IN /\ drop.pc = "deleting"
       /\ nameOf' = [nameOf EXCEPT ![s] = NoName]
       /\ config' = [config EXCEPT ![s] = NoConfig]
       /\ configLog' = [configLog EXCEPT ![s] = <<>>]
       /\ workers' = workers \ {s}
       /\ tables' = tables \ DroppedTables(s)
       /\ parts' = [parts EXCEPT ![s] = IF s \in tables' THEN @ ELSE {}]
       /\ messages' = [messages EXCEPT ![s] = s \in tables' /\ @]
       /\ drop' = NoDrop
       /\ UNCHANGED <<streamIds, nameLock, reg>>

\* A crash between two of its transactions; DestroyStream may be called again.
AbandonDestroy ==
    /\ drop.pc # "idle"
    /\ drop' = NoDrop
    /\ UNCHANGED <<streamRows, streamTables, workers, nameLock, reg>>

RegisterStream(r) ==
    \/ FindStream(r) \/ LockName(r) \/ CreateStream(r) \/ ReplaceConfig(r)
    \/ DeclareWorkers(r) \/ AbandonRegister(r)

drainPartitions ==
    \/ CountPartitions \/ DropBatchOfPartitions \/ GiveUpDrain
    \/ \E batch \in SUBSET (0 .. MaxPartition - 1) : ListPartitions(batch)

DestroyStream ==
    \/ \E n \in Name, force \in BOOLEAN : FindDestroyed(n, force)
    \/ assertStreamIdle \/ drainPartitions \/ DeleteStream \/ AbandonDestroy

StreamRegistryNext ==
    \/ \E r \in Registrant : RegisterStream(r)
    \/ \E from, to \in Name : Rename(from, to)
    \/ \E s \in StreamId : ProduceTo(s)
    \/ \E s \in StreamId, n \in 0 .. MaxPartition - 1 : CreatePartition(s, n)
    \/ DestroyStream

StreamRegistrySpec == StreamRegistryInit /\ [][StreamRegistryNext]_streamRegistryVars

-----------------------------------------------------------------------------
(* Properties. *)

\* The newest snapshot of stream_config_log is the stream's row, name
\* included, whatever registrations and renames have raced: the log answers
\* what a stream was configured as, so it may never lag or lead the row.
LogEndsInConfig ==
    \A s \in Registered : configLog[s] # <<>> /\ Last(configLog[s]) = Snapshot(s)

\* A stream that has a row has its tables, and one that has none has left
\* nothing behind: no table, no partition a producer created while the drain
\* ran, no worker row a registration declared too late.
RowsAndTablesAgree ==
    \A s \in StreamId :
        /\ s \in Registered <=> s \in tables
        /\ s \notin Registered => parts[s] = {} /\ s \notin workers

\* An unforced destroy discards no message (assertStreamIdle's comment).
IdleDestroyKeepsMessages ==
    [][drop.id # NoStream /\ ~drop.forced /\ messages[drop.id] => messages'[drop.id]]_streamRegistryVars
=============================================================================
