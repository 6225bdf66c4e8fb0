--------------------------- MODULE SchemaVersions ---------------------------
(***************************************************************************)
(* Schema versions: pkg/migrate, the system's and the streams'             *)
(* registration and destruction as far as migration_log sees them          *)
(* (pkg/system, pkg/admin/system.go), and the gate every process passes    *)
(* before it touches a schema.                                             *)
(*                                                                         *)
(* Each owner (the system, a stream) has its rows of migration_log and the *)
(* steps its tables really went through.  A migration takes the session    *)
(* level advisory lock, reads each owner's version and walks it to its     *)
(* target one step at a time.  A step and its row commit together, unless  *)
(* the step declares NoTxn: its row is then a statement of its own.  The   *)
(* connection may die anywhere: the server rolls back and drops the lock.  *)
(*                                                                         *)
(* Left out: the steps' SQL (the registries are empty in this build), the  *)
(* lock_timeout of a step (it fails or is retried), the reserved streams.  *)
(***************************************************************************)
EXTENDS Integers, Sequences, FiniteSetsExt

CONSTANTS
    Migrator,               \* processes that migrate
    NoMigrator,
    BuildVersion,           \* [Migrator -> Nat]: what its registry defines
    MaxVersion,
    MinCompatible,          \* [2 .. MaxVersion -> Nat]: Migration.MinCompatibleVersion
    NoTxn,                  \* versions whose step runs outside a transaction
    Irreversible,           \* versions whose Down is nil
    MaxStreams,
    MaxMigrations           \* bound: migrations begun

VARIABLES
    migrationLog,  \* [Owner -> Seq of rows]
    applied,       \* [Owner -> set of versions]: what the tables went through
    halfway,       \* history: [Owner -> NoTxn versions whose last run has no row]
    knownStreams,  \* stream_config's id sequence
    schemaLock,    \* the advisory lock
    migration,     \* [Migrator -> the call it is in]
    begun,
    destroying     \* streams DestroySystem has still to delete, or NotDestroying

schemaVars == <<migrationLog, applied, halfway, knownStreams, schemaLock, migration, begun, destroying>>
schemaRows == <<migrationLog, applied, halfway, knownStreams>>

System == 0
StreamOwner == 1 .. MaxStreams
Owner == {System} \cup StreamOwner
NotDestroying == {System}

NoMigration == [pc |-> "idle", target |-> 0, todo |-> {}, all |-> FALSE, owner |-> System, version |-> 0]
Success(v, min) == [version |-> v, min |-> min, ok |-> TRUE]
Failure(v) == [version |-> v, min |-> 0, ok |-> FALSE]

\* Validate: versions are contiguous from 2, each MinCompatibleVersion between
\* 0 and its own.
ASSUME RegistryIsValid ==
    /\ \A v \in 2 .. MaxVersion : MinCompatible[v] \in 0 .. v
    /\ \A m \in Migrator : BuildVersion[m] \in 1 .. MaxVersion
    /\ MaxVersion \in Nat \ {0} /\ MaxStreams \in Nat /\ MaxMigrations \in Nat
    /\ NoMigrator \notin Migrator

SchemaVersionsInit ==
    /\ migrationLog = [o \in Owner |-> <<>>]
    /\ applied = [o \in Owner |-> {}]
    /\ halfway = [o \in Owner |-> {}]
    /\ knownStreams = 0
    /\ schemaLock = NoMigrator
    /\ migration = [m \in Migrator |-> NoMigration]
    /\ begun = 0
    /\ destroying = NotDestroying

Successes(o) == {i \in DOMAIN migrationLog[o] : migrationLog[o][i].ok}
Recorded(o) == Successes(o) # {}
LatestSuccess(o) == migrationLog[o][Max(Successes(o))]

\* The highest version of a success.
VersionHighest(o) == Max({migrationLog[o][i].version : i \in Successes(o)})

\* Version: the latest success, so that a downgrade reads back.
Version(o) == LatestSuccess(o).version

\* Only the latest success declares.
StrictestLatest(o) == LatestSuccess(o).min

\* The strictest declaration among the successes at or below the version.
Strictest(o) ==
    Max({migrationLog[o][i].min : i \in {j \in Successes(o) : migrationLog[o][j].version <= Version(o)}})

ClassifySchemaSupport(o, build) ==
    IF Version(o) < build THEN "older"
    ELSE IF Strictest(o) > build THEN "newer"
    ELSE "supported"

-----------------------------------------------------------------------------
(* Registration.  Both baselines are version 1. *)

\* register: CREATE TABLE IF NOT EXISTS, the singleton row, its baseline.
RegisterSystem ==
    /\ schemaLock = NoMigrator /\ ~Recorded(System)
    /\ migrationLog' = [migrationLog EXCEPT ![System] = <<Success(1, 0)>>]
    /\ applied' = [applied EXCEPT ![System] = @ \cup {1}]
    /\ UNCHANGED <<halfway, knownStreams, schemaLock, migration, begun, destroying>>

\* The stream's tables may be there already: IF NOT EXISTS adopts them.
CreateStreamTables ==
    LET s == knownStreams + 1
    IN /\ Recorded(System) /\ knownStreams < MaxStreams
       /\ knownStreams' = s
       /\ migrationLog' = [migrationLog EXCEPT ![s] = <<Success(1, 0)>>]
       /\ applied' = [applied EXCEPT ![s] = @ \cup {1}]
       /\ UNCHANGED <<halfway, schemaLock, migration, begun, destroying>>

-----------------------------------------------------------------------------
(* Migration. *)

\* MigrateSystem, MigrateStream, MigrateStreams: the target's bounds.
BeginMigration(m, o, all, target) ==
    /\ migration[m].pc = "idle" /\ begun < MaxMigrations
    /\ Recorded(o) /\ target \in 1 .. BuildVersion[m]
    /\ begun' = begun + 1
    /\ migration' = [migration EXCEPT ![m] = [NoMigration EXCEPT
                       !.pc = "locking", !.target = target, !.all = all,
                       !.todo = IF all THEN {} ELSE {o}]]
    /\ UNCHANGED <<schemaRows, schemaLock, destroying>>

\* AcquireLock; RunAll lists the streams under it.
AcquireLock(m) ==
    /\ migration[m].pc = "locking" /\ schemaLock = NoMigrator
    /\ schemaLock' = m
    /\ migration' = [migration EXCEPT ![m].pc = "walking",
                       ![m].todo = IF migration[m].all
                                   THEN {s \in StreamOwner : Recorded(s)} ELSE @]
    /\ UNCHANGED <<schemaRows, begun, destroying>>

\* The version of the step after the one that reached v.
NextStep(v, target) == IF v < target THEN v + 1 ELSE v - 1

\* migrateOwner's early returns: not registered, newer than the build, there.
ReadVersion(m) ==
    LET mg == migration[m]
        o == Min(mg.todo)
        walk == Recorded(o) /\ Version(o) <= BuildVersion[m] /\ Version(o) # mg.target
    IN /\ mg.pc = "walking" /\ mg.todo # {}
       /\ migration' = [migration EXCEPT ![m].owner = o, ![m].todo = @ \ {o},
                          ![m].pc = IF walk THEN "stepping" ELSE "walking",
                          ![m].version = IF walk THEN NextStep(Version(o), mg.target) ELSE 0]
       /\ UNCHANGED <<schemaRows, schemaLock, begun, destroying>>

\* The step to a version: up applies the version, down takes the next one away.
Up(o, v) == v > Version(o)
StepOf(o, v) == IF Up(o, v) THEN v ELSE v + 1
Apply(o, v) == applied' = [applied EXCEPT ![o] = IF Up(o, v) THEN @ \cup {v} ELSE @ \ {v + 1}]
RecordSuccess(o, v) ==
    migrationLog' = [migrationLog EXCEPT ![o] =
                       Append(@, Success(v, IF Up(o, v) THEN MinCompatible[v] ELSE 0))]

AfterStep(m) ==
    LET mg == migration[m]
    IN migration' = [migration EXCEPT ![m].pc = IF mg.version = mg.target THEN "walking" ELSE "stepping",
                                      ![m].version = IF @ = mg.target THEN 0 ELSE NextStep(@, mg.target)]

\* The lock belongs to the step's transaction.
LockAfterStepFree(m) == NoMigrator

\* The lock belongs to the session.
LockAfterStep(m) == m

\* toStep: a step down without a Down is refused.
Defined(m) ==
    LET mg == migration[m]
    IN Up(mg.owner, mg.version) \/ StepOf(mg.owner, mg.version) \notin Irreversible

\* Validate, apply and record in one transaction.
runStepWithTx(m) ==
    LET mg == migration[m]
    IN /\ mg.pc = "stepping" /\ Recorded(mg.owner) /\ Defined(m)
       /\ StepOf(mg.owner, mg.version) \notin NoTxn
       /\ Apply(mg.owner, mg.version) /\ RecordSuccess(mg.owner, mg.version)
       /\ AfterStep(m)
       /\ schemaLock' = LockAfterStep(m)
       /\ UNCHANGED <<halfway, knownStreams, begun, destroying>>

\* A NoTxn step, up or down, and its row.
runStepWithoutTx(m) ==
    LET mg == migration[m]
    IN /\ Recorded(mg.owner)
       /\ \/ /\ mg.pc = "stepping" /\ Defined(m)
             /\ StepOf(mg.owner, mg.version) \in NoTxn
             /\ Apply(mg.owner, mg.version)
             /\ halfway' = [halfway EXCEPT ![mg.owner] = @ \cup {StepOf(mg.owner, mg.version)}]
             /\ migration' = [migration EXCEPT ![m].pc = "recording"]
             /\ UNCHANGED migrationLog
          \/ /\ mg.pc = "recording"
             /\ RecordSuccess(mg.owner, mg.version)
             /\ halfway' = [halfway EXCEPT ![mg.owner] = @ \ {StepOf(mg.owner, mg.version)}]
             /\ AfterStep(m)
             /\ UNCHANGED applied
       /\ UNCHANGED <<knownStreams, schemaLock, begun, destroying>>

\* The step failed, or its owner is gone: TryRecordFailure, and the next owner.
FailStep(m) ==
    LET mg == migration[m]
    IN /\ mg.pc \in {"stepping", "recording"}
       /\ \/ /\ Recorded(mg.owner)
             /\ migrationLog' = [migrationLog EXCEPT ![mg.owner] = Append(@, Failure(mg.version))]
          \/ UNCHANGED migrationLog
       /\ migration' = [migration EXCEPT ![m].pc = "walking", ![m].version = 0]
       /\ UNCHANGED <<applied, halfway, knownStreams, schemaLock, begun, destroying>>

ReleaseLock(m) ==
    /\ migration[m].pc = "walking" /\ migration[m].todo = {}
    /\ schemaLock' = IF schemaLock = m THEN NoMigrator ELSE schemaLock
    /\ migration' = [migration EXCEPT ![m] = NoMigration]
    /\ UNCHANGED <<schemaRows, begun, destroying>>

\* The process or its connection is gone; a commit in flight landed or not,
\* which is the step before or no step.
LoseConnection(m) ==
    /\ migration[m].pc # "idle"
    /\ schemaLock' = IF schemaLock = m THEN NoMigrator ELSE schemaLock
    /\ migration' = [migration EXCEPT ![m] = NoMigration]
    /\ UNCHANGED <<schemaRows, begun, destroying>>

-----------------------------------------------------------------------------
(* Destruction. *)

\* A stream's tables and its rows go together.
DeleteStreamTables(s) ==
    /\ migrationLog' = [migrationLog EXCEPT ![s] = <<>>]
    /\ applied' = [applied EXCEPT ![s] = {}]
    /\ halfway' = [halfway EXCEPT ![s] = {}]
    /\ UNCHANGED <<knownStreams, schemaLock, migration, begun>>

\* DestroyStream; a step on the stream holds its tables.
DestroyOneStream(s) ==
    /\ Recorded(s)
    /\ DeleteStreamTables(s)
    /\ UNCHANGED destroying

\* assertSystemIdle, and the list of the streams to delete.
BeginDestroySystem(force) ==
    /\ destroying = NotDestroying /\ Recorded(System)
    /\ force \/ \A s \in StreamOwner : ~Recorded(s)
    /\ destroying' = {s \in StreamOwner : Recorded(s)}
    /\ UNCHANGED <<schemaRows, schemaLock, migration, begun>>

DeleteListedStream(s) ==
    /\ destroying # NotDestroying /\ s \in destroying
    /\ DeleteStreamTables(s)
    /\ destroying' = destroying \ {s}

\* DROP TABLE without CASCADE: a stream's tables reference consumer_group_config.
DroppableCascade == TRUE
Droppable == \A s \in StreamOwner : applied[s] = {}

\* The control tables go, their id sequences with them; or DestroySystem fails.
DropSystemTables ==
    /\ destroying = {} /\ schemaLock = NoMigrator
    /\ IF Droppable /\ Recorded(System)
       THEN /\ migrationLog' = [o \in Owner |-> <<>>]
            /\ applied' = [applied EXCEPT ![System] = {}]
            /\ halfway' = [halfway EXCEPT ![System] = {}]
            /\ knownStreams' = 0
       ELSE UNCHANGED schemaRows
    /\ destroying' = NotDestroying
    /\ UNCHANGED <<schemaLock, migration, begun>>

AbandonDestroySystem ==
    /\ destroying # NotDestroying
    /\ destroying' = NotDestroying
    /\ UNCHANGED <<schemaRows, schemaLock, migration, begun>>

Migrate(m) ==
    \/ \E o \in Owner, target \in 1 .. MaxVersion : BeginMigration(m, o, FALSE, target)
    \/ \E target \in 1 .. MaxVersion : BeginMigration(m, System, TRUE, target)
    \/ AcquireLock(m) \/ ReadVersion(m)
    \/ runStepWithTx(m) \/ runStepWithoutTx(m) \/ FailStep(m)
    \/ ReleaseLock(m) \/ LoseConnection(m)

DestroySystem ==
    \/ \E force \in BOOLEAN : BeginDestroySystem(force)
    \/ \E s \in StreamOwner : DeleteListedStream(s)
    \/ DropSystemTables \/ AbandonDestroySystem

SchemaVersionsNext ==
    \/ RegisterSystem \/ CreateStreamTables
    \/ \E m \in Migrator : Migrate(m)
    \/ \E s \in StreamOwner : DestroyOneStream(s)
    \/ DestroySystem

SchemaVersionsSpec == SchemaVersionsInit /\ [][SchemaVersionsNext]_schemaVars

-----------------------------------------------------------------------------
(* Properties. *)

\* What migration_log says an owner's version is, its tables went through, no
\* step skipped or taken twice, whatever migrations raced, failed or lost
\* their connection, and whatever a destroyed system left behind.  The steps
\* outside a transaction are the exception the code makes: one whose last run
\* ended before its row was written (migration.go: it carries its own
\* partial-state check) may stand on either side of the record until it is run
\* again, the walks over other steps in between included.
RecordedIsApplied ==
    \A o \in Owner :
        IF Recorded(o)
        THEN applied[o] \ halfway[o] = (1 .. Version(o)) \ halfway[o]
        ELSE applied[o] = {} /\ halfway[o] = {}

\* The gate admits a build only to a schema that has every step the build
\* knows, and no step, rolled back ones aside, that declares the build too
\* old (ClassifySchemaSupport over the strictest declaration); of a step left
\* halfway outside a transaction the gate knows nothing.
AdmittedIsServed ==
    \A o \in Owner, build \in 1 .. MaxVersion :
        Recorded(o) /\ ClassifySchemaSupport(o, build) = "supported"
        => /\ 1 .. build \subseteq applied[o] \cup halfway[o]
           /\ \A v \in applied[o] \ ({1} \cup halfway[o]) : MinCompatible[v] <= build
=============================================================================
