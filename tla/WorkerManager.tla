---------------------------- MODULE WorkerManager ----------------------------
(***************************************************************************)
(* Managers: pkg/worker/manager (runner, instance, pool, claim backoff),   *)
(* the declaration and listing of worker rows, and the two hosts that run  *)
(* a manager, SystemManager.Run and ConsumerInstance.Consume.              *)
(*                                                                         *)
(* A host claims its manager row, reconciles the worker rows on its chain  *)
(* into one goroutine per row, and drains them all before the life ends.   *)
(* What the end of a life means is up to the host: the runner claims again *)
(* after a lost claim, SystemManager after any end, Consume after none.    *)
(*                                                                         *)
(* A claim is one step here and its row is live or not there: the          *)
(* transactions of a claim, renewal and sweep are WorkerInstances'.  Left  *)
(* out: metadata, the pace of ticks, and a release that fails.             *)
(***************************************************************************)
EXTENDS Integers, FiniteSets

CONSTANTS
    Host,           \* processes that run a manager
    Wrapper,        \* [Host -> {"system", "consume"}]: who calls Runner.Run
    WorkerRow,      \* worker_config ids; a deleted id never comes back
    ManagerRow,     \* [Host -> WorkerRow]
    Chain,          \* [Host -> SUBSET WorkerRow]: what ListWorkers gives it
    Provisioners,   \* [Host -> SUBSET WorkerRow]: rows of the kinds it can run
    DeclaredTarget, \* [WorkerRow -> Int]: TargetInstances of the definition
    MaxRowChanges,  \* bound: rows declared, retargeted or deleted
    MaxExits        \* bound: lost claims and executions that end by themselves

ASSUME ManagerBounds ==
    /\ Wrapper \in [Host -> {"system", "consume"}]
    /\ ManagerRow \in [Host -> WorkerRow]
    /\ Chain \in [Host -> SUBSET WorkerRow] /\ Provisioners \in [Host -> SUBSET WorkerRow]
    /\ DeclaredTarget \in [WorkerRow -> Nat \cup {-1}]
    /\ MaxRowChanges \in Nat /\ MaxExits \in Nat

VARIABLES
    targetOf,   \* [WorkerRow -> target_instances], Undeclared or Deleted
    held,       \* [WorkerRow -> hosts with a live instance of it]
    hostAt,     \* [Host -> where its Run is]
    firstClaim, \* [Host -> Runner.Run has not claimed yet]
    cause,      \* [Host -> why its life is ending]
    pool,       \* [Host -> rows with an entry in pool.running]
    running,    \* [Host -> [WorkerRow -> goroutines not told to stop]]
    stopping,   \* [Host -> [WorkerRow -> goroutines whose context is done]]
    pending,    \* [Host -> changes of the pass under way]
    declined,   \* [Host -> rows in claim backoff]
    cancelled,  \* [Host -> its lifecycle context is cancelled]
    rowChanges, exits

rowVars == <<targetOf, held>>
poolVars == <<pool, running, stopping, pending, declined>>
lifeVars == <<hostAt, firstClaim, cause>>
managerVars == <<rowVars, poolVars, lifeVars, cancelled, rowChanges, exits>>

Undeclared == -3
Deleted == -2
AnyNumber == -1

NoGoroutines == [r \in WorkerRow |-> 0]

WorkerManagerInit ==
    /\ targetOf = [r \in WorkerRow |->
         IF \E h \in Host : ManagerRow[h] = r THEN DeclaredTarget[r] ELSE Undeclared]
    /\ held = [r \in WorkerRow |-> {}]
    /\ hostAt = [h \in Host |-> "claiming"]
    /\ firstClaim = [h \in Host |-> TRUE]
    /\ cause = [h \in Host |-> "none"]
    /\ pool = [h \in Host |-> {}]
    /\ running = [h \in Host |-> NoGoroutines]
    /\ stopping = [h \in Host |-> NoGoroutines]
    /\ pending = [h \in Host |-> {}]
    /\ declined = [h \in Host |-> {}]
    /\ cancelled = [h \in Host |-> FALSE]
    /\ rowChanges = 0 /\ exits = 0

-----------------------------------------------------------------------------
(* worker_config rows *)

\* The target a declaration leaves on the row: the definition's at creation only.
RedeclaredTarget(r) == IF targetOf[r] = Undeclared THEN DeclaredTarget[r] ELSE targetOf[r]

\* registerWorker: insert, or on conflict metadata alone.
DeclareWorker(r) ==
    /\ targetOf[r] # Deleted
    /\ RedeclaredTarget(r) # targetOf[r]
    /\ rowChanges < MaxRowChanges /\ rowChanges' = rowChanges + 1
    /\ targetOf' = [targetOf EXCEPT ![r] = RedeclaredTarget(r)]
    /\ UNCHANGED <<held, poolVars, lifeVars, cancelled, exits>>

\* updateTargetInstances: an operator suspends a worker or lifts the suspension.
UpdateTarget(r, t) ==
    /\ targetOf[r] \notin {Undeclared, Deleted, t}
    /\ rowChanges < MaxRowChanges /\ rowChanges' = rowChanges + 1
    /\ targetOf' = [targetOf EXCEPT ![r] = t]
    /\ UNCHANGED <<held, poolVars, lifeVars, cancelled, exits>>

\* The owner is deleted: its worker rows and their instances go with it.
DeleteOwner(r) ==
    /\ targetOf[r] \notin {Undeclared, Deleted}
    /\ rowChanges < MaxRowChanges /\ rowChanges' = rowChanges + 1
    /\ targetOf' = [targetOf EXCEPT ![r] = Deleted]
    /\ held' = [held EXCEPT ![r] = {}]
    /\ UNCHANGED <<poolVars, lifeVars, cancelled, exits>>

ListWorkers(h) == {r \in Chain[h] : targetOf[r] \notin {Undeclared, Deleted}}

\* registerInstance: below the row's target.
ClaimAdmits(r) == targetOf[r] = AnyNumber \/ Cardinality(held[r]) < targetOf[r]

\* A claim expires while its holder cannot renew it.
ExpireClaim(h, r) ==
    /\ h \in held[r]
    /\ exits < MaxExits /\ exits' = exits + 1
    /\ held' = [held EXCEPT ![r] = @ \ {h}]
    /\ UNCHANGED <<targetOf, poolVars, lifeVars, cancelled, rowChanges>>

-----------------------------------------------------------------------------
(* Runner.Run: claim a life, wait, claim again *)

\* GetWorker and Provision.  An error before the first claim returns.
ClaimManager(h) ==
    LET r == ManagerRow[h]
        gone == targetOf[r] \in {Undeclared, Deleted}
    IN  /\ hostAt[h] = "claiming"
        /\ hostAt' = [hostAt EXCEPT ![h] =
             IF gone THEN IF firstClaim[h] THEN "returned" ELSE "waiting"
             ELSE IF ClaimAdmits(r) THEN "running" ELSE "waiting"]
        /\ held' = IF ~gone /\ ClaimAdmits(r) THEN [held EXCEPT ![r] = @ \cup {h}] ELSE held
        /\ firstClaim' = [firstClaim EXCEPT ![h] = @ /\ (gone \/ ~ClaimAdmits(r))]
        /\ cause' = [cause EXCEPT ![h] = IF gone /\ firstClaim[h] THEN "fatal" ELSE "none"]
        /\ UNCHANGED <<targetOf, poolVars, cancelled, rowChanges, exits>>

\* RetryDelay of the runner, RunRetry of SystemManager.
RetryClaim(h) ==
    /\ hostAt[h] \in {"waiting", "restarting"}
    /\ hostAt' = [hostAt EXCEPT ![h] = IF cancelled[h] THEN "stopped" ELSE "claiming"]
    /\ firstClaim' = [firstClaim EXCEPT ![h] = @ \/ hostAt[h] = "restarting"]
    /\ UNCHANGED <<rowVars, poolVars, cause, cancelled, rowChanges, exits>>

\* The life ends: the claim is released, every execution's context is done.
EndLife(h, why) ==
    /\ hostAt' = [hostAt EXCEPT ![h] = "draining"]
    /\ cause' = [cause EXCEPT ![h] = why]
    /\ stopping' = [stopping EXCEPT ![h] = [r \in WorkerRow |-> @[r] + running[h][r]]]
    /\ running' = [running EXCEPT ![h] = NoGoroutines]
    /\ pool' = [pool EXCEPT ![h] = {}]
    /\ pending' = [pending EXCEPT ![h] = {}]
    /\ declined' = [declined EXCEPT ![h] = {}]

\* startRenewalHeartbeat: the row was suspended, or the claim is gone.
Heartbeat(h) ==
    LET r == ManagerRow[h]
    IN  /\ hostAt[h] = "running"
        /\ h \notin held[r] \/ targetOf[r] = 0
        /\ EndLife(h, IF h \notin held[r] THEN "lost" ELSE "suspended")
        /\ held' = [held EXCEPT ![r] = @ \ {h}]
        /\ UNCHANGED <<targetOf, firstClaim, cancelled, rowChanges, exits>>

\* The lifecycle context is cancelled.
Cancel(h) ==
    /\ ~cancelled[h] /\ hostAt[h] \notin {"stopped", "returned"}
    /\ cancelled' = [cancelled EXCEPT ![h] = TRUE]
    /\ IF hostAt[h] = "running"
       THEN /\ EndLife(h, "cancel")
            /\ held' = [held EXCEPT ![ManagerRow[h]] = @ \ {h}]
       ELSE /\ hostAt' = [hostAt EXCEPT ![h] = IF @ = "draining" THEN @ ELSE "stopped"]
            /\ UNCHANGED <<cause, poolVars, held>>
    /\ UNCHANGED <<targetOf, firstClaim, rowChanges, exits>>

\* Faulty variant: the life does not wait for its executions.
DrainedAtOnce(h) == TRUE

\* group.Wait returns when every goroutine the life spawned has.
Drained(h) == stopping[h] = NoGoroutines

\* What the caller of Runner.Run does with the end of the life.
AfterLife(h) ==
    CASE cause[h] = "fatal" /\ Wrapper[h] = "consume" -> "returned"
      [] cancelled[h] /\ ~(cause[h] = "fatal" /\ Wrapper[h] = "consume") -> "stopped"
      [] ~cancelled[h] /\ cause[h] = "lost" -> "waiting"
      [] ~cancelled[h] /\ cause[h] # "lost" /\ Wrapper[h] = "system" -> "restarting"
      [] ~cancelled[h] /\ cause[h] = "suspended" /\ Wrapper[h] = "consume" -> "unmanaged"

LeaveLife(h) ==
    /\ hostAt[h] = "draining" /\ Drained(h)
    /\ hostAt' = [hostAt EXCEPT ![h] = AfterLife(h)]
    /\ UNCHANGED <<rowVars, poolVars, firstClaim, cause, cancelled, rowChanges, exits>>

\* SystemManager.Run retries what Runner.Run returned before its first claim.
RestartSystem(h) ==
    /\ hostAt[h] = "returned" /\ Wrapper[h] = "system"
    /\ hostAt' = [hostAt EXCEPT ![h] = IF cancelled[h] THEN "stopped" ELSE "restarting"]
    /\ UNCHANGED <<rowVars, poolVars, firstClaim, cause, cancelled, rowChanges, exits>>

-----------------------------------------------------------------------------
(* ManagerInstance.refresh and the pool *)

Finished(h, r) == running[h][r] = 0

\* Faulty variant: a dead goroutine keeps its entry.
ExitedRowsNone(h) == {}

ExitedRows(h) == {r \in ListWorkers(h) : r \in pool[h] /\ Finished(h, r)}

\* diff: rows to start, to respawn and to stop.
Changes(h) ==
    {<<"added", r>> : r \in ListWorkers(h) \ (pool[h] \cup declined[h])}
        \cup {<<"exited", r>> : r \in ExitedRows(h)}
        \cup {<<"removed", r>> : r \in pool[h] \ ListWorkers(h)}

\* Rows a pass leaves alone: no provisioner of this host runs them.
Skipped(h) == {<<"added", r>> : r \in WorkerRow \ Provisioners[h]}

Refresh(h) ==
    /\ hostAt[h] = "running" /\ pending[h] = {}
    /\ pending' = [pending EXCEPT ![h] = Changes(h) \ Skipped(h)]
    /\ declined' = [declined EXCEPT ![h] = @ \cap ListWorkers(h)]
    /\ <<pending, declined>>' # <<pending, declined>>
    /\ UNCHANGED <<rowVars, pool, running, stopping, lifeVars, cancelled, rowChanges, exits>>

\* stop: cancel what runs and forget the entry; the goroutine drains by itself.
StopExecution(h, r) ==
    /\ stopping' = [stopping EXCEPT ![h][r] = @ + running[h][r]]
    /\ running' = [running EXCEPT ![h][r] = 0]
    /\ pool' = [pool EXCEPT ![h] = @ \ {r}]
    /\ UNCHANGED <<held, declined>>

\* start, after stop for a row that exited: Provision claims an instance;
\* declined backs off, an error is left to the next pass.
StartExecution(h, r) ==
    LET known == targetOf[r] \notin {Undeclared, Deleted}
        claims == known /\ ClaimAdmits(r)
    IN  /\ stopping' = [stopping EXCEPT ![h][r] = @ + running[h][r]]
        /\ running' = [running EXCEPT ![h][r] = IF claims THEN 1 ELSE 0]
        /\ pool' = [pool EXCEPT ![h] = IF claims THEN @ \cup {r} ELSE @ \ {r}]
        /\ held' = [held EXCEPT ![r] = IF claims THEN @ \cup {h} ELSE @]
        /\ declined' = [declined EXCEPT ![h] = IF known /\ ~claims THEN @ \cup {r} ELSE @ \ {r}]

\* reconcile: one change of the pass.
Reconcile(h) ==
    /\ hostAt[h] = "running"
    /\ \E c \in pending[h] :
         /\ pending' = [pending EXCEPT ![h] = @ \ {c}]
         /\ IF c[1] = "removed" THEN StopExecution(h, c[2]) ELSE StartExecution(h, c[2])
    /\ UNCHANGED <<targetOf, lifeVars, cancelled, rowChanges, exits>>

\* waiting turns false.
BackoffEnds(h) ==
    /\ \E r \in declined[h] : declined' = [declined EXCEPT ![h] = @ \ {r}]
    /\ UNCHANGED <<rowVars, pool, running, stopping, pending, lifeVars, cancelled, rowChanges, exits>>

-----------------------------------------------------------------------------
(* Executions *)

\* Its own heartbeat ends it: suspended returns nil, lost ErrInstanceLost.
ExecutionLosesClaim(h, r) ==
    /\ running[h][r] > 0
    /\ h \notin held[r] \/ targetOf[r] = 0
    /\ running' = [running EXCEPT ![h][r] = @ - 1]
    /\ held' = [held EXCEPT ![r] = @ \ {h}]
    /\ UNCHANGED <<targetOf, pool, stopping, pending, declined, lifeVars, cancelled, rowChanges, exits>>

\* Work complete, or work failed by itself: fatal for the manager.
ExecutionReturns(h, r, failed) ==
    /\ hostAt[h] = "running" /\ running[h][r] > 0
    /\ exits < MaxExits /\ exits' = exits + 1
    /\ IF failed
       THEN /\ EndLife(h, "fatal")
            /\ held' = [held EXCEPT ![ManagerRow[h]] = @ \ {h}]
       ELSE /\ running' = [running EXCEPT ![h][r] = @ - 1]
            /\ held' = [held EXCEPT ![r] = @ \ {h}]
            /\ UNCHANGED <<hostAt, cause, pool, stopping, pending, declined>>
    /\ UNCHANGED <<targetOf, firstClaim, cancelled, rowChanges>>

\* A cancelled execution drains and releases its claim.
ExecutionDrains(h, r) ==
    /\ stopping[h][r] > 0
    /\ stopping' = [stopping EXCEPT ![h][r] = @ - 1]
    /\ held' = [held EXCEPT ![r] = IF running[h][r] = 0 THEN @ \ {h} ELSE @]
    /\ UNCHANGED <<targetOf, pool, running, pending, declined, lifeVars, cancelled, rowChanges, exits>>

-----------------------------------------------------------------------------
HostStep(h) ==
    \/ ClaimManager(h) \/ RetryClaim(h) \/ Heartbeat(h) \/ LeaveLife(h) \/ RestartSystem(h)
    \/ Refresh(h) \/ Reconcile(h) \/ BackoffEnds(h)

ExecutionStep(h, r) == ExecutionLosesClaim(h, r) \/ ExecutionDrains(h, r)

WorkerManagerNext ==
    \/ \E r \in WorkerRow :
         DeclareWorker(r) \/ DeleteOwner(r) \/ \E t \in {0, DeclaredTarget[r]} : UpdateTarget(r, t)
    \/ \E h \in Host : HostStep(h) \/ Cancel(h)
    \/ \E h \in Host, r \in WorkerRow :
         ExecutionStep(h, r) \/ ExpireClaim(h, r) \/ \E failed \in BOOLEAN : ExecutionReturns(h, r, failed)

\* Timers fire, heartbeats beat, goroutines run and drain once their context is
\* done.  Nobody has to declare, suspend, cancel or fail.
WorkerManagerSpec ==
    /\ WorkerManagerInit /\ [][WorkerManagerNext]_managerVars
    /\ \A h \in Host :
         /\ WF_managerVars(ClaimManager(h)) /\ WF_managerVars(RetryClaim(h))
         /\ WF_managerVars(Heartbeat(h)) /\ WF_managerVars(LeaveLife(h)) /\ WF_managerVars(RestartSystem(h))
         /\ WF_managerVars(Refresh(h)) /\ WF_managerVars(Reconcile(h)) /\ WF_managerVars(BackoffEnds(h))
         /\ \A r \in WorkerRow : WF_managerVars(ExecutionStep(h, r))

-----------------------------------------------------------------------------
(* Properties *)

\* One goroutine per worker row and host, over all lives: a respawn never runs
\* beside what it replaces, and a life that ended leaves nothing running for the
\* next to double (pool.diff, ManagerInstance.Run's group.Wait).
OneExecutionPerRow ==
    \A h \in Host, r \in WorkerRow : running[h][r] + stopping[h][r] <= 1

\* The rows a system host keeps running.
Served(h) == {r \in Chain[h] \cap Provisioners[h] : DeclaredTarget[r] # 0}

\* A worker row that stays declared and wanted is run again and again, whatever
\* claims were lost, executions failed or managers suspended for a while, as
\* long as a system manager's row is admitted and it is not told to stop.
WantedRowsRun ==
    \A h \in {g \in Host : Wrapper[g] = "system"} : \A r \in Served(h) :
        <>[](targetOf[r] \notin {Undeclared, Deleted, 0}
             /\ targetOf[ManagerRow[h]] \notin {Undeclared, Deleted, 0} /\ ~cancelled[h])
            => []<>(held[r] # {})

\* "its chain goes unreconciled until target_instances is restored"
\* (worker/events.go:33): a host whose manager row is no longer suspended
\* reconciles its chain again, unless it was stopped or has failed.
ResumesWhenRestored ==
    \A h \in Host :
        <>[](targetOf[ManagerRow[h]] \notin {Undeclared, Deleted, 0})
            => []<>(hostAt[h] \in {"running", "stopped", "returned"})
=============================================================================
