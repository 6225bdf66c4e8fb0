---------------------------- MODULE WorkersProofs ----------------------------
(***************************************************************************)
(* Proofs about the worker protocol: the live rows of one worker           *)
(* (WorkerInstances) for any processes, rows and targets, and the          *)
(* processes' managers (WorkerManager) for any hosts, chains and targets.  *)
(*                                                                         *)
(* A claim that waits for the row lock leaves out of its count only rows   *)
(* that are still expired (BegunInv), because a renewal that was granted   *)
(* takes a row out of every count that is under way.  A renewal revives an *)
(* expired row only when the expiry came between its begin and its UPDATE  *)
(* (RenewInv), which late counts.                                          *)
(*                                                                         *)
(* A goroutine that runs has an entry in its life's pool (PoolInv), so a   *)
(* pass never adds a row that runs (PendingInv).  A goroutine that was     *)
(* told to stop inside a life had its row deleted, and a deleted row is    *)
(* never started again; every other one belongs to a life that ends, and   *)
(* the next one waits for it (LifeInv).                                    *)
(***************************************************************************)
EXTENDS WorkerInstances, WorkerManager, FiniteSetTheorems, TLAPS

(* The rows of one worker. *)
BegunInv == \A p \in Proc : begun[p] \subseteq Expired

RenewInv ==
    late = 0 => \A p \in Proc : phase[p] = "renewing" /\ row[inst[p]] = "expired"
                                  => inst[p] \in begun[p]

InstanceInv == TypeOK /\ BegunInv /\ RenewInv

-----------------------------------------------------------------------------
\* Nothing runs and nothing is counted in the beginning.
LEMMA InstanceStart == Init => InstanceInv
  BY WorkerBounds DEF Init, InstanceInv, TypeOK, BegunInv, RenewInv, Phase

\* What every step leaves to be shown: the typed parts one by one.
LEMMA TypeParts ==
  ASSUME target' \in AnyTarget,
         row' \in [Instance -> {"none", "live", "expired"}],
         phase' \in [Proc -> Phase],
         inst' \in [Proc -> Instance \cup {NoInstance}],
         begun' \in [Proc -> SUBSET Instance],
         BegunInv',
         \A p \in Proc : inst'[p] # NoInstance <=> phase'[p] \in {"working", "renewing", "draining"},
         faults' \in 0 .. MaxFaults, changes' \in 0 .. MaxChanges, late' \in 0 .. MaxLateRenewals
  PROVE  TypeOK'
  <1>1. \A p \in Proc : begun'[p] \subseteq {i \in Instance : row'[i] # "none"}
    BY DEF BegunInv, Expired
  <1>. QED BY <1>1 DEF TypeOK

\* Every step preserves the invariant.
LEMMA InstanceStep == InstanceInv /\ [Next]_vars => InstanceInv'
  <1> SUFFICES ASSUME InstanceInv, [Next]_vars PROVE InstanceInv'
    OBVIOUS
  <1> USE WorkerBounds
  <1>t. /\ target \in AnyTarget
        /\ row \in [Instance -> {"none", "live", "expired"}]
        /\ phase \in [Proc -> Phase]
        /\ inst \in [Proc -> Instance \cup {NoInstance}]
        /\ begun \in [Proc -> SUBSET Instance]
        /\ \A p \in Proc : inst[p] # NoInstance <=> phase[p] \in {"working", "renewing", "draining"}
        /\ faults \in 0 .. MaxFaults /\ changes \in 0 .. MaxChanges
        /\ late \in 0 .. MaxLateRenewals
    BY DEF InstanceInv, TypeOK
  <1>b. BegunInv /\ RenewInv
    BY DEF InstanceInv
  <1>f. Fault => faults' \in 0 .. MaxFaults /\ UNCHANGED <<changes, late>>
    BY <1>t DEF Fault
  <1>v. Expired \in SUBSET Instance
    BY DEF Expired
  <1>1. ASSUME NEW p \in Proc, ClaimStep(p) PROVE InstanceInv'
    <2>1. CASE DeclineUnlocked(p)
      BY <1>t, <1>b, <2>1, TypeParts
      DEF DeclineUnlocked, vars, boundVars, InstanceInv, BegunInv, RenewInv, Expired
    <2>2. CASE CheckRoom(p)
      <3>1. UNCHANGED <<target, row, inst, begun, faults, changes, late>>
            /\ phase' = [phase EXCEPT ![p] = "checked"] /\ phase[p] = "idle"
        BY <2>2 DEF CheckRoom, boundVars
      <3>2. BegunInv' /\ RenewInv'
        BY <1>t, <1>b, <3>1 DEF BegunInv, RenewInv, Expired
      <3>. QED BY <1>t, <3>1, <3>2, TypeParts DEF InstanceInv, Phase
    <2>3. CASE BeginClaim(p)
      <3>1. UNCHANGED <<target, row, inst, faults, changes, late>>
            /\ phase' = [phase EXCEPT ![p] = "claiming"] /\ phase[p] = "checked"
            /\ begun' = [begun EXCEPT ![p] = Expired]
        BY <2>3 DEF BeginClaim, boundVars
      <3>2. BegunInv' /\ RenewInv'
        BY <1>t, <1>b, <3>1 DEF BegunInv, RenewInv, Expired
      <3>. QED BY <1>t, <1>v, <3>1, <3>2, TypeParts DEF InstanceInv, Phase
    <2>4. ASSUME NEW i \in Instance, InsertInstance(p, i) PROVE InstanceInv'
      <3>1. /\ row[i] = "none" /\ phase[p] = "claiming" /\ target' = target
            /\ row' = [row EXCEPT ![i] = "live"]
            /\ begun' = [begun EXCEPT ![p] = {}]
            /\ \/ /\ phase' = [phase EXCEPT ![p] = "working"]
                  /\ inst' = [inst EXCEPT ![p] = i]
               \/ /\ phase' = [phase EXCEPT ![p] = "idle"]
                  /\ inst' = inst
            /\ faults' \in 0 .. MaxFaults /\ UNCHANGED <<changes, late>>
            /\ \A q \in Proc : inst[q] # i
        BY <1>t, <1>f, <2>4 DEF InsertInstance, Unused, boundVars
      <3>2. BegunInv' /\ RenewInv'
        BY <1>t, <1>b, <3>1 DEF BegunInv, RenewInv, Expired
      <3>. QED BY <1>t, <3>1, <3>2, TypeParts DEF InstanceInv, Phase
    <2>5. CASE DeclineClaim(p)
      <3>1. UNCHANGED <<target, row, inst, faults, changes, late>>
            /\ phase' = [phase EXCEPT ![p] = "idle"] /\ phase[p] = "claiming"
            /\ begun' = [begun EXCEPT ![p] = {}]
        BY <2>5 DEF DeclineClaim, boundVars
      <3>2. BegunInv' /\ RenewInv'
        BY <1>t, <1>b, <3>1 DEF BegunInv, RenewInv, Expired
      <3>. QED BY <1>t, <3>1, <3>2, TypeParts DEF InstanceInv, Phase
    <2>. QED BY <1>1, <2>1, <2>2, <2>3, <2>4, <2>5 DEF ClaimStep
  <1>2. ASSUME NEW p \in Proc, RenewStep(p) \/ FailRenew(p) PROVE InstanceInv'
    <2>1. CASE BeginRenew(p)
      <3>1. UNCHANGED <<target, row, inst, faults, changes, late>>
            /\ phase' = [phase EXCEPT ![p] = "renewing"] /\ phase[p] = "working"
            /\ begun' = [begun EXCEPT ![p] = Expired]
        BY <2>1 DEF BeginRenew, boundVars
      <3>2. BegunInv' /\ RenewInv'
        BY <1>t, <1>b, <3>1 DEF BegunInv, RenewInv, Expired
      <3>. QED BY <1>t, <1>v, <3>1, <3>2, TypeParts DEF InstanceInv, Phase
    <2>2. CASE ApplyRenew(p)
      <3>1. /\ phase[p] = "renewing" /\ row[inst[p]] # "none" /\ inst[p] \in Instance
            /\ row' = [row EXCEPT ![inst[p]] = "live"]
            /\ phase' = [phase EXCEPT ![p] = "working"]
            /\ begun' = [q \in Proc |-> IF q = p THEN {} ELSE begun[q] \ {inst[p]}]
            /\ UNCHANGED <<target, inst, faults, changes, late>>
        BY <1>t, <2>2 DEF ApplyRenew, Renewable, boundVars
      <3>2. BegunInv' /\ RenewInv'
        BY <1>t, <1>b, <3>1 DEF BegunInv, RenewInv, Expired
      <3>. QED BY <1>t, <3>1, <3>2, TypeParts DEF InstanceInv, Phase
    <2>3. CASE LoseInstance(p) \/ FailRenew(p)
      <3>1. /\ phase[p] = "renewing" /\ UNCHANGED <<target, row, inst, changes, late>>
            /\ \/ phase' = [phase EXCEPT ![p] = "draining"]
               \/ phase' = [phase EXCEPT ![p] = "working"]
            /\ begun' = [begun EXCEPT ![p] = {}]
            /\ faults' \in 0 .. MaxFaults
        BY <1>t, <1>f, <2>3 DEF LoseInstance, FailRenew, Drain, boundVars
      <3>2. BegunInv' /\ RenewInv'
        BY <1>t, <1>b, <3>1 DEF BegunInv, RenewInv, Expired
      <3>. QED BY <1>t, <3>1, <3>2, TypeParts DEF InstanceInv, Phase
    <2>4. CASE StopAtRenewal(p)
      <3>1. /\ phase[p] = "working" /\ phase' = [phase EXCEPT ![p] = "draining"]
            /\ UNCHANGED <<target, row, inst, begun, faults, changes, late>>
        BY <2>4 DEF StopAtRenewal, Drain, boundVars
      <3>2. BegunInv' /\ RenewInv'
        BY <1>t, <1>b, <3>1 DEF BegunInv, RenewInv, Expired
      <3>. QED BY <1>t, <3>1, <3>2, TypeParts DEF InstanceInv, Phase
    <2>5. CASE ReleaseInstance(p)
      <3>1. /\ phase[p] = "draining" /\ inst[p] \in Instance /\ target' = target
            /\ phase' = [phase EXCEPT ![p] = "idle"]
            /\ inst' = [inst EXCEPT ![p] = NoInstance]
            /\ \/ /\ row' = [row EXCEPT ![inst[p]] = "none"]
                  /\ begun' = [q \in Proc |-> begun[q] \ {inst[p]}]
               \/ row' = row /\ begun' = begun
            /\ faults' \in 0 .. MaxFaults /\ UNCHANGED <<changes, late>>
        BY <1>t, <1>f, <2>5 DEF ReleaseInstance, Released, boundVars
      <3>2. BegunInv' /\ RenewInv'
        BY <1>t, <1>b, <3>1 DEF BegunInv, RenewInv, Expired
      <3>. QED BY <1>t, <3>1, <3>2, TypeParts DEF InstanceInv, Phase
    <2>. QED BY <1>2, <2>1, <2>2, <2>3, <2>4, <2>5 DEF RenewStep
  <1>3. ASSUME NEW p \in Proc, EndWork(p) \/ RecordInLostInstance(p) PROVE InstanceInv'
    <2>1. /\ phase[p] = "working" /\ phase' = [phase EXCEPT ![p] = "draining"]
          /\ UNCHANGED <<target, row, inst, begun, faults, changes, late>>
      BY <1>3 DEF EndWork, RecordInLostInstance, Drain, boundVars
    <2>2. BegunInv' /\ RenewInv'
      BY <1>t, <1>b, <2>1 DEF BegunInv, RenewInv, Expired
    <2>. QED BY <1>t, <2>1, <2>2, TypeParts DEF InstanceInv, Phase
  <1>4. ASSUME NEW p \in Proc, Crash(p) PROVE InstanceInv'
    <2>1. /\ phase' = [phase EXCEPT ![p] = "idle"]
          /\ inst' = [inst EXCEPT ![p] = NoInstance]
          /\ begun' = [begun EXCEPT ![p] = {}]
          /\ faults' \in 0 .. MaxFaults /\ UNCHANGED <<target, row, changes, late>>
      BY <1>f, <1>4 DEF Crash
    <2>2. BegunInv' /\ RenewInv'
      BY <1>t, <1>b, <2>1 DEF BegunInv, RenewInv, Expired
    <2>. QED BY <1>t, <2>1, <2>2, TypeParts DEF InstanceInv, Phase
  <1>5. ASSUME NEW i \in Instance, ExpireInstance(i) PROVE InstanceInv'
    <2>1. /\ row[i] = "live" /\ row' = [row EXCEPT ![i] = "expired"]
          /\ UNCHANGED <<target, phase, inst, begun, faults, changes>>
          /\ \/ late' = late /\ ~InRenewal(i)
             \/ late' = late + 1 /\ late < MaxLateRenewals
      BY <1>5 DEF ExpireInstance
    <2>2. BegunInv'
      BY <1>t, <1>b, <2>1 DEF BegunInv, Expired
    <2>3. RenewInv'
      <3>1. CASE late' = late /\ ~InRenewal(i)
        BY <1>t, <1>b, <2>1, <3>1 DEF RenewInv, InRenewal
      <3>2. CASE late' = late + 1
        BY <1>t, <3>2 DEF RenewInv
      <3>. QED BY <2>1, <3>1, <3>2
    <2>4. late' \in 0 .. MaxLateRenewals
      BY <1>t, <2>1
    <2>. QED BY <1>t, <2>1, <2>2, <2>3, <2>4, TypeParts DEF InstanceInv
  <1>6. CASE SweepExpiredInstances
    <2>1. /\ row' = [i \in Instance |-> IF row[i] = "expired" THEN "none" ELSE row[i]]
          /\ begun' = [p \in Proc |-> begun[p] \ Expired]
          /\ UNCHANGED <<target, phase, inst, faults, changes, late>>
      BY <1>6 DEF SweepExpiredInstances, boundVars
    <2>2. BegunInv' /\ RenewInv'
      BY <1>t, <1>b, <2>1 DEF BegunInv, RenewInv, Expired
    <2>. QED BY <1>t, <1>v, <2>1, <2>2, TypeParts DEF InstanceInv
  <1>7. ASSUME NEW n \in AnyTarget, UpdateTargetInstances(n) PROVE InstanceInv'
    <2>1. /\ target' = n /\ changes' \in 0 .. MaxChanges
          /\ UNCHANGED <<row, phase, inst, begun, faults, late>>
      BY <1>t, <1>7 DEF UpdateTargetInstances
    <2>2. BegunInv' /\ RenewInv'
      BY <1>b, <2>1 DEF BegunInv, RenewInv, Expired
    <2>. QED BY <1>t, <2>1, <2>2, TypeParts DEF InstanceInv
  <1>8. CASE UNCHANGED vars
    <2>1. UNCHANGED <<target, row, phase, inst, begun, faults, changes, late>>
      BY <1>8 DEF vars, boundVars
    <2>2. BegunInv' /\ RenewInv'
      BY <1>b, <2>1 DEF BegunInv, RenewInv, Expired
    <2>. QED BY <1>t, <2>1, <2>2, TypeParts DEF InstanceInv
  <1>. QED BY <1>1, <1>2, <1>3, <1>4, <1>5, <1>6, <1>7, <1>8 DEF Next

\* The invariant holds in every behaviour.
THEOREM InstancesHold == Spec => []InstanceInv
  BY InstanceStart, InstanceStep, PTL DEF Spec

\* Every variable keeps its type: a process has an instance exactly while it
\* works, renews or drains, and a claim leaves only existing rows out.
THEOREM TypeCorrect == Spec => []TypeOK
  <1>1. InstanceInv => TypeOK
    BY DEF InstanceInv
  <1>. QED BY <1>1, InstancesHold, PTL

-----------------------------------------------------------------------------
\* A claim counts at least the live rows, so one more stays within the target.
LEMMA InsertStays ==
  ASSUME InstanceInv, NEW p \in Proc, NEW i \in Instance, InsertInstance(p, i)
  PROVE  target = NoInstanceTarget \/ Cardinality(Live') <= target
  <1>1. Live \subseteq Counted(p)
    BY DEF Live, Counted, Expired, InstanceInv, BegunInv
  <1>2. row[i] = "none" /\ i \notin Live
    BY DEF InsertInstance, Unused, Live
  <1>3. Live' = Live \cup {i}
    BY <1>2 DEF InsertInstance, Live, InstanceInv, TypeOK
  <1>4. IsFiniteSet(Live) /\ IsFiniteSet(Counted(p))
    BY WorkerBounds, FS_Subset DEF Live, Counted
  <1>5. /\ Cardinality(Live) \in Nat /\ Cardinality(Counted(p)) \in Nat
        /\ Cardinality(Live) <= Cardinality(Counted(p))
    BY <1>1, <1>4, FS_CardinalityType, FS_Subset
  <1>6. Cardinality(Live') = Cardinality(Live) + 1
    BY <1>2, <1>3, <1>4, FS_AddElement
  <1>7. target = NoInstanceTarget \/ Cardinality(Counted(p)) < target
    BY DEF InsertInstance, HasRoom
  <1>8. target \in Int
    BY WorkerBounds DEF InstanceInv, TypeOK, AnyTarget, NoInstanceTarget
  <1>. QED BY <1>5, <1>6, <1>7, <1>8

\* Only a claim brings a row to life, as long as no row has expired during its
\* renewal: what a renewal extends was live all along.
LEMMA OnlyClaimsRevive ==
  ASSUME InstanceInv, Next, late = 0, NEW i \in Instance, row[i] # "live", row'[i] = "live"
  PROVE  \E p \in Proc, j \in Instance : InsertInstance(p, j)
  <1>t. /\ row \in [Instance -> {"none", "live", "expired"}]
        /\ inst \in [Proc -> Instance \cup {NoInstance}]
    BY DEF InstanceInv, TypeOK
  <1>0. row' # row
    OBVIOUS
  <1>1. ASSUME NEW p \in Proc, ApplyRenew(p) PROVE FALSE
    <2>1. i = inst[p]
      BY <1>1, <1>t DEF ApplyRenew
    <2>2. row[i] = "expired" /\ i \notin begun[p] /\ phase[p] = "renewing"
      BY <1>1, <1>t, <2>1 DEF ApplyRenew, Renewable
    <2>. QED BY <2>1, <2>2 DEF InstanceInv, RenewInv
  <1>2. ASSUME NEW p \in Proc, ReleaseInstance(p) PROVE FALSE
    BY <1>0, <1>2, <1>t DEF ReleaseInstance, Released
  <1>3. ASSUME NEW j \in Instance, ExpireInstance(j) PROVE FALSE
    BY <1>3, <1>t DEF ExpireInstance
  <1>4. ~SweepExpiredInstances
    BY <1>t DEF SweepExpiredInstances
  <1>. QED BY <1>0, <1>1, <1>2, <1>3, <1>4
       DEF Next, ClaimStep, RenewStep, DeclineUnlocked, CheckRoom, BeginClaim, DeclineClaim,
           BeginRenew, StopAtRenewal, LoseInstance, FailRenew, EndWork, RecordInLostInstance,
           Crash, UpdateTargetInstances, vars

\* "N at most N live instances": whatever races, crashes and changes of the
\* target there were, a row comes to life only within the target, as long as no
\* row has expired during its own renewal.
THEOREM WithinTarget == Spec => LiveWithinTarget
  <1>1. InstanceInv /\ [Next]_vars => [late = 0 => StaysWithinTarget]_vars
    <2> SUFFICES ASSUME InstanceInv, Next, late = 0,
                        NEW i \in Instance, row[i] # "live", row'[i] = "live"
                 PROVE  target = NoInstanceTarget \/ Cardinality(Live') <= target
      BY DEF StaysWithinTarget
    <2>1. PICK p \in Proc, j \in Instance : InsertInstance(p, j)
      BY OnlyClaimsRevive
    <2>. QED BY <2>1, InsertStays
  <1>. QED BY <1>1, InstancesHold, PTL DEF Spec, LiveWithinTarget

-----------------------------------------------------------------------------
(* The managers. *)

HostState == {"claiming", "waiting", "running", "draining",
              "restarting", "stopped", "returned", "unmanaged"}
Cause == {"none", "lost", "suspended", "fatal", "cancel"}
Goroutines == [Host -> [WorkerRow -> Nat]]

ManagerType ==
    /\ targetOf \in [WorkerRow -> Nat \cup {AnyNumber, Undeclared, Deleted}]
    /\ pool \in [Host -> SUBSET WorkerRow]
    /\ running \in Goroutines /\ stopping \in Goroutines
    /\ pending \in [Host -> SUBSET ({"added", "exited", "removed"} \X WorkerRow)]
    /\ hostAt \in [Host -> HostState] /\ cause \in [Host -> Cause]
    /\ cancelled \in [Host -> BOOLEAN]

\* A row was declared once and is on the host's chain.
Chained(h, r) == r \in Chain[h] /\ targetOf[r] # Undeclared

PoolInv ==
    \A h \in Host, r \in WorkerRow :
        /\ r \in pool[h] => Chained(h, r)
        /\ running[h][r] > 0 => r \in pool[h]

PendingInv ==
    \A h \in Host, r \in WorkerRow :
        /\ <<"added", r>> \in pending[h] \/ <<"exited", r>> \in pending[h] =>
             Chained(h, r) /\ running[h][r] = 0
        /\ ~(<<"added", r>> \in pending[h] /\ <<"exited", r>> \in pending[h])
        /\ <<"removed", r>> \in pending[h] => targetOf[r] = Deleted

LifeInv ==
    \A h \in Host :
        /\ hostAt[h] # "running" => \A r \in WorkerRow : running[h][r] = 0
        /\ hostAt[h] # "running" => pool[h] = {} /\ pending[h] = {}
        /\ hostAt[h] = "running" =>
             \A r \in WorkerRow : stopping[h][r] > 0 => targetOf[r] = Deleted
        /\ hostAt[h] \notin {"running", "draining"} =>
             \A r \in WorkerRow : stopping[h][r] = 0
        /\ hostAt[h] = "draining" => \/ cause[h] \in {"lost", "suspended", "fatal"}
                                     \/ cancelled[h]

HostInv == ManagerType /\ PoolInv /\ PendingInv /\ LifeInv /\ OneExecutionPerRow

-----------------------------------------------------------------------------
\* A host starts without a life.
LEMMA HostStart == WorkerManagerInit => HostInv
  <1> SUFFICES ASSUME WorkerManagerInit PROVE HostInv
    OBVIOUS
  <1>1. \A h \in Host, r \in WorkerRow : running[h][r] = 0 /\ stopping[h][r] = 0
    BY DEF WorkerManagerInit, NoGoroutines
  <1>2. ManagerType
    <2>1. targetOf \in [WorkerRow -> Nat \cup {AnyNumber, Undeclared, Deleted}]
      BY ManagerBounds DEF WorkerManagerInit, AnyNumber, Undeclared, Deleted
    <2>2. running \in Goroutines /\ stopping \in Goroutines
      BY DEF WorkerManagerInit, Goroutines, NoGoroutines
    <2>3. cancelled \in [Host -> BOOLEAN]
      BY Zenon DEF WorkerManagerInit
    <2>4. hostAt \in [Host -> HostState] /\ cause \in [Host -> Cause]
      BY DEF WorkerManagerInit, HostState, Cause
    <2>. QED BY <2>1, <2>2, <2>3, <2>4 DEF WorkerManagerInit, ManagerType
  <1>. QED BY <1>1, <1>2
       DEF WorkerManagerInit, HostInv, PoolInv, PendingInv, LifeInv, OneExecutionPerRow

\* A step that starts and stops nothing: rows may be declared, retargeted and
\* deleted, but a declared row stays declared and a deleted one deleted.
LEMMA RowStep ==
  ASSUME HostInv,
         targetOf' \in [WorkerRow -> Nat \cup {AnyNumber, Undeclared, Deleted}],
         \A r \in WorkerRow : /\ targetOf[r] # Undeclared => targetOf'[r] # Undeclared
                              /\ targetOf[r] = Deleted => targetOf'[r] = Deleted,
         UNCHANGED <<pool, running, stopping, pending, hostAt, cause, cancelled>>
  PROVE  HostInv'
  <1>1. ManagerType'
    BY DEF HostInv, ManagerType
  <1>2. PoolInv' /\ PendingInv'
    BY DEF HostInv, PoolInv, PendingInv, Chained
  <1>3. LifeInv' /\ OneExecutionPerRow'
    BY DEF HostInv, LifeInv, OneExecutionPerRow
  <1>. QED BY <1>1, <1>2, <1>3 DEF HostInv

\* A host without a life, or whose life has drained, moves on: it may claim.
LEMMA LifeStep ==
  ASSUME HostInv, NEW h \in Host,
         hostAt[h] # "running", \A r \in WorkerRow : stopping[h][r] = 0,
         NEW at \in HostState, at # "draining", hostAt' = [hostAt EXCEPT ![h] = at],
         cause' \in [Host -> Cause], \A g \in Host \ {h} : cause'[g] = cause[g],
         cancelled' \in [Host -> BOOLEAN], \A g \in Host \ {h} : cancelled'[g] = cancelled[g],
         UNCHANGED <<targetOf, pool, running, stopping, pending>>
  PROVE  HostInv'
  <1>0. \A g \in Host : hostAt'[g] = IF g = h THEN at ELSE hostAt[g]
    BY DEF HostInv, ManagerType
  <1>1. ManagerType'
    BY DEF HostInv, ManagerType
  <1>2. PoolInv' /\ PendingInv' /\ OneExecutionPerRow'
    BY DEF HostInv, PoolInv, PendingInv, Chained, OneExecutionPerRow
  <1>3. LifeInv'
    BY <1>0 DEF HostInv, LifeInv
  <1>. QED BY <1>1, <1>2, <1>3 DEF HostInv

\* A life ends: what ran is told to stop, and the next life waits for it.
LEMMA EndLifeInv ==
  ASSUME HostInv, NEW h \in Host, NEW why \in Cause, EndLife(h, why),
         hostAt[h] = "running", targetOf' = targetOf,
         cancelled' \in [Host -> BOOLEAN], \A g \in Host \ {h} : cancelled'[g] = cancelled[g],
         why \in {"lost", "suspended", "fatal"} \/ cancelled'[h]
  PROVE  HostInv'
  <1>t. /\ running \in Goroutines /\ stopping \in Goroutines
        /\ running[h] \in [WorkerRow -> Nat] /\ stopping[h] \in [WorkerRow -> Nat]
        /\ hostAt \in [Host -> HostState] /\ cause \in [Host -> Cause]
        /\ pool \in [Host -> SUBSET WorkerRow]
        /\ pending \in [Host -> SUBSET ({"added", "exited", "removed"} \X WorkerRow)]
    BY DEF HostInv, ManagerType, Goroutines
  <1> DEFINE sum == [r \in WorkerRow |-> stopping[h][r] + running[h][r]]
  <1>1. /\ hostAt' = [hostAt EXCEPT ![h] = "draining"] /\ cause' = [cause EXCEPT ![h] = why]
        /\ stopping' = [stopping EXCEPT ![h] = sum]
        /\ running' = [running EXCEPT ![h] = NoGoroutines]
        /\ pool' = [pool EXCEPT ![h] = {}] /\ pending' = [pending EXCEPT ![h] = {}]
    BY DEF EndLife
  <1>2. sum \in [WorkerRow -> Nat] /\ NoGoroutines \in [WorkerRow -> Nat]
    BY <1>t DEF NoGoroutines
  <1>3. \A r \in WorkerRow : sum[r] = stopping[h][r] + running[h][r] /\ NoGoroutines[r] = 0
    BY DEF NoGoroutines
  <1> HIDE DEF sum
  <1>4. ManagerType'
    <2>1. running' \in Goroutines /\ stopping' \in Goroutines
      BY <1>t, <1>1, <1>2 DEF Goroutines
    <2>2. hostAt' \in [Host -> HostState] /\ cause' \in [Host -> Cause]
      BY <1>t, <1>1 DEF HostState
    <2>3. /\ pool' \in [Host -> SUBSET WorkerRow]
          /\ pending' \in [Host -> SUBSET ({"added", "exited", "removed"} \X WorkerRow)]
      BY <1>t, <1>1
    <2>. QED BY <2>1, <2>2, <2>3 DEF HostInv, ManagerType
  <1>5. /\ \A g \in Host \ {h} : /\ hostAt'[g] = hostAt[g] /\ cause'[g] = cause[g]
                                 /\ stopping'[g] = stopping[g] /\ running'[g] = running[g]
                                 /\ pool'[g] = pool[g] /\ pending'[g] = pending[g]
        /\ hostAt'[h] = "draining" /\ cause'[h] = why /\ stopping'[h] = sum
        /\ running'[h] = NoGoroutines /\ pool'[h] = {} /\ pending'[h] = {}
    BY <1>t, <1>1 DEF Goroutines
  <1>6. PoolInv' /\ PendingInv'
    BY <1>3, <1>5 DEF HostInv, PoolInv, PendingInv, Chained
  <1>7. LifeInv'
    BY <1>3, <1>5 DEF HostInv, LifeInv
  <1>8. OneExecutionPerRow'
    <2> SUFFICES ASSUME NEW g \in Host, NEW r \in WorkerRow
                 PROVE  running'[g][r] + stopping'[g][r] <= 1
      BY DEF OneExecutionPerRow
    <2>1. CASE g = h
      <3>1. running[h][r] \in Nat /\ stopping[h][r] \in Nat /\ running[h][r] + stopping[h][r] <= 1
        BY <1>t DEF HostInv, OneExecutionPerRow
      <3>2. running'[h][r] = 0 /\ stopping'[h][r] = stopping[h][r] + running[h][r]
        BY <1>3, <1>5
      <3>. QED BY <2>1, <3>1, <3>2
    <2>2. CASE g # h
      BY <1>5, <2>2 DEF HostInv, OneExecutionPerRow
    <2>. QED BY <2>1, <2>2
  <1>. QED BY <1>4, <1>6, <1>7, <1>8 DEF HostInv

\* A pass that begins: it adds no row that runs, and removes only deleted rows.
LEMMA RefreshInv ==
  ASSUME HostInv, NEW h \in Host, Refresh(h)
  PROVE  HostInv'
  <1> DEFINE ch == Changes(h) \ Skipped(h)
  <1>1. /\ pending' = [pending EXCEPT ![h] = ch] /\ hostAt[h] = "running"
        /\ UNCHANGED <<targetOf, pool, running, stopping, hostAt, cause, cancelled>>
    BY DEF Refresh, rowVars, lifeVars
  <1>t. /\ pending \in [Host -> SUBSET ({"added", "exited", "removed"} \X WorkerRow)]
        /\ pool[h] \in SUBSET WorkerRow /\ Chain[h] \in SUBSET WorkerRow
        /\ \A r \in WorkerRow : running[h][r] \in Nat
    BY ManagerBounds DEF HostInv, ManagerType, Goroutines
  <1>2. ch \in SUBSET ({"added", "exited", "removed"} \X WorkerRow)
    BY <1>t DEF Changes, ListWorkers, ExitedRows
  <1>3. ASSUME NEW r \in WorkerRow
        PROVE  /\ <<"added", r>> \in ch => r \in ListWorkers(h) /\ r \notin pool[h]
               /\ <<"exited", r>> \in ch => r \in ListWorkers(h) /\ r \in pool[h] /\ Finished(h, r)
               /\ <<"removed", r>> \in ch => r \in pool[h] /\ r \notin ListWorkers(h)
    BY DEF Changes, ExitedRows
  <1> HIDE DEF ch
  <1>4. \A g \in Host : pending'[g] = IF g = h THEN ch ELSE pending[g]
    BY <1>t, <1>1
  <1>5. ManagerType'
    BY <1>t, <1>1, <1>2 DEF HostInv, ManagerType
  <1>6. PoolInv' /\ OneExecutionPerRow'
    BY <1>1 DEF HostInv, PoolInv, Chained, OneExecutionPerRow
  <1>7. LifeInv'
    BY <1>1, <1>4 DEF HostInv, LifeInv
  <1>8. PendingInv'
    <2> SUFFICES ASSUME NEW g \in Host, NEW r \in WorkerRow
                 PROVE  /\ <<"added", r>> \in pending'[g] \/ <<"exited", r>> \in pending'[g] =>
                             Chained(g, r) /\ running[g][r] = 0
                        /\ ~(<<"added", r>> \in pending'[g] /\ <<"exited", r>> \in pending'[g])
                        /\ <<"removed", r>> \in pending'[g] => targetOf[r] = Deleted
      BY <1>1 DEF PendingInv, Chained
    <2>1. CASE g # h
      BY <1>4, <2>1 DEF HostInv, PendingInv
    <2>2. CASE g = h
      <3>1. <<"added", r>> \in ch => Chained(h, r) /\ running[h][r] = 0
        <4>1. r \notin pool[h] => running[h][r] = 0
          BY <1>t DEF HostInv, PoolInv
        <4>. QED BY <1>3, <4>1 DEF ListWorkers, Chained
      <3>2. <<"exited", r>> \in ch => Chained(h, r) /\ running[h][r] = 0
        BY <1>3 DEF ListWorkers, Chained, Finished
      <3>3. <<"removed", r>> \in ch => targetOf[r] = Deleted
        BY <1>3 DEF ListWorkers, HostInv, PoolInv, Chained
      <3>. QED BY <1>3, <1>4, <2>2, <3>1, <3>2, <3>3
    <2>. QED BY <2>1, <2>2
  <1>. QED BY <1>5, <1>6, <1>7, <1>8 DEF HostInv

\* One change of a pass: a row is started only when nothing of it runs and, since
\* it was not deleted, nothing of it is stopping.
LEMMA ReconcileInv ==
  ASSUME HostInv, NEW h \in Host, Reconcile(h)
  PROVE  HostInv'
  <1>t. /\ running \in Goroutines /\ stopping \in Goroutines
        /\ pool \in [Host -> SUBSET WorkerRow]
        /\ pending \in [Host -> SUBSET ({"added", "exited", "removed"} \X WorkerRow)]
        /\ \A g \in Host, r \in WorkerRow : running[g][r] \in Nat /\ stopping[g][r] \in Nat
    BY DEF HostInv, ManagerType, Goroutines
  <1>1. PICK c \in pending[h] :
          /\ pending' = [pending EXCEPT ![h] = @ \ {c}]
          /\ IF c[1] = "removed" THEN StopExecution(h, c[2]) ELSE StartExecution(h, c[2])
    BY DEF Reconcile
  <1>2. /\ hostAt[h] = "running"
        /\ UNCHANGED <<targetOf, hostAt, cause, cancelled>>
    BY DEF Reconcile, lifeVars
  <1>3. PICK r \in WorkerRow : c[2] = r /\ c \in {<<"added", r>>, <<"exited", r>>, <<"removed", r>>}
    BY <1>t
  <1>4. \A g \in Host : pending'[g] = IF g = h THEN pending[h] \ {c} ELSE pending[g]
    BY <1>t, <1>1
  <1>5. pending' \in [Host -> SUBSET ({"added", "exited", "removed"} \X WorkerRow)]
    BY <1>t, <1>1
  <1>6. \* What is common to a start and a stop of row r.
        ASSUME NEW n \in {0, 1}, NEW P \in SUBSET WorkerRow,
               running' = [running EXCEPT ![h][r] = n],
               stopping' = [stopping EXCEPT ![h][r] = @ + running[h][r]],
               pool' = [pool EXCEPT ![h] = P],
               P \ {r} = pool[h] \ {r},
               r \in P => Chained(h, r),
               n = 1 => r \in P /\ targetOf[r] # Deleted /\ c # <<"removed", r>>,
               running[h][r] = 0 \/ targetOf[r] = Deleted
        PROVE  HostInv'
    <2>1. \A g \in Host, q \in WorkerRow :
            /\ running'[g][q] = IF g = h /\ q = r THEN n ELSE running[g][q]
            /\ stopping'[g][q] = IF g = h /\ q = r THEN stopping[h][r] + running[h][r]
                                 ELSE stopping[g][q]
      BY <1>t, <1>6 DEF Goroutines
    <2>2. running' \in Goroutines /\ stopping' \in Goroutines
      BY <1>t, <1>6 DEF Goroutines
    <2>3. \A g \in Host : pool'[g] = IF g = h THEN P ELSE pool[g]
      BY <1>t, <1>6
    <2>4. pool' \in [Host -> SUBSET WorkerRow]
      BY <1>t, <1>6
    <2>5. ManagerType'
      BY <1>2, <1>5, <2>2, <2>4 DEF HostInv, ManagerType
    <2>6. PoolInv'
      <3> SUFFICES ASSUME NEW g \in Host, NEW q \in WorkerRow
                   PROVE  /\ q \in pool'[g] => Chained(g, q)
                          /\ running'[g][q] > 0 => q \in pool'[g]
        BY <1>2 DEF PoolInv, Chained
      <3>1. CASE g = h /\ q = r
        BY <1>6, <2>1, <2>3, <3>1
      <3>2. CASE g = h /\ q # r
        <4>1. q \in P <=> q \in pool[h]
          BY <1>6, <3>2
        <4>. QED BY <2>1, <2>3, <3>2, <4>1 DEF HostInv, PoolInv
      <3>3. CASE g # h
        BY <2>1, <2>3, <3>3 DEF HostInv, PoolInv
      <3>. QED BY <3>1, <3>2, <3>3
    <2>7. PendingInv'
      <3> SUFFICES ASSUME NEW g \in Host, NEW q \in WorkerRow
                   PROVE  /\ <<"added", q>> \in pending'[g] \/ <<"exited", q>> \in pending'[g] =>
                               Chained(g, q) /\ running'[g][q] = 0
                          /\ ~(<<"added", q>> \in pending'[g] /\ <<"exited", q>> \in pending'[g])
                          /\ <<"removed", q>> \in pending'[g] => targetOf[q] = Deleted
        BY <1>2 DEF PendingInv, Chained
      <3>0. pending'[g] \subseteq pending[g]
        BY <1>4
      <3>1. CASE ~(g = h /\ q = r /\ n = 1)
        <4>1. running[g][q] = 0 => running'[g][q] = 0
          BY <1>6, <2>1, <3>1
        <4>. QED BY <3>0, <4>1 DEF HostInv, PendingInv
      <3>2. CASE g = h /\ q = r /\ n = 1
        <4>1. /\ c \in {<<"added", r>>, <<"exited", r>>} /\ c \in pending[h]
              /\ c \notin pending'[h]
          BY <1>1, <1>3, <1>4, <1>6, <3>2
        <4>2. ~(<<"added", r>> \in pending[h] /\ <<"exited", r>> \in pending[h])
          BY DEF HostInv, PendingInv
        <4>3. <<"added", r>> \notin pending'[h] /\ <<"exited", r>> \notin pending'[h]
          BY <3>0, <3>2, <4>1, <4>2
        <4>4. <<"removed", r>> \in pending[h] => targetOf[r] = Deleted
          BY DEF HostInv, PendingInv
        <4>. QED BY <3>0, <3>2, <4>3, <4>4
      <3>. QED BY <3>1, <3>2
    <2>8. LifeInv'
      <3> SUFFICES ASSUME NEW g \in Host
                   PROVE  /\ hostAt[g] # "running" => \A q \in WorkerRow : running'[g][q] = 0
                          /\ hostAt[g] # "running" => pool'[g] = {} /\ pending'[g] = {}
                          /\ hostAt[g] = "running" =>
                               \A q \in WorkerRow : stopping'[g][q] > 0 => targetOf[q] = Deleted
                          /\ hostAt[g] \notin {"running", "draining"} =>
                               \A q \in WorkerRow : stopping'[g][q] = 0
                          /\ hostAt[g] = "draining" => \/ cause[g] \in {"lost", "suspended", "fatal"}
                                                       \/ cancelled[g]
        BY <1>2 DEF LifeInv
      <3>1. CASE g = h
        <4>1. ASSUME NEW q \in WorkerRow, stopping'[h][q] > 0 PROVE targetOf[q] = Deleted
          <5>1. CASE q = r
            <6>1. stopping'[h][r] = stopping[h][r] + running[h][r]
              BY <2>1
            <6>2. targetOf[r] # Deleted => stopping[h][r] = 0
              BY <1>t, <1>2 DEF HostInv, LifeInv
            <6>. QED BY <1>t, <1>6, <4>1, <5>1, <6>1, <6>2
          <5>2. CASE q # r
            BY <1>2, <2>1, <4>1, <5>2 DEF HostInv, LifeInv
          <5>. QED BY <5>1, <5>2
        <4>. QED BY <1>2, <3>1, <4>1
      <3>2. CASE g # h
        BY <1>4, <2>1, <2>3, <3>2 DEF HostInv, LifeInv
      <3>. QED BY <3>1, <3>2
    <2>9. OneExecutionPerRow'
      <3> SUFFICES ASSUME NEW g \in Host, NEW q \in WorkerRow
                   PROVE  running'[g][q] + stopping'[g][q] <= 1
        BY DEF OneExecutionPerRow
      <3>1. CASE g = h /\ q = r
        <4>1. running[h][r] + stopping[h][r] <= 1
          BY DEF HostInv, OneExecutionPerRow
        <4>2. n = 1 => stopping[h][r] = 0 /\ running[h][r] = 0
          BY <1>t, <1>2, <1>6 DEF HostInv, LifeInv
        <4>. QED BY <1>t, <2>1, <3>1, <4>1, <4>2
      <3>2. CASE ~(g = h /\ q = r)
        <4>1. running'[g][q] = running[g][q] /\ stopping'[g][q] = stopping[g][q]
          BY <2>1, <3>2
        <4>. QED BY <4>1 DEF HostInv, OneExecutionPerRow
      <3>. QED BY <3>1, <3>2
    <2>. QED BY <2>5, <2>6, <2>7, <2>8, <2>9 DEF HostInv
  <1>7. pool[h] \in SUBSET WorkerRow /\ (r \in pool[h] => Chained(h, r))
    BY <1>t DEF HostInv, PoolInv
  <1>8. CASE c = <<"removed", r>>
    <2>1. targetOf[r] = Deleted
      BY <1>1, <1>8 DEF HostInv, PendingInv
    <2>2. c[1] = "removed" /\ c[2] = r
      BY <1>8
    <2>3. StopExecution(h, r)
      BY <1>1, <2>2
    <2>4. /\ pool' = [pool EXCEPT ![h] = pool[h] \ {r}]
          /\ running' = [running EXCEPT ![h][r] = 0]
          /\ stopping' = [stopping EXCEPT ![h][r] = @ + running[h][r]]
      BY <2>3 DEF StopExecution
    <2>5. /\ pool[h] \ {r} \in SUBSET WorkerRow /\ (pool[h] \ {r}) \ {r} = pool[h] \ {r}
          /\ r \notin pool[h] \ {r} /\ 0 \in {0, 1} /\ 0 # 1
      BY <1>7
    <2>. QED BY <1>6, <2>1, <2>4, <2>5
  <1>9. CASE c # <<"removed", r>>
    <2> DEFINE claims == targetOf[r] \notin {Undeclared, Deleted} /\ ClaimAdmits(r)
               P == IF claims THEN pool[h] \cup {r} ELSE pool[h] \ {r}
               n == IF claims THEN 1 ELSE 0
    <2>1. StartExecution(h, r) /\ c[1] # "removed"
      BY <1>1, <1>3, <1>9
    <2>2. Chained(h, r) /\ running[h][r] = 0
      BY <1>3, <1>9 DEF HostInv, PendingInv
    <2>3. /\ running' = [running EXCEPT ![h][r] = n] /\ pool' = [pool EXCEPT ![h] = P]
          /\ stopping' = [stopping EXCEPT ![h][r] = @ + running[h][r]]
      BY <2>1 DEF StartExecution
    <2>4. /\ P \in SUBSET WorkerRow /\ P \ {r} = pool[h] \ {r} /\ n \in {0, 1}
          /\ n = 1 => r \in P /\ targetOf[r] # Deleted
      BY <1>7
    <2> HIDE DEF P, n
    <2>. QED BY <1>6, <1>9, <2>2, <2>3, <2>4
  <1>. QED BY <1>8, <1>9

\* An execution ends by itself, or drains after it was told to stop.
LEMMA FewerInv ==
  ASSUME HostInv, NEW h \in Host, NEW r \in WorkerRow,
         \/ /\ running[h][r] > 0 /\ running' = [running EXCEPT ![h][r] = @ - 1]
            /\ stopping' = stopping
         \/ /\ stopping[h][r] > 0 /\ stopping' = [stopping EXCEPT ![h][r] = @ - 1]
            /\ running' = running,
         UNCHANGED <<targetOf, pool, pending, hostAt, cause, cancelled>>
  PROVE  HostInv'
  <1>t. /\ running \in Goroutines /\ stopping \in Goroutines
        /\ \A g \in Host, q \in WorkerRow : running[g][q] \in Nat /\ stopping[g][q] \in Nat
    BY DEF HostInv, ManagerType, Goroutines
  <1>0. \* One goroutine fewer in a table of them.
        ASSUME NEW f \in Goroutines, f[h][r] > 0
        PROVE  LET g == [f EXCEPT ![h][r] = @ - 1] IN
                 /\ g \in Goroutines
                 /\ \A k \in Host, q \in WorkerRow : g[k][q] <= f[k][q]
    <2>1. f[h] \in [WorkerRow -> Nat] /\ f[h][r] - 1 \in Nat
      BY <1>0 DEF Goroutines
    <2>2. [f[h] EXCEPT ![r] = @ - 1] \in [WorkerRow -> Nat]
      BY <2>1
    <2>3. [f EXCEPT ![h][r] = @ - 1] \in Goroutines
      BY <2>2 DEF Goroutines
    <2>4. ASSUME NEW k \in Host, NEW q \in WorkerRow
          PROVE  [f EXCEPT ![h][r] = @ - 1][k][q] <= f[k][q]
      <3>1. f[k][q] \in Nat /\ f[k] \in [WorkerRow -> Nat]
        BY DEF Goroutines
      <3>. QED BY <2>1, <3>1 DEF Goroutines
    <2>. QED BY <2>3, <2>4
  <1>1. running' \in Goroutines /\ stopping' \in Goroutines
    BY <1>0, <1>t
  <1>2. \A g \in Host, q \in WorkerRow :
          /\ running'[g][q] \in Nat /\ running'[g][q] <= running[g][q]
          /\ stopping'[g][q] \in Nat /\ stopping'[g][q] <= stopping[g][q]
    <2> SUFFICES ASSUME NEW g \in Host, NEW q \in WorkerRow
                 PROVE  /\ running'[g][q] \in Nat /\ running'[g][q] <= running[g][q]
                        /\ stopping'[g][q] \in Nat /\ stopping'[g][q] <= stopping[g][q]
      OBVIOUS
    <2>1. running'[g][q] \in Nat /\ stopping'[g][q] \in Nat
      BY <1>1 DEF Goroutines
    <2>2. running'[g][q] = running[g][q] \/ running'[g][q] <= running[g][q]
      BY <1>0, <1>t
    <2>3. stopping'[g][q] = stopping[g][q] \/ stopping'[g][q] <= stopping[g][q]
      BY <1>0, <1>t
    <2>. QED BY <1>t, <2>1, <2>2, <2>3
  <1>3. \A g \in Host, q \in WorkerRow :
          /\ running'[g][q] > 0 => running[g][q] > 0
          /\ running[g][q] = 0 => running'[g][q] = 0
          /\ stopping'[g][q] > 0 => stopping[g][q] > 0
          /\ stopping[g][q] = 0 => stopping'[g][q] = 0
    BY <1>t, <1>2
  <1>4. ManagerType'
    BY <1>1 DEF HostInv, ManagerType
  <1>5. PoolInv' /\ PendingInv' /\ LifeInv'
    BY <1>3 DEF HostInv, PoolInv, PendingInv, LifeInv, Chained
  <1>6. OneExecutionPerRow'
    BY <1>t, <1>2 DEF HostInv, OneExecutionPerRow
  <1>. QED BY <1>4, <1>5, <1>6 DEF HostInv

\* Every step preserves the invariant.
LEMMA HostsStep == HostInv /\ [WorkerManagerNext]_managerVars => HostInv'
  <1> SUFFICES ASSUME HostInv, [WorkerManagerNext]_managerVars PROVE HostInv'
    OBVIOUS
  <1>t. /\ targetOf \in [WorkerRow -> Nat \cup {AnyNumber, Undeclared, Deleted}]
        /\ hostAt \in [Host -> HostState] /\ cause \in [Host -> Cause]
        /\ cancelled \in [Host -> BOOLEAN]
    BY DEF HostInv, ManagerType
  <1>d. \A r \in WorkerRow : DeclaredTarget[r] \in Nat \cup {AnyNumber}
                             /\ DeclaredTarget[r] \notin {Undeclared, Deleted}
    BY ManagerBounds DEF AnyNumber, Undeclared, Deleted
  <1>n. Undeclared # Deleted /\ 0 \notin {Undeclared, Deleted}
    BY DEF Undeclared, Deleted
  <1>1. ASSUME NEW r \in WorkerRow,
               DeclareWorker(r) \/ DeleteOwner(r)
                 \/ \E t \in {0, DeclaredTarget[r]} : UpdateTarget(r, t)
        PROVE  HostInv'
    <2>1. \* The row's target changes to t, which is not Undeclared.
          ASSUME NEW t \in Nat \cup {AnyNumber, Deleted},
                 targetOf' = [targetOf EXCEPT ![r] = t], t # Undeclared, targetOf[r] # Deleted,
                 UNCHANGED <<poolVars, lifeVars, cancelled>>
          PROVE  HostInv'
      BY <1>t, <2>1, RowStep DEF poolVars, lifeVars
    <2>2. CASE DeclareWorker(r)
      <3>1. targetOf[r] = Undeclared /\ RedeclaredTarget(r) = DeclaredTarget[r]
        BY <2>2 DEF DeclareWorker, RedeclaredTarget
      <3>. QED BY <1>d, <1>n, <2>1, <2>2, <3>1 DEF DeclareWorker
    <2>3. CASE DeleteOwner(r)
      BY <1>n, <2>1, <2>3 DEF DeleteOwner
    <2>4. ASSUME NEW t \in {0, DeclaredTarget[r]}, UpdateTarget(r, t) PROVE HostInv'
      BY <1>d, <1>n, <2>1, <2>4 DEF UpdateTarget
    <2>. QED BY <1>1, <2>2, <2>3, <2>4
  <1>2. ASSUME NEW h \in Host, HostStep(h) \/ Cancel(h) PROVE HostInv'
    <2>1. CASE ClaimManager(h)
      <3>1. hostAt[h] = "claiming"
        BY <2>1 DEF ClaimManager
      <3>2. PICK at \in {"returned", "waiting", "running"}, why \in {"fatal", "none"} :
              /\ hostAt' = [hostAt EXCEPT ![h] = at] /\ cause' = [cause EXCEPT ![h] = why]
              /\ UNCHANGED <<targetOf, poolVars, cancelled>>
        BY <2>1 DEF ClaimManager
      <3>3. at \in HostState /\ at # "draining" /\ why \in Cause
        BY DEF HostState, Cause
      <3>4. cause' \in [Host -> Cause] /\ \A g \in Host \ {h} : cause'[g] = cause[g]
        BY <1>t, <3>2, <3>3
      <3>5. \A r \in WorkerRow : stopping[h][r] = 0
        BY <3>1 DEF HostInv, LifeInv
      <3>. QED BY <1>t, <3>1, <3>2, <3>3, <3>4, <3>5, LifeStep DEF poolVars
    <2>2. CASE RetryClaim(h) \/ RestartSystem(h)
      <3>1. hostAt[h] \in {"waiting", "restarting", "returned"}
        BY <2>2 DEF RetryClaim, RestartSystem
      <3>2. PICK at \in {"stopped", "claiming", "restarting"} :
              hostAt' = [hostAt EXCEPT ![h] = at]
        BY <2>2 DEF RetryClaim, RestartSystem
      <3>3. UNCHANGED <<targetOf, pool, running, stopping, pending, cause, cancelled>>
        BY <2>2 DEF RetryClaim, RestartSystem, rowVars, poolVars
      <3>4. at \in HostState /\ at # "draining"
        BY DEF HostState
      <3>5. \A r \in WorkerRow : stopping[h][r] = 0
        BY <3>1 DEF HostInv, LifeInv
      <3>. QED BY <1>t, <3>1, <3>2, <3>3, <3>4, <3>5, LifeStep
    <2>3. CASE LeaveLife(h)
      <3>1. /\ hostAt[h] = "draining" /\ Drained(h) /\ hostAt' = [hostAt EXCEPT ![h] = AfterLife(h)]
            /\ UNCHANGED <<targetOf, pool, running, stopping, pending, cause, cancelled>>
        BY <2>3 DEF LeaveLife, rowVars, poolVars
      <3>2. \A r \in WorkerRow : stopping[h][r] = 0
        BY <3>1 DEF Drained, NoGoroutines
      <3>3. AfterLife(h) \in {"returned", "stopped", "waiting", "restarting", "unmanaged"}
        <4>1. /\ cause[h] \in {"lost", "suspended", "fatal"} \/ cancelled[h]
              /\ Wrapper[h] \in {"system", "consume"} /\ cancelled[h] \in BOOLEAN
          BY <1>t, <3>1, ManagerBounds DEF HostInv, LifeInv
        <4>. QED BY <4>1 DEF AfterLife
      <3>4. AfterLife(h) \in HostState /\ AfterLife(h) # "draining"
        BY <3>3 DEF HostState
      <3>. QED BY <1>t, <3>1, <3>2, <3>4, LifeStep
    <2>4. CASE Heartbeat(h)
      <3>1. PICK why \in {"lost", "suspended"} : EndLife(h, why)
        BY <2>4 DEF Heartbeat
      <3>2. hostAt[h] = "running" /\ UNCHANGED <<targetOf, cancelled>> /\ why \in Cause
        BY <2>4 DEF Heartbeat, Cause
      <3>. QED BY <1>t, <3>1, <3>2, EndLifeInv
    <2>5. CASE Cancel(h)
      <3>1. /\ cancelled' = [cancelled EXCEPT ![h] = TRUE] /\ targetOf' = targetOf
        BY <2>5 DEF Cancel
      <3>2. /\ cancelled' \in [Host -> BOOLEAN] /\ cancelled'[h]
            /\ \A g \in Host \ {h} : cancelled'[g] = cancelled[g]
        BY <1>t, <3>1
      <3>3. CASE hostAt[h] = "running"
        <4>1. EndLife(h, "cancel") /\ "cancel" \in Cause
          BY <2>5, <3>3 DEF Cancel, Cause
        <4>. QED BY <3>1, <3>2, <3>3, <4>1, EndLifeInv
      <3>4. CASE hostAt[h] = "draining"
        <4>1. /\ hostAt' = [hostAt EXCEPT ![h] = "draining"]
              /\ UNCHANGED <<targetOf, pool, running, stopping, pending, cause>>
          BY <2>5, <3>4 DEF Cancel, poolVars
        <4>2. hostAt' = hostAt
          BY <1>t, <3>4, <4>1
        <4>3. ManagerType' /\ PoolInv' /\ PendingInv' /\ OneExecutionPerRow'
          BY <3>2, <4>1, <4>2
          DEF HostInv, ManagerType, PoolInv, PendingInv, OneExecutionPerRow, Chained
        <4>4. LifeInv'
          BY <3>2, <4>1, <4>2 DEF HostInv, LifeInv
        <4>. QED BY <4>3, <4>4 DEF HostInv
      <3>5. CASE hostAt[h] \notin {"running", "draining"}
        <4>1. /\ hostAt' = [hostAt EXCEPT ![h] = "stopped"]
              /\ UNCHANGED <<targetOf, pool, running, stopping, pending, cause>>
          BY <2>5, <3>5 DEF Cancel, poolVars
        <4>2. \A r \in WorkerRow : stopping[h][r] = 0
          BY <3>5 DEF HostInv, LifeInv
        <4>3. "stopped" \in HostState /\ "stopped" # "draining"
          BY DEF HostState
        <4>. QED BY <1>t, <3>2, <3>5, <4>1, <4>2, <4>3, LifeStep
      <3>. QED BY <3>3, <3>4, <3>5
    <2>6. CASE BackoffEnds(h)
      BY <1>t, <2>6, RowStep DEF BackoffEnds, rowVars, lifeVars
    <2>. QED BY <1>2, <2>1, <2>2, <2>3, <2>4, <2>5, <2>6, RefreshInv, ReconcileInv DEF HostStep
  <1>3. ASSUME NEW h \in Host, NEW r \in WorkerRow,
               ExecutionLosesClaim(h, r) \/ ExecutionDrains(h, r)
        PROVE  HostInv'
    BY <1>3, FewerInv DEF ExecutionLosesClaim, ExecutionDrains, lifeVars
  <1>4. ASSUME NEW h \in Host, NEW r \in WorkerRow, ExpireClaim(h, r) PROVE HostInv'
    BY <1>t, <1>4, RowStep DEF ExpireClaim, poolVars, lifeVars
  <1>5. ASSUME NEW h \in Host, NEW r \in WorkerRow, NEW failed \in BOOLEAN,
               ExecutionReturns(h, r, failed)
        PROVE  HostInv'
    <2>1. CASE failed
      <3>1. EndLife(h, "fatal") /\ hostAt[h] = "running" /\ UNCHANGED <<targetOf, cancelled>>
        BY <1>5, <2>1 DEF ExecutionReturns
      <3>2. "fatal" \in Cause
        BY DEF Cause
      <3>. QED BY <1>t, <3>1, <3>2, EndLifeInv
    <2>2. CASE ~failed
      BY <1>5, <2>2, FewerInv DEF ExecutionReturns
    <2>. QED BY <2>1, <2>2
  <1>6. CASE UNCHANGED managerVars
    BY <1>t, <1>6, RowStep DEF managerVars, rowVars, poolVars, lifeVars
  <1>. QED BY <1>1, <1>2, <1>3, <1>4, <1>5, <1>6 DEF WorkerManagerNext, ExecutionStep

\* The invariant holds in every behaviour.
THEOREM HostHolds == WorkerManagerSpec => []HostInv
  BY HostStart, HostsStep, PTL DEF WorkerManagerSpec

\* A host never runs two goroutines for one worker row, in one life or across
\* lives, whatever is declared, suspended, deleted, lost or cancelled.
THEOREM OneExecution == WorkerManagerSpec => []OneExecutionPerRow
  <1>1. HostInv => OneExecutionPerRow
    BY DEF HostInv
  <1>. QED BY <1>1, HostHolds, PTL
=============================================================================
