--------------------------- MODULE WorkerInstances ---------------------------
(***************************************************************************)
(* One worker row and the processes that compete to run it: the claims of  *)
(* worker_instance rows under target_instances, the heartbeat that renews  *)
(* a claim while work runs, suspension, release, and the sweep of expired  *)
(* rows (pkg/worker controller and datastore, the manager's pool).         *)
(*                                                                         *)
(* now() is the start of the transaction, so an expiry is judged by the    *)
(* clock at Begin and not when the statement runs.  Only the claim and the *)
(* change of the target lock the worker row; a renewal does not.  Expiry   *)
(* does not stop the work, the next heartbeat does.                        *)
(***************************************************************************)
EXTENDS Integers, FiniteSets

CONSTANTS
    Proc,           \* the processes whose managers reconcile the row
    Instance,       \* bound: worker_instance rows at one moment
    NoInstance,     \* a process that runs nothing
    Targets,        \* the limits an operator gives target_instances
    InitialTarget,  \* its declared value
    MaxFaults,      \* bound: crashes, lost replies and failed calls
    MaxChanges,     \* bound: changes of the target
    MaxLateRenewals \* bound: renewals whose row expires while they run

NoInstanceTarget == -1

\* What target_instances may hold: a limit, or none.
AnyTarget == Targets \cup {NoInstanceTarget}

ASSUME WorkerBounds ==
    /\ NoInstance \notin Instance /\ IsFiniteSet(Instance)
    /\ Targets \subseteq Nat /\ InitialTarget \in AnyTarget
    /\ MaxFaults \in Nat /\ MaxChanges \in Nat /\ MaxLateRenewals \in Nat

VARIABLES
    target,    \* worker_config.target_instances
    row,       \* worker_instance rows: absent, or before or past expires_at
    phase,     \* what each process is doing
    inst,      \* the instance a process runs
    begun,     \* the rows that were past expires_at when a claim or renewal began
    faults, changes, late

boundVars == <<faults, changes, late>>
vars == <<target, row, phase, inst, begun, boundVars>>

Phase == {"idle", "checked", "claiming", "working", "renewing", "draining"}

Live == {i \in Instance : row[i] = "live"}
Expired == {i \in Instance : row[i] = "expired"}

\* An id no row and no process uses.
Unused == {i \in Instance : row[i] = "none" /\ \A p \in Proc : inst[p] # i}

\* Faulty variant: off by one.
HasRoomBelow(n) == target = NoInstanceTarget \/ n + 1 < target

\* There is room for one more under the target when n rows count as live.
HasRoom(n) == target = NoInstanceTarget \/ n < target

-----------------------------------------------------------------------------
Init ==
    /\ target = InitialTarget
    /\ row = [i \in Instance |-> "none"]
    /\ phase = [p \in Proc |-> "idle"]
    /\ inst = [p \in Proc |-> NoInstance]
    /\ begun = [p \in Proc |-> {}]
    /\ faults = 0 /\ changes = 0 /\ late = 0

Fault ==
    /\ faults < MaxFaults
    /\ faults' = faults + 1
    /\ UNCHANGED <<changes, late>>

-----------------------------------------------------------------------------
(* Claiming: pool start, RegisterInstance, claimInstance. *)

\* What the unlocked read decides by.
SeesRoom == target # 0 /\ HasRoom(Cardinality(Live))

\* The unlocked read finds no room: the process asks again after its backoff.
DeclineUnlocked(p) ==
    /\ phase[p] = "idle"
    /\ ~SeesRoom
    /\ UNCHANGED vars

CheckRoom(p) ==
    /\ phase[p] = "idle"
    /\ SeesRoom
    /\ phase' = [phase EXCEPT ![p] = "checked"]
    /\ UNCHANGED <<target, row, inst, begun, boundVars>>

\* The transaction begins, which fixes its now(), and asks for the row lock.
BeginClaim(p) ==
    /\ phase[p] = "checked"
    /\ phase' = [phase EXCEPT ![p] = "claiming"]
    /\ begun' = [begun EXCEPT ![p] = Expired]
    /\ UNCHANGED <<target, row, inst, boundVars>>

\* The rows whose expires_at is after the transaction's now().
Counted(p) == {i \in Instance : row[i] # "none"} \ begun[p]

\* The lock is granted, there is room and the insert commits.  If the reply is
\* lost the row stays without anybody running it, and the call is not repeated.
InsertInstance(p, i) ==
    /\ phase[p] = "claiming"
    /\ HasRoom(Cardinality(Counted(p)))
    /\ i \in Unused
    /\ row' = [row EXCEPT ![i] = "live"]
    /\ \/ /\ phase' = [phase EXCEPT ![p] = "working"]
          /\ inst' = [inst EXCEPT ![p] = i]
          /\ UNCHANGED boundVars
       \/ /\ Fault
          /\ phase' = [phase EXCEPT ![p] = "idle"]
          /\ UNCHANGED inst
    /\ begun' = [begun EXCEPT ![p] = {}]
    /\ UNCHANGED target

\* The locked count finds the target met.
DeclineClaim(p) ==
    /\ phase[p] = "claiming"
    /\ ~HasRoom(Cardinality(Counted(p)))
    /\ phase' = [phase EXCEPT ![p] = "idle"]
    /\ begun' = [begun EXCEPT ![p] = {}]
    /\ UNCHANGED <<target, row, inst, boundVars>>

-----------------------------------------------------------------------------
(* Running: InstanceRunner.Run and its heartbeat. *)

\* The work's context is cancelled; the goroutine drains and releases.
Drain(p) == phase' = [phase EXCEPT ![p] = "draining"]

\* Faulty variant: a target of zero is not looked at.
MustStopIfLost(p) == row[inst[p]] = "none"

\* ErrInstanceLost, or ErrWorkerSuspended.
MustStop(p) == row[inst[p]] = "none" \/ target = 0

\* renewInstance begins and reads the target through the instance row.
BeginRenew(p) ==
    /\ phase[p] = "working"
    /\ ~MustStop(p)
    /\ phase' = [phase EXCEPT ![p] = "renewing"]
    /\ begun' = [begun EXCEPT ![p] = Expired]
    /\ UNCHANGED <<target, row, inst, boundVars>>

StopAtRenewal(p) ==
    /\ phase[p] = "working"
    /\ MustStop(p)
    /\ Drain(p)
    /\ UNCHANGED <<target, row, inst, begun, boundVars>>

\* Faulty variant: the row is extended whether or not it has expired.
RenewableAlways(p) == row[inst[p]] # "none"

\* The UPDATE matches a row that was not past expires_at when the transaction began.
Renewable(p) == row[inst[p]] # "none" /\ inst[p] \notin begun[p]

ApplyRenew(p) ==
    /\ phase[p] = "renewing"
    /\ Renewable(p)
    /\ row' = [row EXCEPT ![inst[p]] = "live"]
    /\ phase' = [phase EXCEPT ![p] = "working"]
    /\ begun' = [q \in Proc |-> IF q = p THEN {} ELSE begun[q] \ {inst[p]}]
    /\ UNCHANGED <<target, inst, boundVars>>

\* No row matched: ErrInstanceLost.
LoseInstance(p) ==
    /\ phase[p] = "renewing"
    /\ ~Renewable(p)
    /\ Drain(p)
    /\ begun' = [begun EXCEPT ![p] = {}]
    /\ UNCHANGED <<target, row, inst, boundVars>>

\* Any other error: the work goes on unrenewed.
FailRenew(p) ==
    /\ phase[p] = "renewing"
    /\ Fault
    /\ phase' = [phase EXCEPT ![p] = "working"]
    /\ begun' = [begun EXCEPT ![p] = {}]
    /\ UNCHANGED <<target, row, inst>>

\* The work returns, or the process is asked to stop.
EndWork(p) ==
    /\ phase[p] = "working"
    /\ Drain(p)
    /\ UNCHANGED <<target, row, inst, begun, boundVars>>

\* A tick records its outcome in a row that is gone.
RecordInLostInstance(p) ==
    /\ phase[p] = "working"
    /\ row[inst[p]] = "none"
    /\ Drain(p)
    /\ UNCHANGED <<target, row, inst, begun, boundVars>>

\* releaseInstance deletes the row that still carries the token.
Released(p) == [row EXCEPT ![inst[p]] = "none"]

ReleaseInstance(p) ==
    /\ phase[p] = "draining"
    /\ \/ /\ row' = Released(p)
          /\ begun' = [q \in Proc |-> begun[q] \ {inst[p]}]
          /\ UNCHANGED boundVars
       \/ UNCHANGED <<row, begun>> /\ Fault
    /\ phase' = [phase EXCEPT ![p] = "idle"]
    /\ inst' = [inst EXCEPT ![p] = NoInstance]
    /\ UNCHANGED target

\* The process dies and starts again; its row stays.
Crash(p) ==
    /\ phase[p] # "idle"
    /\ Fault
    /\ phase' = [phase EXCEPT ![p] = "idle"]
    /\ inst' = [inst EXCEPT ![p] = NoInstance]
    /\ begun' = [begun EXCEPT ![p] = {}]
    /\ UNCHANGED <<target, row>>

-----------------------------------------------------------------------------
(* The clock, the sweep and the operator. *)

InRenewal(i) == \E p \in Proc : phase[p] = "renewing" /\ inst[p] = i

ExpireInstance(i) ==
    /\ row[i] = "live"
    /\ \/ ~InRenewal(i) /\ UNCHANGED late
       \/ InRenewal(i) /\ late < MaxLateRenewals /\ late' = late + 1
    /\ row' = [row EXCEPT ![i] = "expired"]
    /\ UNCHANGED <<target, phase, inst, begun, faults, changes>>

\* Every manager deletes the expired rows at the end of a pass.
SweepExpiredInstances ==
    /\ Expired # {}
    /\ row' = [i \in Instance |-> IF row[i] = "expired" THEN "none" ELSE row[i]]
    /\ begun' = [p \in Proc |-> begun[p] \ Expired]
    /\ UNCHANGED <<target, phase, inst, boundVars>>

UpdateTargetInstances(n) ==
    /\ n # target
    /\ changes < MaxChanges
    /\ changes' = changes + 1
    /\ target' = n
    /\ UNCHANGED <<row, phase, inst, begun, faults, late>>

-----------------------------------------------------------------------------
ClaimStep(p) ==
    \/ DeclineUnlocked(p)
    \/ CheckRoom(p)
    \/ BeginClaim(p)
    \/ \E i \in Instance : InsertInstance(p, i)
    \/ DeclineClaim(p)

RenewStep(p) ==
    \/ BeginRenew(p)
    \/ StopAtRenewal(p)
    \/ ApplyRenew(p)
    \/ LoseInstance(p)
    \/ ReleaseInstance(p)

Next ==
    \/ \E p \in Proc : ClaimStep(p) \/ RenewStep(p) \/ FailRenew(p)
                         \/ EndWork(p) \/ RecordInLostInstance(p) \/ Crash(p)
    \/ \E i \in Instance : ExpireInstance(i)
    \/ SweepExpiredInstances
    \/ \E n \in AnyTarget : UpdateTargetInstances(n)

Spec == Init /\ [][Next]_vars

\* Managers reconcile and heartbeats beat at their poll rates; the clock moves on.
Fairness ==
    /\ \A p \in Proc : WF_vars(ClaimStep(p)) /\ WF_vars(RenewStep(p))
    /\ \A i \in Instance : WF_vars((\A p \in Proc : inst[p] # i) /\ ExpireInstance(i))
    /\ WF_vars(SweepExpiredInstances)

FairSpec == Spec /\ Fairness

-----------------------------------------------------------------------------
TypeOK ==
    /\ target \in AnyTarget
    /\ row \in [Instance -> {"none", "live", "expired"}]
    /\ phase \in [Proc -> Phase]
    /\ inst \in [Proc -> Instance \cup {NoInstance}]
    /\ begun \in [Proc -> SUBSET {i \in Instance : row[i] # "none"}]
    /\ \A p \in Proc : inst[p] # NoInstance <=> phase[p] \in {"working", "renewing", "draining"}
    /\ faults \in 0 .. MaxFaults /\ changes \in 0 .. MaxChanges /\ late \in 0 .. MaxLateRenewals

\* A row only becomes live while the live rows stay within the target.
StaysWithinTarget ==
    (\E i \in Instance : row[i] # "live" /\ row'[i] = "live")
      => target = NoInstanceTarget \/ Cardinality(Live') <= target

\* "N at most N live instances", through racing claims, renewals of rows that have
\* expired and may already be replaced, and changes of the target (instance.go
\* claimInstance and renewInstance), as long as no row expires while its renewal
\* runs.  A target that is lowered above zero stops nobody.
LiveWithinTarget == [][ late = 0 => StaysWithinTarget ]_vars

\* "renewing it past expiry would put live instances over target_instances": no
\* renewal does, also not one that runs across the expiry.
NeverOverTarget == [][ StaysWithinTarget ]_vars

\* A suspended worker stops everywhere, and stays stopped.
SuspendedStops ==
    <>[](target = 0) => <>[](\A p \in Proc : phase[p] = "idle" /\ inst[p] = NoInstance)

\* A worker that is not suspended is run in the end, whatever its holders do:
\* rows of dead holders expire and are replaced.
AlwaysReplaced ==
    <>[](target # 0) =>
        []<>(\E p \in Proc : phase[p] \in {"working", "renewing"} /\ row[inst[p]] = "live")
=============================================================================
