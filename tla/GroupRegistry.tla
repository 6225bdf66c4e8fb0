---------------------------- MODULE GroupRegistry ----------------------------
(***************************************************************************)
(* One consumer group of a stream: its registration by several processes,  *)
(* the binding set each of them declares, the ledger of declarations       *)
(* (binding_config_log), the set the claims read (binding_config) and the  *)
(* group's destruction.                                                    *)
(*                                                                         *)
(* Register states the set once; Consume states it again until it is       *)
(* installed or joined and only then starts the instances whose heartbeats *)
(* make the group live for the next declarer.                              *)
(***************************************************************************)
EXTENDS Integers, Sequences, FiniteSets, FiniteSetsExt

CONSTANTS
    Declarer,       \* processes that register the group, one instance each
    SetOf,          \* the binding set each of them declares
    NoSet,          \* no declaration is stored: the whole stream
    NoDeclarer,
    MaxGroupId,     \* bound: group rows ever inserted
    MaxDeclarations \* bound: ledger rows ever appended

ASSUME GroupRegistryBounds ==
    /\ MaxGroupId \in Nat \ {0} /\ MaxDeclarations \in Nat
    /\ NoDeclarer \notin Declarer
    /\ \A p \in Declarer : SetOf[p] # NoSet

NoGroup == 0

VARIABLES
    group,       \* id of the group's row, or NoGroup
    groupIds,    \* ids drawn
    groupLock,   \* holder of the advisory lock of the (stream, name) pair
    ledger,      \* binding_config_log, oldest row first
    declared,    \* rows ever appended
    bound,       \* binding_config: the set the claims of the group read
    session,     \* what each process is doing
    resolved,    \* the group id each process resolved
    judging,     \* the declaration that holds the lock on the group's row
    live,        \* processes with an unexpired worker_instance row
    destroy      \* the group id DestroyConsumer found idle, or NoGroup

groupRegistryVars ==
    <<group, groupIds, groupLock, ledger, declared, bound, session, resolved,
      judging, live, destroy>>
ledgerVars == <<ledger, declared, bound>>

NotJudging == [by |-> NoDeclarer, outcome |-> "none"]

GroupRegistryInit ==
    /\ group = NoGroup /\ groupIds = 0 /\ groupLock = NoDeclarer
    /\ ledger = <<>> /\ declared = 0 /\ bound = NoSet
    /\ session = [p \in Declarer |-> "start"]
    /\ resolved = [p \in Declarer |-> NoGroup]
    /\ judging = NotJudging
    /\ live = {} /\ destroy = NoGroup

Goto(p, state) == session' = [session EXCEPT ![p] = state]

-----------------------------------------------------------------------------
(* registerGroup. *)

FindGroup(p) ==
    /\ session[p] = "start"
    /\ IF group = NoGroup
       THEN Goto(p, "locking") /\ UNCHANGED resolved
       ELSE Goto(p, "declaring") /\ resolved' = [resolved EXCEPT ![p] = group]
    /\ UNCHANGED <<group, groupIds, groupLock, ledgerVars, judging, live, destroy>>

LockGroup(p) ==
    /\ session[p] = "locking"
    /\ groupLock = NoDeclarer
    /\ groupLock' = p
    /\ Goto(p, "locked")
    /\ UNCHANGED <<group, groupIds, ledgerVars, resolved, judging, live, destroy>>

\* The lookup under the lock is left out.
AlreadyRegisteredNever == FALSE

AlreadyRegistered == group # NoGroup

\* Re-check, insert, commit.  The insert of a name that is taken would fail.
InsertGroup(p) ==
    /\ session[p] = "locked"
    /\ groupLock' = NoDeclarer
    /\ \/ /\ AlreadyRegistered
          /\ resolved' = [resolved EXCEPT ![p] = group]
          /\ Goto(p, "declaring")
          /\ UNCHANGED <<group, groupIds>>
       \/ /\ ~AlreadyRegistered /\ group = NoGroup
          /\ groupIds < MaxGroupId
          /\ groupIds' = groupIds + 1 /\ group' = groupIds'
          /\ resolved' = [resolved EXCEPT ![p] = group']
          /\ Goto(p, "declaring")
       \/ /\ ~AlreadyRegistered /\ group # NoGroup
          /\ Goto(p, "conflict")
          /\ UNCHANGED <<group, groupIds, resolved>>
    /\ UNCHANGED <<ledgerVars, judging, live, destroy>>

-----------------------------------------------------------------------------
(* declareBindings, under the lock on the group's row. *)

Installed == {i \in DOMAIN ledger : ledger[i].status = "installed"}

\* The oldest installed row.
NewestInstalledDeclarationFirst == Min(Installed)

NewestInstalledDeclaration == Max(Installed)

StoredSet ==
    IF Installed = {} THEN NoSet ELSE ledger[NewestInstalledDeclaration].set

classifyDeclaration(p) ==
    IF StoredSet = NoSet THEN "installed"
    ELSE IF StoredSet = SetOf[p] THEN "joined"
    ELSE IF live = {} THEN "installed"
    ELSE "waiting"

\* The row lock, the ledger and the heartbeats as this transaction reads them.
JudgeDeclaration(p) ==
    /\ session[p] \in {"declaring", "registered", "waiting"}
    /\ judging.by = NoDeclarer
    /\ IF resolved[p] = group
       THEN judging' = [by |-> p, outcome |-> classifyDeclaration(p)] /\ UNCHANGED session
       ELSE Goto(p, "failed") /\ UNCHANGED judging
    /\ UNCHANGED <<group, groupIds, groupLock, ledgerVars, resolved, live, destroy>>

appendDeclaration(p, status) ==
    /\ declared < MaxDeclarations
    /\ declared' = declared + 1
    /\ ledger' = Append(ledger, [status |-> status, by |-> p, set |-> SetOf[p]])

\* Register attempts once and returns whatever the outcome; Consume attempts
\* every BindingRetryInterval until the set is installed or joined.
AfterDeclaration(p, outcome) ==
    IF session[p] = "declaring" THEN "registered"
    ELSE IF outcome = "waiting" THEN "waiting"
    ELSE "starting"

CommitDeclaration(p) ==
    /\ judging.by = p
    /\ CASE judging.outcome = "joined"    -> UNCHANGED ledgerVars
         [] judging.outcome = "waiting"   -> appendDeclaration(p, "waiting") /\ UNCHANGED bound
         [] judging.outcome = "installed" -> appendDeclaration(p, "installed") /\ bound' = SetOf[p]
    /\ Goto(p, AfterDeclaration(p, judging.outcome))
    /\ judging' = NotJudging
    /\ UNCHANGED <<group, groupIds, groupLock, resolved, live, destroy>>

-----------------------------------------------------------------------------
(* The instance's life: WorkerInstances models its heartbeats in full. *)

\* The manager's first heartbeat: the instance's worker rows belong to the group.
StartInstance(p) ==
    /\ session[p] = "starting"
    /\ IF resolved[p] = group
       THEN live' = live \cup {p} /\ Goto(p, "running")
       ELSE live' = live /\ Goto(p, "failed")
    /\ UNCHANGED <<group, groupIds, groupLock, ledgerVars, resolved, judging, destroy>>

\* A requested stop, in any phase of Consume; a running instance releases.
StopInstance(p) ==
    /\ judging.by # p
    /\ session[p] \in {"registered", "waiting", "starting", "running"}
    /\ live' = live \ {p}
    /\ Goto(p, "stopped")
    /\ UNCHANGED <<group, groupIds, groupLock, ledgerVars, resolved, judging, destroy>>

\* A crash leaves the row to expire.
CrashInstance(p) ==
    /\ session[p] = "running"
    /\ Goto(p, "stopped")
    /\ UNCHANGED <<group, groupIds, groupLock, ledgerVars, resolved, judging, live, destroy>>

ExpireInstance(p) ==
    /\ p \in live /\ session[p] = "stopped"
    /\ live' = live \ {p}
    /\ UNCHANGED <<group, groupIds, groupLock, ledgerVars, session, resolved, judging, destroy>>

\* The next heartbeat of an instance whose group is gone.
NoticeDestroyed(p) ==
    /\ session[p] = "running" /\ resolved[p] # group
    /\ Goto(p, "failed")
    /\ UNCHANGED <<group, groupIds, groupLock, ledgerVars, resolved, judging, live, destroy>>

-----------------------------------------------------------------------------
(* Destruction, and the janitor of the ledger. *)

\* assertConsumerGroupIdle, unless the caller forces.
FindIdle(force) ==
    /\ destroy = NoGroup /\ group # NoGroup
    /\ force \/ live = {}
    /\ destroy' = group
    /\ UNCHANGED <<group, groupIds, groupLock, ledgerVars, session, resolved, judging, live>>

\* deleteGroup: the ledger, the bindings and the instances cascade.
DeleteGroup ==
    /\ destroy # NoGroup
    /\ judging.by = NoDeclarer
    /\ group' = NoGroup /\ ledger' = <<>> /\ bound' = NoSet /\ live' = {}
    /\ destroy' = NoGroup
    /\ UNCHANGED <<groupIds, groupLock, declared, session, resolved, judging>>

WaitingOf(p) == {i \in DOMAIN ledger : ledger[i].status = "waiting" /\ ledger[i].by = p}

\* The declarer's newest row is not kept.
SweptWaitingAll(i) == ledger[i].status = "waiting"

\* The status is not looked at.
SweptWaitingAny(i) == i < Len(ledger)

\* A waiting row past its ttl, unless it is its declarer's newest.
SweptWaiting(i) ==
    /\ ledger[i].status = "waiting"
    /\ i < Max(WaitingOf(ledger[i].by))

SweepWaiting(i) ==
    /\ i \in DOMAIN ledger /\ SweptWaiting(i)
    /\ ledger' = SubSeq(ledger, 1, i - 1) \o SubSeq(ledger, i + 1, Len(ledger))
    /\ UNCHANGED <<group, groupIds, groupLock, declared, bound, session, resolved,
                   judging, live, destroy>>

RegisterGroup(p) == FindGroup(p) \/ LockGroup(p) \/ InsertGroup(p)
DeclareBindings(p) == JudgeDeclaration(p) \/ CommitDeclaration(p)
Consume(p) ==
    StartInstance(p) \/ StopInstance(p) \/ CrashInstance(p) \/ NoticeDestroyed(p)
DestroyConsumer == (\E force \in BOOLEAN : FindIdle(force)) \/ DeleteGroup

GroupRegistryNext ==
    \/ \E p \in Declarer :
         RegisterGroup(p) \/ DeclareBindings(p) \/ Consume(p) \/ ExpireInstance(p)
    \/ DestroyConsumer
    \/ \E i \in 1 .. MaxDeclarations : SweepWaiting(i)

GroupRegistrySpec == GroupRegistryInit /\ [][GroupRegistryNext]_groupRegistryVars

-----------------------------------------------------------------------------
(* Properties. *)

\* Processes that register one group at the same time never see each other as
\* an error: the advisory lock and the second lookup under it make one of them
\* create the row and the others return it, also while the group is being
\* destroyed (registerGroup).
NoRegistrationConflict == \A p \in Declarer : session[p] # "conflict"

\* The set the claims read is the one the ledger says is in effect, whatever
\* installs, destroys and sweeps have interleaved: the listings and the next
\* declarer judge by the ledger, the claims filter by binding_config.
ClaimsReadTheLedger == bound = StoredSet

\* openWaiters: a row of the ledger whose declarer is still blocked.
Listed(p) ==
    \E i \in WaitingOf(p) :
        /\ ~\E j \in Installed : ledger[j].by = p /\ j > i
        /\ SetOf[p] # StoredSet

\* A process that waits for another set's instances to stop is seen in the
\* listing until its own set is in effect: the janitor never prunes the row
\* that shows it.
WaiterIsListed ==
    \A p \in Declarer :
        session[p] = "waiting" /\ resolved[p] = group =>
            Listed(p) \/ SetOf[p] = StoredSet

\* A running instance works under the set it declared: two applications that
\* share a group never run under each other's bindings.
RunsItsOwnSet ==
    \A p \in live : session[p] = "running" => bound = SetOf[p]
=============================================================================
