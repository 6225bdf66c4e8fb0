----------------------------- MODULE LabManager ------------------------------
(***************************************************************************)
(* The bench lab's manager: repetitions of one run, each a set of child    *)
(* processes started, watched once a second, and stopped.                  *)
(*                                                                         *)
(* Any child may exit on its own at any time.  Stopping signals SIGTERM,   *)
(* once, which may fail, and kills what has not exited after its shutdown  *)
(* budget.  The manager itself may be cancelled while it waits.            *)
(***************************************************************************)
EXTENDS Integers, Sequences, FiniteSets

CONSTANTS
    ConsumerRole,    \* the consumer processes, one per replica
    Repetitions      \* runs of the scenario

ASSUME ManagerConfigIsValid ==
    /\ ConsumerRole # {} /\ Repetitions \in Nat \ {0}
    /\ ConsumerRole \intersect {"observer", "producer", "checker"} = {}

VARIABLES
    step,        \* where run stands
    process,     \* role -> its process
    codes,       \* the exit codes of the repetitions so far
    worst,       \* Run's worst verdict
    outcome      \* what Run returned: "none", "error", or a code

managerVars == <<step, process, codes, worst, outcome>>

Role == ConsumerRole \union {"observer", "producer", "checker"}

(* stopping is how its one signal went: "none" yet, "sent" or "failed" *)
Unstarted == [state |-> "unstarted", code |-> 0, stopping |-> "none"]

LabManagerInit ==
    /\ step = "start"
    /\ process = [r \in Role |-> Unstarted]
    /\ codes = <<>>
    /\ worst = 0
    /\ outcome = "none"

Running(r) == process[r].state = "running"
Exited(r) == process[r].state = "exited"

(* newProcess: exec, and a goroutine that waits for the exit *)
Start(roles) ==
    process' = [r \in Role |-> IF r \in roles THEN [Unstarted EXCEPT !.state = "running"] ELSE process[r]]

StartConsumers ==
    /\ step = "start"
    /\ Start(ConsumerRole \union {"observer"})
    /\ step' = "settle"
    /\ UNCHANGED <<codes, worst, outcome>>

StartProducer ==
    /\ step = "settle"
    /\ Start({"producer"})
    /\ step' = "producing"
    /\ UNCHANGED <<codes, worst, outcome>>

(* the code of an exited child; a signal's death is no code of the lab     *)
Codes(r) == IF r = "checker" THEN {-1, 0, 1, 2, 3} ELSE IF r = "producer" THEN {0, 1} ELSE {0}

ExitOnItsOwn(r) ==
    /\ Running(r)
    /\ \E c \in Codes(r) : process' = [process EXCEPT ![r].state = "exited", ![r].code = c]
    /\ UNCHANGED <<step, codes, worst, outcome>>

(* the roles whose early exit ends the wait *)
StandBy == IF step = "producing" THEN ConsumerRole \union {"observer"} ELSE ConsumerRole

Fail == step' = "stopping" /\ outcome' = "error"

(* the tick: every role that must stand by is looked at *)
LookAtRoles ==
    /\ step \in {"producing", "checking"}
    /\ \E r \in StandBy : Exited(r)
    /\ Fail
    /\ UNCHANGED <<process, codes, worst>>

ProducerEnded ==
    /\ step = "producing"
    /\ Exited("producer")
    /\ IF process["producer"].code = 0 THEN step' = "observed" /\ UNCHANGED outcome ELSE Fail
    /\ UNCHANGED <<process, codes, worst>>

(* stopRole: the observer's samples are complete before the checker reads. *)
(* A signal that fails ends the run without a wait for the observer.       *)
SignalObserver ==
    /\ step = "observed"
    /\ Running("observer")
    /\ process["observer"].stopping = "none"
    /\ \/ /\ process' = [process EXCEPT !["observer"].stopping = "sent"]
          /\ UNCHANGED <<step, outcome>>
       \/ /\ process' = [process EXCEPT !["observer"].stopping = "failed"]
          /\ Fail
    /\ UNCHANGED <<codes, worst>>

StartChecker ==
    /\ step = "observed"
    /\ Exited("observer")
    /\ Start({"checker"})
    /\ step' = "checking"
    /\ UNCHANGED <<codes, worst, outcome>>

CheckerEnded ==
    /\ step = "checking"
    /\ Exited("checker")
    /\ IF process["checker"].code < 0 THEN Fail /\ UNCHANGED codes
       ELSE /\ step' = "stopping"
            /\ codes' = Append(codes, process["checker"].code)
            /\ UNCHANGED outcome
    /\ UNCHANGED <<process, worst>>

Cancel ==
    /\ step \in {"settle", "producing", "checking"}
    /\ Fail
    /\ UNCHANGED <<process, codes, worst>>

(* The deferred stop: all are signalled before any is waited for, a second  *)
(* time none is, and a signal that fails is an error of the run.            *)
SignalAll ==
    /\ step = "stopping"
    /\ \E unreached \in SUBSET {r \in Role : Running(r) /\ process[r].stopping = "none"} :
          /\ process' = [r \in Role |->
                IF Running(r) /\ process[r].stopping = "none"
                THEN [process[r] EXCEPT !.stopping = IF r \in unreached THEN "failed" ELSE "sent"]
                ELSE process[r]]
          /\ outcome' = IF unreached = {} THEN outcome ELSE "error"
    /\ step' = "stopped"
    /\ UNCHANGED <<codes, worst>>

ExitWhenSignalled(r) ==
    /\ Running(r)
    /\ process[r].stopping = "sent"
    /\ process' = [process EXCEPT ![r].state = "exited"]
    /\ UNCHANGED <<step, codes, worst, outcome>>

(* the budget is spent, whether or not the signal was sent *)
Kill(r) ==
    /\ \/ step = "stopped" /\ process[r].stopping # "none"
       \/ step = "observed" /\ r = "observer" /\ process[r].stopping = "sent"
    /\ Running(r)
    /\ process' = [process EXCEPT ![r].state = "exited", ![r].code = -1]
    /\ UNCHANGED <<step, codes, worst, outcome>>

StopWaits == \A r \in Role : ~Running(r)

WorstByNumber(code) == IF code > worst THEN code ELSE worst

(* failure outranks unknown *)
Worst(code) ==
    IF code = 3 \/ (code = 1 /\ worst # 3) \/ (code = 2 /\ worst = 0) THEN code ELSE worst

NextRepetition ==
    /\ step = "stopped"
    /\ StopWaits
    /\ IF outcome = "error" THEN step' = "done" /\ UNCHANGED <<process, worst, outcome>>
       ELSE /\ worst' = Worst(codes[Len(codes)])
            /\ IF Len(codes) = Repetitions
               THEN step' = "done" /\ outcome' = "verdict" /\ UNCHANGED process
               ELSE /\ step' = "start"
                    /\ process' = [r \in Role |-> Unstarted]
                    /\ UNCHANGED outcome
    /\ UNCHANGED codes

LabManagerNext ==
    \/ StartConsumers \/ StartProducer \/ LookAtRoles \/ ProducerEnded
    \/ SignalObserver \/ StartChecker \/ CheckerEnded \/ Cancel \/ SignalAll \/ NextRepetition
    \/ \E r \in Role : ExitOnItsOwn(r) \/ ExitWhenSignalled(r) \/ Kill(r)

LabManagerSpec == LabManagerInit /\ [][LabManagerNext]_managerVars

(***************************************************************************)
(* A repetition starts, and Run returns, only with every child of the one  *)
(* before gone, whatever exited, hung or was cancelled; a verdict is the   *)
(* worst of as many checker exits as there were repetitions, a failure     *)
(* outranking an unknown.                                                  *)
(***************************************************************************)
RunIsAccountedFor ==
    /\ step \in {"start", "done"} => \A r \in Role : ~Running(r)
    /\ outcome = "verdict" =>
          /\ Len(codes) = Repetitions
          /\ \A i \in DOMAIN codes : codes[i] = 1 => worst \in {1, 3}
          /\ worst = 0 <=> \A i \in DOMAIN codes : codes[i] = 0

=============================================================================
