------------------------------ MODULE LabGuards ------------------------------
(***************************************************************************)
(* The bench lab's guards: whether a run measured what it claims to.       *)
(*                                                                         *)
(* Every stream's producer walks the phases at its own pace and writes a   *)
(* started and an ended row around each; the checker cuts the run into     *)
(* windows by those rows, the earliest start to the latest end across the  *)
(* streams, and reads the guards over each window: once per phase for its  *)
(* held column, and once more for the three run-level checks.              *)
(***************************************************************************)
EXTENDS Integers, Sequences, FiniteSets, FiniteSetsExt

CONSTANTS
    PacedStream,      \* the streams produced to
    Target,           \* the stream and group pairs consumed
    Phases,           \* sequence of [warmup, unpaced, rate, duration]
    Scenario,         \* the scenarios: recording, and the want of each guard
    ScheduleTolerance,
    LastInstant       \* bound on the clock

GuardCheck == {"schedule_kept", "backlog_bounded", "generator_headroom"}

(* A guard is declared with the want "0" or "report", or not at all; a      *)
(* scenario may do without the records of its messages.                     *)
GuardScenario == [recording : BOOLEAN, want : [GuardCheck -> {"0", "report", "undeclared"}]]

ASSUME PhasesAreValid ==
    /\ Phases \in Seq([warmup : BOOLEAN, unpaced : BOOLEAN, rate : Nat, duration : Nat \ {0}])
    /\ \E i \in DOMAIN Phases : ~Phases[i].warmup
    /\ Scenario \in SUBSET GuardScenario
    /\ ScheduleTolerance \in Nat
    /\ IsFiniteSet(PacedStream) /\ IsFiniteSet(Target)

VARIABLES
    declared,      \* the scenario that runs
    instant,       \* the clock
    phase,         \* stream -> the phase it is in
    dueAt,         \* stream -> the instant of its next call, -1 between phases
    started,       \* stream -> when its phase started
    runPhase,      \* run_phase: [stream, phase, status, at]
    messagesMade,  \* produce_record: [stream, phase, scheduled, at]
    diverging,     \* the phases and targets whose backlog slope is past its tolerance
    breached,      \* the phases with a container sample past the headroom
    heldUp,        \* phase -> measured, its held column
    guards         \* what the guards say of the run

guardVars == <<declared, instant, phase, dueAt, started, runPhase, messagesMade, diverging,
               breached, heldUp, guards>>

PhaseNumber == DOMAIN Phases
Ends(s) == started[s] + Phases[phase[s]].duration

LabGuardsInit ==
    /\ declared \in Scenario
    /\ instant = 0
    /\ phase = [s \in PacedStream |-> 1]
    /\ dueAt = [s \in PacedStream |-> -1]
    /\ started = [s \in PacedStream |-> 0]
    /\ runPhase = {}
    /\ messagesMade = {}
    /\ diverging = {}
    /\ breached = {}
    /\ heldUp = [i \in {} |-> FALSE]
    /\ guards = "none"

Producing(s) == guards = "none" /\ phase[s] <= Len(Phases)

PassTime ==
    /\ guards = "none"
    /\ instant < LastInstant
    /\ instant' = instant + 1
    /\ UNCHANGED <<declared, phase, dueAt, started, runPhase, messagesMade, diverging,
                   breached, heldUp, guards>>

PhaseRow(s, status) == [stream |-> s, phase |-> phase[s], status |-> status, at |-> instant]

StartPhase(s) ==
    /\ Producing(s)
    /\ dueAt[s] = -1
    /\ runPhase' = runPhase \union {PhaseRow(s, "started")}
    /\ started' = [started EXCEPT ![s] = instant]
    /\ dueAt' = [dueAt EXCEPT ![s] = instant]
    /\ UNCHANGED <<declared, instant, phase, messagesMade, diverging, breached, heldUp, guards>>

Paced(p) == ~p.unpaced /\ p.rate > 0

(* the pacer's open loop: call i is due at start + i / rate, fired then or, *)
(* past a stall, later; without recording no attempt is written            *)
Produce(s) ==
    /\ Producing(s)
    /\ dueAt[s] # -1
    /\ dueAt[s] < Ends(s)
    /\ dueAt[s] <= instant
    /\ messagesMade' = IF declared.recording /\ Paced(Phases[phase[s]])
                   THEN messagesMade \union {[stream |-> s, phase |-> phase[s], scheduled |-> dueAt[s], at |-> instant]}
                   ELSE messagesMade
    /\ dueAt' = [dueAt EXCEPT ![s] = @ + 1]
    /\ UNCHANGED <<declared, instant, phase, started, runPhase, diverging, breached,
                   heldUp, guards>>

EndPhase(s) ==
    /\ Producing(s)
    /\ dueAt[s] # -1
    /\ dueAt[s] >= Ends(s)
    /\ instant >= Ends(s)
    /\ runPhase' = runPhase \union {PhaseRow(s, "ended")}
    /\ phase' = [phase EXCEPT ![s] = @ + 1]
    /\ dueAt' = [dueAt EXCEPT ![s] = -1]
    /\ UNCHANGED <<declared, instant, started, messagesMade, diverging, breached, heldUp,
                   guards>>

(* The producer is over, its phases finished or cut short; what the        *)
(* observer's samples of each window say is whatever it is.                *)
EndRun ==
    /\ guards = "none"
    /\ instant = LastInstant \/ \A s \in PacedStream : phase[s] > Len(Phases)
    /\ guards' = "measuring"
    /\ diverging' \in SUBSET (PhaseNumber \X Target)
    /\ breached' \in SUBSET PhaseNumber
    /\ UNCHANGED <<declared, instant, phase, dueAt, started, runPhase, messagesMade, heldUp>>

(* ------------------------------ the windows ----------------------------- *)

RowsOf(i, status) == {r.at : r \in {row \in runPhase : row.phase = i /\ row.status = status}}
Finished(i) == RowsOf(i, "started") # {} /\ RowsOf(i, "ended") # {}
From(i) == Min(RowsOf(i, "started"))
To(i) == Max(RowsOf(i, "ended"))

InWindowClosed(i, time) == From(i) <= time /\ time <= To(i)

InWindow(i, time) == From(i) <= time /\ time < To(i)

Slips(i) == {p.scheduled : p \in {q \in messagesMade : InWindow(i, q.scheduled) /\ q.at - q.scheduled > ScheduleTolerance}}

(* ------------------------------ the guards ------------------------------ *)

ScheduleApplicable(i) == declared.recording /\ Paced(Phases[i])

(* a scenario that does not mention the headroom requires it all the same   *)
HeadroomRequired == declared.want["generator_headroom"] \in {"0", "undeclared"}

(* without records nobody can say that a paced phase kept its schedule      *)
Held(i) ==
    /\ \A t \in Target : <<i, t>> \notin diverging
    /\ ScheduleApplicable(i) => Slips(i) = {}
    /\ HeadroomRequired => i \notin breached
    /\ Paced(Phases[i]) => declared.recording

MeasurePhase ==
    LET i == Cardinality(DOMAIN heldUp) + 1 IN
    /\ guards = "measuring"
    /\ i \in PhaseNumber
    /\ IF Finished(i) THEN /\ heldUp' = [j \in 1..i |-> IF j = i THEN Held(i) ELSE heldUp[j]]
                           /\ UNCHANGED guards
       ELSE guards' = "unknown" /\ UNCHANGED heldUp
    /\ UNCHANGED <<declared, instant, phase, dueAt, started, runPhase, messagesMade,
                   diverging, breached>>

Judged == {i \in PhaseNumber : ~Phases[i].warmup}

countScheduleSlips ==
    MapThenSumSet(LAMBDA i : Cardinality(Slips(i)), {i \in Judged : Paced(Phases[i])})
countDivergingPhases == Cardinality({d \in diverging : d[1] \in Judged})
countHeadroomBreaches == Cardinality(breached \intersect Judged)

(* The checks that can fail a run: declared "0", and not unavailable for    *)
(* want of records.                                                         *)
Judges(check) ==
    declared.want[check] = "0" /\ (check = "schedule_kept" => declared.recording)

CheckGuards ==
    /\ guards = "measuring"
    /\ DOMAIN heldUp = PhaseNumber
    /\ guards' = IF /\ Judges("schedule_kept") => countScheduleSlips = 0
                    /\ Judges("backlog_bounded") => countDivergingPhases = 0
                    /\ Judges("generator_headroom") => countHeadroomBreaches = 0
                 THEN "pass" ELSE "fail"
    /\ UNCHANGED <<declared, instant, phase, dueAt, started, runPhase, messagesMade, diverging,
                   breached, heldUp>>

LabGuardsNext ==
    \/ PassTime \/ EndRun \/ MeasurePhase \/ CheckGuards
    \/ \E s \in PacedStream : StartPhase(s) \/ Produce(s) \/ EndPhase(s)

LabGuardsSpec == LabGuardsInit /\ [][LabGuardsNext]_guardVars

(* A run that passes answers for its phases: what a phase's held column     *)
(* asks, the checks asked of the run.                                       *)
GuardsBind ==
    /\ Judges("schedule_kept") /\ Judges("backlog_bounded")
    /\ declared.want["generator_headroom"] /= "undeclared"

(***************************************************************************)
(* A late call counts once, in the phase it was scheduled in: with one     *)
(* stream the windows partition the run although a phase that stalls ends  *)
(* late and the next starts late.  A run that fails its guards has a       *)
(* measured phase that did not hold, whatever the scenario declares.  The  *)
(* converse, that every measured phase of a run that passes held, needs    *)
(* the schedule and the backlog declared "0", the headroom declared at     *)
(* all, and the messages recorded: otherwise the run passes over what the  *)
(* phase rows show.                                                        *)
(***************************************************************************)
GuardsFitPhases ==
    /\ guards \in {"pass", "fail"} /\ Cardinality(PacedStream) = 1 =>
          countScheduleSlips =
             Cardinality({p \in messagesMade : p.phase \in Judged /\ p.at - p.scheduled > ScheduleTolerance})
    /\ guards = "pass" /\ GuardsBind => \A i \in Judged : heldUp[i]
    /\ guards = "fail" => \E i \in Judged : ~heldUp[i]

(***************************************************************************)
(* What the report says of a warmup phase: it is excluded from the run     *)
(* guards, so no call scheduled in one fails a measured phase.             *)
(***************************************************************************)
WarmupIsExcluded ==
    guards = "fail" /\ diverging = {} /\ breached = {} =>
       \E p \in messagesMade : p.phase \in Judged /\ p.at - p.scheduled > ScheduleTolerance

=============================================================================
