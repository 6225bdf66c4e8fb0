--------------------------- MODULE ScheduleStatus ---------------------------
(***************************************************************************)
(* What became of a schedule's messages, as Status and ListMessages tell   *)
(* it.                                                                     *)
(*                                                                         *)
(* A report is put together from separate statements, each with its own    *)
(* snapshot: the groups, the messages on the schedule's key, the key's     *)
(* head, then one read of the delivery log per group.  Between them the    *)
(* scheduler produces, groups run and retention sweeps.                    *)
(***************************************************************************)
EXTENDS Integers, Sequences, FiniteSets, FiniteSetsExt

CONSTANTS
    StatusGroup,    \* consumer groups of the stream
    NewestLimit,    \* ListMessages' limit
    MaxRequests     \* bound: messages produced on the schedule's key

ASSUME NewestLimitIsPositive == NewestLimit \in Nat \ {0}

VARIABLES
    requests,    \* retained messages on the key
    produced,    \* messages ever produced on the key
    headId,      \* the key's compaction head, 0 without
    receives,    \* the groups without bindings, or with one that matches
    inFlight,    \* group -> messages claimed and not finished
    outcomes,    \* group -> message -> statuses in the delivery log
    report       \* the report being put together

statusVars == <<requests, produced, headId, receives, inFlight, outcomes, report>>

Request == 1..MaxRequests
DeliveryStatus == {"success", "failure", "deferred"}  \* failure stands for expired and killed too
NoReport == [pc |-> "none"]

ScheduleStatusInit ==
    /\ requests = {} /\ produced = 0 /\ headId = 0
    /\ receives \in SUBSET StatusGroup
    /\ inFlight = [g \in StatusGroup |-> {}]
    /\ outcomes = [g \in StatusGroup |-> [m \in Request |-> {}]]
    /\ report = NoReport

(* ------------------------- the stream under it -------------------------- *)

ProduceRequest ==
    /\ produced < MaxRequests
    /\ produced' = produced + 1
    /\ requests' = requests \union {produced + 1}
    /\ headId' = produced + 1
    /\ UNCHANGED <<receives, inFlight, outcomes, report>>

\* Compaction: only the head is handed out; a claimed message stays claimed.
ClaimRequest(g) ==
    /\ g \in receives
    /\ headId \in requests \ inFlight[g]
    /\ outcomes[g][headId] \subseteq {"failure", "deferred"}
    /\ inFlight' = [inFlight EXCEPT ![g] = @ \union {headId}]
    /\ UNCHANGED <<requests, produced, headId, receives, outcomes, report>>

FinishRequest(g, m) ==
    /\ m \in inFlight[g]
    /\ inFlight' = [inFlight EXCEPT ![g] = @ \ {m}]
    /\ \E status \in DeliveryStatus :
          outcomes' = IF m \in requests THEN [outcomes EXCEPT ![g][m] = @ \union {status}] ELSE outcomes
    /\ UNCHANGED <<requests, produced, headId, receives, report>>

\* Retention takes the oldest message, its log rows, and its head row.
SweepRequest ==
    /\ requests # {}
    /\ LET m == Min(requests)
       IN /\ requests' = requests \ {m}
          /\ headId' = IF headId = m THEN 0 ELSE headId
          /\ outcomes' = [g \in StatusGroup |-> [outcomes[g] EXCEPT ![m] = {}]]
    /\ UNCHANGED <<produced, receives, inFlight, report>>

Rebind(g) ==
    /\ receives' = IF g \in receives THEN receives \ {g} ELSE receives \union {g}
    /\ UNCHANGED <<requests, produced, headId, inFlight, outcomes, report>>

(* ------------------------------ the report ------------------------------ *)

\* A faulty order: the head is read before the messages.
ReadsHeadFirst == <<"groups", "head", "messages", "outcomes">>

\* The statements of status and of listMessages, in order.
Reads == <<"groups", "messages", "head", "outcomes">>
NextRead(read) == Reads[CHOOSE i \in 2..Len(Reads) : Reads[i - 1] = read]

NewestOf(ids) == {m \in ids : Cardinality({n \in ids : n > m}) < NewestLimit}

AskForReport(kind) ==
    /\ report = NoReport
    /\ report' = [pc |-> Reads[1], kind |-> kind, groups |-> {}, messages |-> {}, head |-> 0, rows |-> <<>>]
    /\ UNCHANGED <<requests, produced, headId, receives, inFlight, outcomes>>

matchingGroups ==
    /\ report.pc = "groups"
    /\ report' = [report EXCEPT !.groups = receives, !.pc = NextRead("groups")]
    /\ UNCHANGED <<requests, produced, headId, receives, inFlight, outcomes>>

\* keyMessageIds reads the key's messages, keyMessages the newest of them.
keyMessages ==
    /\ report.pc = "messages"
    /\ report' = [report EXCEPT !.messages = IF report.kind = "status" THEN requests ELSE NewestOf(requests),
                                !.pc = NextRead("messages")]
    /\ UNCHANGED <<requests, produced, headId, receives, inFlight, outcomes>>

readHeadId ==
    /\ report.pc = "head"
    /\ report' = [report EXCEPT !.head = headId, !.pc = NextRead("head")]
    /\ UNCHANGED <<requests, produced, headId, receives, inFlight, outcomes>>

\* toScheduleMessageOutcome, and the same cases in scheduleConsumerGroupSummary
Outcome(m, statuses) ==
    IF "success" \in statuses THEN "succeeded"
    ELSE IF "failure" \in statuses THEN "failed"
    ELSE IF m # report.head THEN "superseded"
    ELSE IF "deferred" \in statuses THEN "deferred"
    ELSE "pending"

\* The message listed just above is what replaced it; the first has none.
SupersededBy(m) ==
    IF \E n \in report.messages : n > m THEN Min({n \in report.messages : n > m}) ELSE 0

messageOutcomes(g) ==
    /\ report.pc = "outcomes"
    /\ g \in report.groups
    /\ report' = [report EXCEPT
          !.groups = @ \ {g},
          !.rows = Append(@, [m \in report.messages |->
                     [outcome |-> Outcome(m, outcomes[g][m]), by |-> SupersededBy(m)]])]
    /\ UNCHANGED <<requests, produced, headId, receives, inFlight, outcomes>>

ReturnReport ==
    /\ report.pc = "outcomes" /\ report.groups = {}
    /\ report' = NoReport
    /\ UNCHANGED <<requests, produced, headId, receives, inFlight, outcomes>>

ScheduleStatusNext ==
    \/ ProduceRequest \/ SweepRequest
    \/ \E g \in StatusGroup : ClaimRequest(g) \/ Rebind(g)
    \/ \E g \in StatusGroup, m \in Request : FinishRequest(g, m)
    \/ \E kind \in {"status", "list"} : AskForReport(kind)
    \/ matchingGroups \/ keyMessages \/ readHeadId
    \/ \E g \in StatusGroup : messageOutcomes(g)
    \/ ReturnReport

ScheduleStatusSpec == ScheduleStatusInit /\ [][ScheduleStatusNext]_statusVars

-----------------------------------------------------------------------------
(***************************************************************************)
(* However the reads interleave with the scheduler, the groups and the     *)
(* janitor, a message is reported superseded only when a newer one of its  *)
(* schedule was produced, or when retention has removed it since; and the  *)
(* message said to have replaced it is newer.  It rests on the head being  *)
(* read after the messages.                                                *)
(***************************************************************************)
SupersededWasReplaced ==
    report # NoReport =>
        \A i \in DOMAIN report.rows : \A m \in DOMAIN report.rows[i] :
            LET row == report.rows[i][m] IN
            row.outcome = "superseded" =>
                /\ m < produced \/ m \notin requests
                /\ row.by # 0 => row.by \in m + 1..produced

=============================================================================
