------------------------------ MODULE LabVerdict ------------------------------
(***************************************************************************)
(* The bench lab's verdict on one run.                                     *)
(*                                                                         *)
(* The recording producer and handlers write what they saw to record       *)
(* files; the library keeps its own tables; once the producer has ended,   *)
(* the checker loads the records, waits until every group has drained,     *)
(* and only then loads the handler records and joins the two.  The library *)
(* under judgement may misbehave here: each way it does is remembered in   *)
(* fault, so that a verdict can be held against what really happened.      *)
(***************************************************************************)
EXTENDS Integers, Sequences, FiniteSets, FiniteSetsExt

CONSTANTS
    Key,              \* the keys the producer attempts, <producer>-<sequence>
    Groups,           \* the consumer groups of the stream, in declaration order
    Expect,           \* the [expect] section: a sequence of [check, want]
    DisableMessageRecording,
    MaxRetries,       \* retries of a message before it is dead
    MaxFaults,        \* bound: misdeeds of the library
    MaxRedeliveries   \* bound: deliveries lost after the handler ran

ASSUME ScenarioIsValid ==
    /\ IsFiniteSet(Key)
    /\ Groups \in Seq(STRING) /\ Len(Groups) > 0
    /\ Expect \in Seq([check : STRING, want : {"0", "report"}])
    /\ \A c \in {"lost", "unexpected", "undelivered", "unbucketed"} :
          \E i \in DOMAIN Expect : Expect[i] = [check |-> c, want |-> "0"]

VARIABLES
    answer,        \* key -> what the producer's records say of it
    log,           \* message_log: the key of each id
    rows,          \* the ids whose row is still there
    expired,       \* the keys whose row retention dropped
    agedRecords,   \* the keys whose record is older than the retention TTL
    hasty,         \* history: the expired keys whose record had not aged by then
    delivery,      \* group, id -> where the delivery stands
    attempts,      \* group, id -> attempts that failed
    successes,     \* group, id -> success rows in the handler files
    reclaimed,     \* group -> ids logged 'expired'
    cursor,        \* group -> committed
    fault,         \* what the library has done wrong
    stage,         \* where the checker stands
    at,            \* the target it drains, the expectation it checks
    handled,       \* handler_record as loaded
    checkResults,  \* the results so far
    verdict        \* the verdict, "" before there is one

labVars == <<answer, log, rows, expired, agedRecords, hasty, delivery, attempts, successes, reclaimed,
             cursor, fault, stage, at, handled, checkResults, verdict>>

Group == {Groups[i] : i \in DOMAIN Groups}
RowId == 1..Cardinality(Key)
Highest(ids) == Max(ids \union {0})

LabVerdictInit ==
    /\ answer = [k \in Key |-> "none"]
    /\ log = <<>>
    /\ rows = {}
    /\ expired = {}
    /\ agedRecords = {}
    /\ hasty = {}
    /\ delivery = [g \in Group |-> [i \in RowId |-> "fresh"]]
    /\ attempts = [g \in Group |-> [i \in RowId |-> 0]]
    /\ successes = [g \in Group |-> [i \in RowId |-> 0]]
    /\ reclaimed = [g \in Group |-> {}]
    /\ cursor = [g \in Group |-> 0]
    /\ fault = {}
    /\ stage = "producing"
    /\ at = 0
    /\ handled = [success |-> successes, error |-> attempts]
    /\ checkResults = <<>>
    /\ verdict = ""

checkerVars == <<stage, at, handled, checkResults, verdict>>
ageVars == <<expired, agedRecords, hasty>>
deliveryVars == <<delivery, attempts, successes, reclaimed, cursor>>

(* ---------------------------- the producer ----------------------------- *)

Landed(k) == \E i \in DOMAIN log : log[i] = k

(* the attempt is on disk before the library is called *)
Attempt(k) ==
    /\ stage = "producing"
    /\ answer[k] = "none"
    /\ answer' = [answer EXCEPT ![k] = "attempted"]
    /\ UNCHANGED <<log, rows, ageVars, deliveryVars, fault, checkerVars>>

Land(k) ==
    /\ answer[k] = "attempted"
    /\ ~Landed(k)
    /\ log' = Append(log, k)
    /\ rows' = rows \union {Len(log) + 1}
    /\ UNCHANGED <<answer, ageVars, deliveryVars, fault, checkerVars>>

(* What classify may make of the library's answer: a declared error stands *)
(* for a row that is not there, anything else lost leaves it open; a retry *)
(* inside the library that finds its own row reports a duplicate.          *)
Outcomes(k) ==
    IF Landed(k) THEN {"committed", "duplicate", "unknown"} ELSE {"rejected", "unknown"}

RecordHandled(k) ==
    /\ answer[k] = "attempted"
    /\ \E outcome \in Outcomes(k) : answer' = [answer EXCEPT ![k] = outcome]
    /\ UNCHANGED <<log, rows, ageVars, deliveryVars, fault, checkerVars>>

EndProducing ==
    /\ stage = "producing"
    /\ \A k \in Key : answer[k] \notin {"none", "attempted"}
    /\ stage' = "loading"
    /\ UNCHANGED <<answer, log, rows, ageVars, deliveryVars, fault, at, handled, checkResults, verdict>>

(* ---------------------------- the consumers ---------------------------- *)

Deliverable(g, i) == i \in rows /\ delivery[g][i] \in {"fresh", "ready"}

(* the success row is in the file before the delivery is committed *)
HandleSuccess(g, i) ==
    /\ Deliverable(g, i)
    /\ successes' = [successes EXCEPT ![g][i] = @ + 1]
    /\ delivery' = [delivery EXCEPT ![g][i] = "handled"]
    /\ UNCHANGED <<answer, log, rows, ageVars, attempts, reclaimed, cursor, fault, checkerVars>>

HandleError(g, i) ==
    /\ Deliverable(g, i)
    /\ attempts' = [attempts EXCEPT ![g][i] = @ + 1]
    /\ delivery' = [delivery EXCEPT ![g][i] = IF attempts[g][i] < MaxRetries THEN "ready" ELSE "dead"]
    /\ UNCHANGED <<answer, log, rows, ageVars, successes, reclaimed, cursor, fault, checkerVars>>

CommitDelivery(g, i) ==
    /\ delivery[g][i] = "handled"
    /\ delivery' = [delivery EXCEPT ![g][i] = "done"]
    /\ UNCHANGED <<answer, log, rows, ageVars, attempts, successes, reclaimed, cursor, fault, checkerVars>>

(* the lease ran out with the handler's outcome not committed *)
Reclaim(g, i) ==
    /\ delivery[g][i] = "handled"
    /\ Cardinality(UNION {{<<h, j>> : j \in reclaimed[h]} : h \in Group}) < MaxRedeliveries
    /\ delivery' = [delivery EXCEPT ![g][i] = IF attempts[g][i] > 0 THEN "ready" ELSE "fresh"]
    /\ reclaimed' = [reclaimed EXCEPT ![g] = @ \union {i}]
    /\ UNCHANGED <<answer, log, rows, ageVars, attempts, successes, cursor, fault, checkerVars>>

Passed(g, i) == delivery[g][i] \in {"done", "dead", "abandoned"} \/ i \notin rows

AdvanceCursor(g) ==
    /\ cursor[g] < Len(log)
    /\ Passed(g, cursor[g] + 1)
    /\ cursor' = [cursor EXCEPT ![g] = @ + 1]
    /\ UNCHANGED <<answer, log, rows, ageVars, delivery, attempts, successes, reclaimed, fault, checkerVars>>

(* a record ages by its own time, that of the reply, whatever its row does  *)
AgeRecord(k) ==
    /\ answer[k] \notin {"none", "attempted"}
    /\ k \notin agedRecords
    /\ agedRecords' = agedRecords \union {k}
    /\ UNCHANGED <<answer, log, rows, expired, hasty, deliveryVars, fault, checkerVars>>

(* retention drops a row every group has passed, by the row's time: the     *)
(* reply, and so the record, may be younger                                 *)
ExpireRow(i) ==
    /\ i \in rows
    /\ \A g \in Group : i <= cursor[g]
    /\ rows' = rows \ {i}
    /\ expired' = expired \union {log[i]}
    /\ hasty' = hasty \union ({log[i]} \ agedRecords)
    /\ UNCHANGED <<answer, log, agedRecords, deliveryVars, fault, checkerVars>>

(* ------------------------- a library at fault -------------------------- *)

MayFault == stage \in {"producing", "loading", "draining"} /\ Cardinality(fault) < MaxFaults

(* a row whose produce was confirmed is gone *)
LoseRow(i) ==
    /\ MayFault
    /\ i \in rows
    /\ answer[log[i]] \in {"committed", "duplicate"}
    /\ \A g \in Group : i > cursor[g]
    /\ rows' = rows \ {i}
    /\ fault' = fault \union {"lost"}
    /\ UNCHANGED <<answer, log, ageVars, deliveryVars, checkerVars>>

(* a produce reported rejected has its row *)
LandRejected(k) ==
    /\ MayFault
    /\ answer[k] = "attempted"
    /\ Landed(k)
    /\ answer' = [answer EXCEPT ![k] = "rejected"]
    /\ fault' = fault \union {"unexpected"}
    /\ UNCHANGED <<log, rows, ageVars, deliveryVars, checkerVars>>

(* a delivery is recorded a success and its handler never succeeded *)
SkipHandler(g, i) ==
    /\ MayFault
    /\ delivery[g][i] = "fresh"
    /\ i \in rows
    /\ successes[g][i] = 0
    /\ delivery' = [delivery EXCEPT ![g][i] = "done"]
    /\ fault' = fault \union {"skipped"}
    /\ UNCHANGED <<answer, log, rows, ageVars, attempts, successes, reclaimed, cursor, checkerVars>>

(* the cursor passes an exception that is neither done nor dead *)
AbandonException(g, i) ==
    /\ MayFault
    /\ delivery[g][i] = "ready"
    /\ i \in rows
    /\ delivery' = [delivery EXCEPT ![g][i] = "abandoned"]
    /\ fault' = fault \union {"abandoned"}
    /\ UNCHANGED <<answer, log, rows, ageVars, attempts, successes, reclaimed, cursor, checkerVars>>

(* ----------------------------- the checks ------------------------------ *)

Committed == {k \in Key : answer[k] \in {"committed", "duplicate"}}
IdOf(k) == CHOOSE i \in DOMAIN log : log[i] = k
RowKeys == {log[i] : i \in rows}

\* Only the rows that are still there.
MessagesOfRows == rows

(* the ids a delivery check asks about: the rows there are, and those a    *)
(* committed record names, a duplicate's record naming none                *)
Messages == rows \union {IdOf(k) : k \in {c \in Key : answer[c] = "committed"}}

CountLost == Cardinality({k \in Committed : k \notin RowKeys /\ k \notin agedRecords})
CountUnexpected == Cardinality({i \in rows : answer[log[i]] \notin {"committed", "duplicate", "unknown"}})
CountRecovered == Cardinality({k \in RowKeys : answer[k] = "unknown"})
CountUndelivered(g) == Cardinality({i \in Messages : handled.success[g][i] = 0 /\ delivery[g][i] # "dead"})
CountDuplicates(g) == Cardinality({i \in RowId : handled.success[g][i] > 1})
CountReclaims(g) == Cardinality(reclaimed[g])
CountDead(g) == Cardinality({i \in RowId : delivery[g][i] = "dead"})

OpenException(g, i) ==
    delivery[g][i] \in {"ready", "abandoned", "dead"} \/ (delivery[g][i] = "handled" /\ attempts[g][i] > 0)
CountUnbucketed(g) ==
    Cardinality({i \in Messages : (i <= cursor[g] /\ ~OpenException(g, i)) = (delivery[g][i] = "dead")})

sumOverTargets(count) == MapThenSumSet(LAMBDA g : count[g], Group)

CountErrors ==
    Cardinality({k \in Key : answer[k] \in {"rejected", "unknown"}})
    + sumOverTargets([g \in Group |-> MapThenSumSet(LAMBDA i : handled.error[g][i], RowId)])

Count(check) ==
    CASE check = "errors" -> CountErrors
      [] check = "lost" -> CountLost
      [] check = "unexpected" -> CountUnexpected
      [] check = "recovered" -> CountRecovered
      [] check = "undelivered" -> sumOverTargets([g \in Group |-> CountUndelivered(g)])
      [] check = "duplicates" -> sumOverTargets([g \in Group |-> CountDuplicates(g)])
      [] check = "unbucketed" -> sumOverTargets([g \in Group |-> CountUnbucketed(g)])
      [] check = "reclaims" -> sumOverTargets([g \in Group |-> CountReclaims(g)])
      [] check = "dead" -> sumOverTargets([g \in Group |-> CountDead(g)])

(* ----------------------------- the checker ----------------------------- *)

Unknown(reason) ==
    /\ verdict' = "unknown"
    /\ stage' = "judged"
    /\ UNCHANGED <<at, handled, checkResults>>

libraryVars == <<answer, log, rows, ageVars, deliveryVars, fault>>

(* LoadProduce, then ReadProduceSummary *)
LoadProduce ==
    /\ stage = "loading"
    /\ IF Committed = {} THEN Unknown("nothing was produced")
       ELSE /\ stage' = "draining"
            /\ at' = 1
            /\ UNCHANGED <<handled, checkResults, verdict>>
    /\ UNCHANGED libraryVars

HighestMessage ==
    Max({Highest({IdOf(k) : k \in {c \in Key : answer[c] = "committed"}}), Highest(rows)})

Drained(g) == cursor[g] >= HighestMessage

DrainTarget ==
    /\ stage = "draining"
    /\ at <= Len(Groups)
    /\ Drained(Groups[at])
    /\ at' = at + 1
    /\ UNCHANGED <<libraryVars, stage, handled, checkResults, verdict>>

DrainBudgetSpent ==
    /\ stage = "draining"
    /\ at <= Len(Groups)
    /\ ~Drained(Groups[at])
    /\ Unknown("drain budget spent")
    /\ UNCHANGED libraryVars

\* The handler files are loaded with the other records.
HandlersCompleteAtOnce == stage = "draining"

(* only with every group drained are the handler files complete *)
HandlersComplete == stage = "draining" /\ at > Len(Groups)

LoadHandler ==
    /\ HandlersComplete
    /\ handled' = [success |-> successes, error |-> attempts]
    /\ stage' = "checking"
    /\ at' = 1
    /\ UNCHANGED <<libraryVars, checkResults, verdict>>

RequiresMessageRecording(check) ==
    check \in {"lost", "unexpected", "recovered", "undelivered", "duplicates", "unbucketed"}

newCheckResult(want, count) ==
    IF want = "report" THEN "report" ELSE IF count = 0 THEN "pass" ELSE "fail"

Check ==
    /\ stage = "checking"
    /\ at <= Len(Expect)
    /\ checkResults' = Append(checkResults,
          IF DisableMessageRecording /\ RequiresMessageRecording(Expect[at].check) THEN "unavailable"
          ELSE newCheckResult(Expect[at].want, Count(Expect[at].check)))
    /\ at' = at + 1
    /\ UNCHANGED <<libraryVars, stage, handled, verdict>>

(* a query, a file or a line fails *)
CheckFails ==
    /\ stage \in {"loading", "draining", "checking"}
    /\ Unknown("query")
    /\ UNCHANGED libraryVars

statusOf(all) == IF \E i \in DOMAIN all : all[i] = "fail" THEN "fail" ELSE "pass"

Judge ==
    /\ stage = "checking"
    /\ at > Len(Expect)
    /\ verdict' = statusOf(checkResults)
    /\ stage' = "judged"
    /\ UNCHANGED <<libraryVars, at, handled, checkResults>>

LabVerdictNext ==
    \/ \E k \in Key : Attempt(k) \/ Land(k) \/ RecordHandled(k) \/ LandRejected(k) \/ AgeRecord(k)
    \/ EndProducing
    \/ \E g \in Group, i \in DOMAIN log :
          \/ HandleSuccess(g, i) \/ HandleError(g, i) \/ CommitDelivery(g, i)
          \/ Reclaim(g, i) \/ SkipHandler(g, i) \/ AbandonException(g, i)
    \/ \E g \in Group : AdvanceCursor(g)
    \/ \E i \in DOMAIN log : ExpireRow(i) \/ LoseRow(i)
    \/ LoadProduce \/ DrainTarget \/ DrainBudgetSpent \/ LoadHandler
    \/ Check \/ CheckFails \/ Judge

LabVerdictSpec == LabVerdictInit /\ [][LabVerdictNext]_labVars

LostRows == {i \in DOMAIN log \ rows : log[i] \notin expired}
Handled(i) == \A g \in Group : successes[g][i] > 0 \/ delivery[g][i] = "dead"

(* What the records no longer show: an expired row of which no record names *)
(* the id, and a lost row whose record has aged, unless a group misses its  *)
(* message and the record names it.                                         *)
Hidden ==
    \/ \E k \in expired : answer[k] # "committed"
    \/ \E i \in LostRows : log[i] \in agedRecords /\ (answer[log[i]] = "duplicate" \/ Handled(i))

(***************************************************************************)
(* The verdict fits the run.  A run that passes had nothing of what the    *)
(* safety expectations forbid, except what the records no longer show: a   *)
(* fault may have slipped through where a row expired and its produce was  *)
(* answered duplicate, rejected or not at all, or where a lost row's       *)
(* record is past the retention TTL and no group is known to miss it.  A   *)
(* run that fails had some of it, unless retention dropped a row before    *)
(* the record of its produce was as old as the TTL.  The checker judges    *)
(* while the consumers still run, from files and tables read at different  *)
(* moments: a file read before its last row would judge the library for    *)
(* what it did not do.                                                     *)
(***************************************************************************)
VerdictFitsRun ==
    /\ verdict = "pass" => fault = {} \/ Hidden
    /\ verdict = "fail" => fault # {} \/ hasty # {}

(***************************************************************************)
(* What CountLost's comment takes for granted: a fault whose row expired   *)
(* before the checks is still caught by the delivery checks.               *)
(***************************************************************************)
ExpiredIsCovered == verdict = "pass" => fault = {}

=============================================================================
