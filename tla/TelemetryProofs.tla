-------------------------- MODULE TelemetryProofs --------------------------
(***************************************************************************)
(* Proofs about what watches the library, for every size of its instances: *)
(* alerts, the history of measurements they judge, a collector's pass, a   *)
(* session's metrics and the log pipeline; and about cron, which says when *)
(* a schedule is due.  As in ServicesProofs, each component has its own    *)
(* invariant.                                                              *)
(***************************************************************************)
EXTENDS MCServices, SumLemmas, SequenceTheorems

-----------------------------------------------------------------------------
(* Alerts. *)

AlertMessage ==
    [status : {"active", "resolved"}, severity : AlertSeverity, createdAt : Nat, landedAt : Nat]
Finding == AlertSeverity \cup {NothingFound}
RunOf ==
    {Idle} \cup [pc : {"next"}, todo : SUBSET AlertOwner]
    \cup [pc : {"judged"}, todo : SUBSET AlertOwner, owner : AlertOwner, found : Finding]
    \cup [pc : {"waiting"}, todo : SUBSET AlertOwner, owner : AlertOwner, found : Finding, at : Nat]
    \cup [pc : {"locked"}, todo : SUBSET AlertOwner, owner : AlertOwner, found : Finding,
          at : Nat, head : Nat]

AlertType ==
    /\ tick \in Nat
    /\ published \in [AlertOwner -> Seq(AlertMessage)]
    /\ alertHead \in [AlertOwner -> Nat]
    /\ alertLock \in [AlertOwner -> Checker \cup {NoChecker}]
    /\ run \in [Checker -> RunOf]

\* What a head row shows of an owner: the newest alert, or none, and then what
\* was published last is older than the repeat interval.
Shows(o, h) ==
    IF h = 0
    THEN Len(published[o]) > 0 =>
             tick - published[o][Len(published[o])].createdAt >= ClampedRepeat
    ELSE h = Len(published[o])

\* The holder of the lock knows the head.
AlertLockInv ==
    \A c \in Checker : run[c].pc = "locked" =>
        alertLock[run[c].owner] = c /\ Shows(run[c].owner, run[c].head)

AlertInv ==
    AlertType /\ (\A o \in AlertOwner : Shows(o, alertHead[o])) /\ AlertLockInv /\ RepeatsSpaced

\* The interval applied is one a retained head outlasts (NewAlertController).
LEMMA RepeatIsKept ==
  ClampedRepeat \in Nat /\ (AlertRetention > 0 => ClampedRepeat <= AlertRetention)
  BY AlertConfigIsValid DEF ClampedRepeat

\* At the start no owner has a notice.
LEMMA AlertsStart == AlertHeadsInit => AlertInv
  <1> SUFFICES ASSUME AlertHeadsInit PROVE AlertInv
    OBVIOUS
  <1>1. \A o \in AlertOwner : Len(published[o]) = 0 /\ alertHead[o] = 0
    BY DEF AlertHeadsInit
  <1>2. AlertType
    BY DEF AlertHeadsInit, AlertType, RunOf
  <1>3. (\A o \in AlertOwner : Shows(o, alertHead[o])) /\ RepeatsSpaced
    BY <1>1 DEF Shows, RepeatsSpaced
  <1>4. AlertLockInv
    BY DEF AlertHeadsInit, AlertLockInv, Idle
  <1>. QED BY <1>2, <1>3, <1>4 DEF AlertInv

\* A head that is known stays known while nothing is published.
LEMMA HeadsStand ==
  ASSUME AlertInv, tick' \in Nat, tick' >= tick, UNCHANGED published
  PROVE  /\ \A o \in AlertOwner, h \in Nat : Shows(o, h) => Shows(o, h)'
         /\ RepeatsSpaced'
  <1>1. ASSUME NEW o \in AlertOwner, NEW h \in Nat, Shows(o, h) PROVE Shows(o, h)'
    <2>1. CASE h # 0
      BY <1>1, <2>1 DEF Shows
    <2>2. CASE h = 0 /\ Len(published[o]) = 0
      BY <1>1, <2>2 DEF Shows
    <2>3. CASE h = 0 /\ Len(published[o]) > 0
      <3>1. published[o][Len(published[o])].createdAt \in Nat
        <4>1. published[o] \in Seq(AlertMessage)
          BY <1>1 DEF AlertInv, AlertType
        <4>2. published[o][Len(published[o])] \in AlertMessage
          BY <2>3, <4>1, ElementOfSeq, LenProperties
        <4>. QED BY <4>2 DEF AlertMessage
      <3>2. tick \in Nat /\ ClampedRepeat \in Nat
        BY RepeatIsKept DEF AlertInv, AlertType
      <3>3. tick - published[o][Len(published[o])].createdAt >= ClampedRepeat
        BY <1>1, <2>3 DEF Shows
      <3>4. tick' - published[o][Len(published[o])].createdAt >= ClampedRepeat
        BY <3>1, <3>2, <3>3
      <3>. QED BY <2>3, <3>4 DEF Shows, ClampedRepeat
    <2>4. Len(published[o]) \in Nat
      BY <1>1, LenProperties DEF AlertInv, AlertType
    <2>. QED BY <2>1, <2>2, <2>3, <2>4
  <1>2. RepeatsSpaced'
    BY DEF AlertInv, RepeatsSpaced, ClampedRepeat
  <1>. QED BY <1>1, <1>2

\* A run takes a step of its own and publishes nothing.
LEMMA RunMoves ==
  ASSUME AlertInv, NEW c \in Checker, run' = [run EXCEPT ![c] = run'[c]], run'[c] \in RunOf,
         UNCHANGED <<tick, published, alertHead>>,
         alertLock' \in [AlertOwner -> Checker \cup {NoChecker}],
         \A o \in AlertOwner : \A d \in Checker \ {c} : alertLock[o] = d => alertLock'[o] = d,
         run'[c].pc = "locked" =>
             alertLock'[run'[c].owner] = c /\ Shows(run'[c].owner, run'[c].head)
  PROVE  AlertInv'
  <1>t. AlertType
    BY DEF AlertInv
  <1>1. \A d \in Checker : d # c => run'[d] = run[d]
    BY <1>t DEF AlertType
  <1>2. AlertType'
    BY <1>t DEF AlertType
  <1>3. /\ \A o \in AlertOwner, h \in Nat : Shows(o, h) => Shows(o, h)'
        /\ RepeatsSpaced'
    BY <1>t, HeadsStand DEF AlertType
  <1>4. \A d \in Checker : run'[d] \in RunOf /\ (run'[d].pc = "locked" =>
                                run'[d].owner \in AlertOwner /\ run'[d].head \in Nat)
    BY <1>2 DEF AlertType, RunOf, Idle
  <1>5. AlertLockInv'
    <2> SUFFICES ASSUME NEW d \in Checker, run'[d].pc = "locked"
                 PROVE  (alertLock[run[d].owner] = d /\ Shows(run[d].owner, run[d].head))'
      BY DEF AlertLockInv
    <2>1. alertLock'[run'[d].owner] = d /\ Shows(run'[d].owner, run'[d].head)
      BY <1>1, <1>4 DEF AlertInv, AlertLockInv
    <2>2. PICK o \in AlertOwner, h \in Nat : o = run'[d].owner /\ h = run'[d].head
      BY <1>4
    <2>3. Shows(o, h)'
      BY <1>3, <2>1, <2>2
    <2>. QED BY <2>1, <2>2, <2>3 DEF Shows
  <1>6. \A o \in AlertOwner : Shows(o, alertHead[o])'
    <2> SUFFICES ASSUME NEW o \in AlertOwner PROVE Shows(o, alertHead[o])'
      OBVIOUS
    <2>1. alertHead[o] \in Nat /\ alertHead' = alertHead
      BY <1>t DEF AlertType
    <2>2. PICK h \in Nat : h = alertHead[o]
      BY <2>1
    <2>3. Shows(o, h)'
      BY <1>3, <2>2 DEF AlertInv
    <2>. QED BY <2>1, <2>2, <2>3 DEF Shows
  <1>. QED BY <1>2, <1>3, <1>5, <1>6 DEF AlertInv

\* The alert published is the newest, and keeps its distance from the last one.
LEMMA AlertLands ==
  ASSUME AlertInv, NEW c \in Checker, PublishAlert(c)
  PROVE  AlertInv'
  <1> DEFINE o == run[c].owner
             n == Len(published[o])
  <1>t. AlertType
    BY DEF AlertInv
  <1>g. /\ o \in AlertOwner /\ run[c].pc = "locked" /\ run[c].todo \in SUBSET AlertOwner
        /\ run[c].at \in Nat /\ run[c].head \in Nat /\ run[c].found \in Finding
    BY <1>t DEF PublishAlert, AlertType, RunOf, Idle
  <1>r. tick \in Nat /\ ClampedRepeat \in Nat /\ published[o] \in Seq(AlertMessage)
    BY <1>t, <1>g, RepeatIsKept DEF AlertType
  <1>n. n \in Nat /\ \A i \in 1 .. n : published[o][i] \in AlertMessage
    BY <1>r, LenProperties, ElementOfSeq
  <1>1. PICK alert \in classify(run[c].found, o, run[c].head) :
          published' = [published EXCEPT ![o] =
              Append(@, [status |-> alert.status, severity |-> alert.severity,
                         createdAt |-> run[c].at, landedAt |-> tick])]
    BY DEF PublishAlert
  <1>2. /\ alertHead' = [alertHead EXCEPT ![o] = n + 1]
        /\ alertLock' = [alertLock EXCEPT ![o] = NoChecker]
        /\ run' = [run EXCEPT ![c] = [pc |-> "next", todo |-> run[c].todo]]
        /\ tick' = tick
    BY DEF PublishAlert, FinishRecord
  <1>3. PICK m : m = [status |-> alert.status, severity |-> alert.severity,
                      createdAt |-> run[c].at, landedAt |-> tick]
    OBVIOUS
  <1>5. Shows(o, run[c].head)
    BY <1>g DEF AlertInv, AlertLockInv
  <1>h. run[c].head # 0 =>
          /\ run[c].head = n /\ n # 0
          /\ published[o][n].status \in {"active", "resolved"}
          /\ published[o][n].severity \in AlertSeverity
    <2>1. run[c].head # 0 => run[c].head = n /\ n \in 1 .. n
      BY <1>5, <1>g, <1>n DEF Shows
    <2>. QED BY <1>n, <2>1 DEF AlertMessage
  <1>s. alert.status \in {"active", "resolved"} /\ alert.severity \in AlertSeverity
    BY <1>1, <1>g, <1>h DEF classify, Finding
  <1>4. m \in AlertMessage
        /\ m.status = alert.status /\ m.severity = alert.severity /\ m.landedAt = tick
    BY <1>3, <1>g, <1>r, <1>s DEF AlertMessage
  <1>6. IF n = 0 THEN alert.status = "active"
        ELSE \/ alert.status # published[o][n].status
             \/ /\ alert.status = "active"
                /\ \/ alert.severity # published[o][n].severity
                   \/ tick - published[o][n].createdAt >= ClampedRepeat
    <2>1. CASE run[c].head = 0
      <3>1. alert.status = "active"
        BY <1>1, <2>1 DEF classify
      <3>2. n > 0 => tick - published[o][n].createdAt >= ClampedRepeat
        BY <1>5, <2>1 DEF Shows
      <3>. QED BY <1>n, <3>1, <3>2
    <2>2. CASE run[c].head # 0
      BY <1>1, <1>h, <2>2 DEF classify
    <2>. QED BY <2>1, <2>2
  <1>7. /\ published'[o] \in Seq(AlertMessage) /\ Len(published'[o]) = n + 1
        /\ \A i \in 1 .. n : published'[o][i] = published[o][i]
        /\ published'[o][n + 1] = m
        /\ \A q \in AlertOwner : q # o => published'[q] = published[q]
    <2>1. published'[o] = Append(published[o], m)
      BY <1>t, <1>g, <1>1, <1>3 DEF AlertType
    <2>2. \A q \in AlertOwner : q # o => published'[q] = published[q]
      BY <1>t, <1>1 DEF AlertType
    <2>. QED BY <1>4, <1>r, <2>1, <2>2, AppendProperties
  <1>8. AlertType'
    <2>1. published' \in [AlertOwner -> Seq(AlertMessage)]
      BY <1>t, <1>g, <1>1, <1>7 DEF AlertType
    <2>2. [pc |-> "next", todo |-> run[c].todo] \in RunOf
      BY <1>g DEF RunOf
    <2>3. alertHead' \in [AlertOwner -> Nat] /\ alertLock' \in [AlertOwner -> Checker \cup {NoChecker}]
      <3>1. PICK k : k = n + 1 /\ k \in Nat
        BY <1>n
      <3>2. PICK q \in AlertOwner : q = o
        BY <1>g
      <3>3. alertHead' = [alertHead EXCEPT ![q] = k]
        BY <1>2, <3>1, <3>2
      <3>4. alertLock' = [alertLock EXCEPT ![q] = NoChecker]
        BY <1>2, <3>2
      <3>5. alertHead' \in [AlertOwner -> Nat]
        BY <1>t, <3>1, <3>3 DEF AlertType
      <3>. QED BY <1>t, <3>4, <3>5 DEF AlertType
    <2>4. PICK k \in RunOf : k = [pc |-> "next", todo |-> run[c].todo]
      BY <2>2
    <2>5. run' = [run EXCEPT ![c] = k] /\ run \in [Checker -> RunOf]
      BY <1>t, <1>2, <2>4 DEF AlertType
    <2>6. run' \in [Checker -> RunOf]
      BY <2>5
    <2>. QED BY <1>r, <1>2, <2>1, <2>3, <2>6 DEF AlertType
  <1>9. RepeatsSpaced'
    <2> SUFFICES ASSUME NEW q \in AlertOwner, NEW i \in 1 .. Len(published'[q])
                 PROVE  IF i = 1 THEN published'[q][i].status = "active"
                        ELSE \/ published'[q][i].status # published'[q][i - 1].status
                             \/ /\ published'[q][i].status = "active"
                                /\ \/ published'[q][i].severity # published'[q][i - 1].severity
                                   \/ published'[q][i].landedAt - published'[q][i - 1].createdAt
                                        >= ClampedRepeat
      BY DEF RepeatsSpaced, ClampedRepeat
    <2>0. RepeatsSpaced
      BY DEF AlertInv
    <2>1. CASE q # o
      BY <1>7, <2>0, <2>1 DEF RepeatsSpaced
    <2>2. CASE q = o /\ i <= n
      <3>1. i \in 1 .. n /\ (i # 1 => i - 1 \in 1 .. n)
        BY <1>n, <1>7, <2>2
      <3>2. published'[o][i] = published[o][i]
            /\ (i # 1 => published'[o][i - 1] = published[o][i - 1])
        BY <1>7, <3>1
      <3>3. IF i = 1 THEN published[o][i].status = "active"
            ELSE \/ published[o][i].status # published[o][i - 1].status
                 \/ /\ published[o][i].status = "active"
                    /\ \/ published[o][i].severity # published[o][i - 1].severity
                       \/ published[o][i].landedAt - published[o][i - 1].createdAt >= ClampedRepeat
        BY <1>g, <2>0, <3>1 DEF RepeatsSpaced
      <3>. QED BY <2>2, <3>2, <3>3
    <2>3. CASE q = o /\ i = n + 1
      <3>1. i = 1 <=> n = 0
        BY <1>n, <2>3
      <3>2. i # 1 => i - 1 = n /\ n \in 1 .. n
        BY <1>n, <2>3, <3>1
      <3>. QED BY <1>4, <1>6, <1>7, <2>3, <3>1, <3>2
    <2>. QED BY <1>n, <1>7, <2>1, <2>2, <2>3
  <1>10. \A q \in AlertOwner : Shows(q, alertHead[q])'
    <2> SUFFICES ASSUME NEW q \in AlertOwner PROVE Shows(q, alertHead[q])'
      OBVIOUS
    <2>1. CASE q = o
      BY <1>t, <1>n, <1>g, <1>2, <1>7, <2>1 DEF Shows, AlertType
    <2>2. CASE q # o
      <3>1. published'[q] = published[q] /\ alertHead'[q] = alertHead[q] /\ Shows(q, alertHead[q])
        BY <1>t, <1>2, <1>7, <2>2 DEF AlertInv, AlertType
      <3>. QED BY <1>2, <3>1 DEF Shows, ClampedRepeat
    <2>. QED BY <2>1, <2>2
  <1>11. AlertLockInv'
    <2> SUFFICES ASSUME NEW d \in Checker, run'[d].pc = "locked"
                 PROVE  (alertLock[run[d].owner] = d /\ Shows(run[d].owner, run[d].head))'
      BY DEF AlertLockInv
    <2>1. d # c /\ run'[d] = run[d]
      BY <1>t, <1>2 DEF AlertType
    <2>2. run[d].owner \in AlertOwner /\ alertLock[run[d].owner] = d
          /\ Shows(run[d].owner, run[d].head)
      BY <1>t, <2>1 DEF AlertInv, AlertLockInv, AlertType, RunOf, Idle
    <2>3. alertLock[o] = c
      BY <1>g DEF AlertInv, AlertLockInv
    <2>4. run[d].owner # o
      BY <2>1, <2>2, <2>3
    <2>. QED BY <1>t, <1>2, <1>7, <2>1, <2>2, <2>4 DEF Shows, ClampedRepeat, AlertType
  <1>. QED BY <1>8, <1>9, <1>10, <1>11 DEF AlertInv

\* Checks, changes of the condition and retention keep it.
LEMMA AlertsStep == AlertInv /\ AlertHeadsNext => AlertInv'
  <1> SUFFICES ASSUME AlertInv, AlertHeadsNext PROVE AlertInv'
    OBVIOUS
  <1>t. AlertType
    BY DEF AlertInv
  <1>d. \A c \in Checker :
          /\ run[c].pc \in {"next", "judged", "waiting", "locked"} => run[c].todo \in SUBSET AlertOwner
          /\ run[c].pc \in {"judged", "waiting", "locked"} =>
                 run[c].owner \in AlertOwner /\ run[c].found \in Finding
          /\ run[c].pc \in {"waiting", "locked"} => run[c].at \in Nat
          /\ run[c].pc = "locked" => run[c].head \in Nat
    BY <1>t DEF AlertType, RunOf, Idle
  <1>l. /\ alertLock \in [AlertOwner -> Checker \cup {NoChecker}]
        /\ \A k : [run EXCEPT ![k] = run[k]] = run
    BY <1>t DEF AlertType
  <1>1. CASE TickOn
    <2>1. tick' = tick + 1 /\ UNCHANGED <<published, alertHead, alertLock, run>>
      BY <1>1 DEF TickOn
    <2>2. tick \in Nat /\ tick' \in Nat /\ tick' >= tick
      BY <1>t, <2>1 DEF AlertType
    <2>3. /\ \A o \in AlertOwner, h \in Nat : Shows(o, h) => Shows(o, h)'
          /\ RepeatsSpaced'
      BY <2>1, <2>2, HeadsStand
    <2>4. \A o \in AlertOwner : Shows(o, alertHead[o])'
      <3> SUFFICES ASSUME NEW o \in AlertOwner PROVE Shows(o, alertHead[o])'
        OBVIOUS
      <3>1. PICK h \in Nat : h = alertHead[o]
        BY <1>t DEF AlertType
      <3>2. Shows(o, h)'
        BY <2>3, <3>1 DEF AlertInv
      <3>. QED BY <2>1, <3>1, <3>2 DEF Shows
    <2>5. AlertLockInv'
      <3> SUFFICES ASSUME NEW d \in Checker, run[d].pc = "locked"
                   PROVE  (alertLock[run[d].owner] = d /\ Shows(run[d].owner, run[d].head))'
        BY <2>1 DEF AlertLockInv
      <3>1. PICK o \in AlertOwner, h \in Nat : o = run[d].owner /\ h = run[d].head
        BY <1>d
      <3>2. Shows(o, h)'
        BY <2>3, <3>1 DEF AlertInv, AlertLockInv
      <3>. QED BY <2>1, <3>1, <3>2 DEF Shows, AlertInv, AlertLockInv
    <2>6. AlertType'
      BY <1>t, <2>1, <2>2 DEF AlertType
    <2>. QED BY <2>3, <2>4, <2>5, <2>6 DEF AlertInv
  <1>2. ASSUME NEW o \in AlertOwner, ConditionChanges(o) PROVE AlertInv'
    BY <1>2 DEF ConditionChanges, AlertInv, AlertType, AlertLockInv, RepeatsSpaced, Shows, ClampedRepeat
  <1>3. ASSUME NEW o \in AlertOwner, ExpireAlert(o) PROVE AlertInv'
    <2>1. /\ AlertRetention > 0 /\ alertHead[o] # 0
          /\ published[o][alertHead[o]].createdAt < tick - AlertRetention
          /\ alertHead' = [alertHead EXCEPT ![o] = 0]
          /\ UNCHANGED <<tick, published, alertLock, run>>
      BY <1>3 DEF ExpireAlert
    <2>2. alertHead[o] = Len(published[o])
      BY <1>3, <2>1 DEF AlertInv, Shows
    <2>3. Len(published[o]) > 0 => published[o][Len(published[o])].createdAt \in Nat
      <3>1. published[o] \in Seq(AlertMessage)
        BY <1>3, <1>t DEF AlertType
      <3>2. Len(published[o]) > 0 => published[o][Len(published[o])] \in AlertMessage
        BY <3>1, ElementOfSeq, LenProperties
      <3>. QED BY <3>2 DEF AlertMessage
    <2>4. Shows(o, 0)
      BY <1>t, <2>1, <2>2, <2>3, RepeatIsKept, AlertConfigIsValid DEF Shows, AlertType
    <2>5. \A q \in AlertOwner : Shows(q, alertHead[q])'
      <3> SUFFICES ASSUME NEW q \in AlertOwner PROVE Shows(q, alertHead[q])'
        OBVIOUS
      <3>1. Shows(q, alertHead[q])
        BY DEF AlertInv
      <3>2. alertHead'[q] = IF q = o THEN 0 ELSE alertHead[q]
        BY <1>t, <2>1 DEF AlertType
      <3>. QED BY <2>1, <2>4, <3>1, <3>2 DEF Shows, ClampedRepeat
    <2>6. AlertType' /\ AlertLockInv' /\ RepeatsSpaced'
      BY <1>t, <2>1 DEF AlertInv, AlertType, AlertLockInv, RepeatsSpaced, Shows, ClampedRepeat
    <2>. QED BY <2>5, <2>6 DEF AlertInv
  <1>4. ASSUME NEW c \in Checker,
               \/ StartCheck(c) \/ BeginRecord(c) \/ EndCheck(c)
               \/ \E o \in AlertOwner : EvaluateOwner(c, o) \/ EvaluateUnsure(c, o)
        PROVE  AlertInv'
    <2>1. /\ UNCHANGED <<tick, published, alertHead, alertLock>>
          /\ run' = [run EXCEPT ![c] = run'[c]]
          /\ run'[c] \in RunOf /\ run'[c].pc # "locked"
      <3>1. CASE StartCheck(c)
        BY <1>t, <3>1 DEF StartCheck, AlertType, RunOf
      <3>2. CASE BeginRecord(c)
        BY <1>t, <1>d, <3>2 DEF BeginRecord, AlertType, RunOf
      <3>3. CASE EndCheck(c)
        BY <1>t, <3>3 DEF EndCheck, AlertType, RunOf, Idle
      <3>4. ASSUME NEW o \in AlertOwner, EvaluateOwner(c, o)
            PROVE  /\ UNCHANGED <<tick, published, alertHead, alertLock>>
                   /\ run' = [run EXCEPT ![c] = run'[c]]
                   /\ run'[c] \in RunOf /\ run'[c].pc # "locked"
        <4>1. PICK severity \in AlertSeverity :
                 run' = [run EXCEPT ![c] = [pc |-> "judged", todo |-> run[c].todo \ {o}, owner |-> o,
                            found |-> IF o \in failing THEN severity ELSE NothingFound]]
          BY <3>4 DEF EvaluateOwner
        <4>. QED BY <1>t, <1>d, <3>4, <4>1 DEF EvaluateOwner, AlertType, RunOf, Finding
      <3>5. ASSUME NEW o \in AlertOwner, EvaluateUnsure(c, o)
            PROVE  /\ UNCHANGED <<tick, published, alertHead, alertLock>>
                   /\ run' = [run EXCEPT ![c] = run'[c]]
                   /\ run'[c] \in RunOf /\ run'[c].pc # "locked"
        <4>1. run[c].pc = "next" /\ run[c] \in RunOf
          BY <1>t, <3>5 DEF EvaluateUnsure, AlertType
        <4>2. run[c] \in [pc : {"next"}, todo : SUBSET AlertOwner]
          BY <4>1 DEF RunOf, Idle
        <4>. QED BY <1>t, <3>5, <4>2 DEF EvaluateUnsure, AlertType, RunOf
      <3>. QED BY <1>4, <3>1, <3>2, <3>3, <3>4, <3>5
    <2>. QED BY <1>4, <1>l, <2>1, RunMoves
  <1>5. ASSUME NEW c \in Checker, LockHead(c) PROVE AlertInv'
    <2> DEFINE o == run[c].owner
    <2>0. run[c].pc = "waiting" /\ alertLock[o] = NoChecker
      BY <1>5 DEF LockHead, MayLock
    <2>1. o \in AlertOwner /\ run[c].todo \in SUBSET AlertOwner /\ run[c].found \in Finding
          /\ run[c].at \in Nat /\ alertHead[o] \in Nat
      BY <1>d, <1>t, <2>0 DEF AlertType
    <2>2. /\ UNCHANGED <<tick, published, alertHead>>
          /\ alertLock' = [alertLock EXCEPT ![o] = c]
          /\ run' = [run EXCEPT ![c] = [pc |-> "locked", todo |-> run[c].todo, owner |-> o,
                                        found |-> run[c].found, at |-> run[c].at,
                                        head |-> alertHead[o]]]
      BY <1>5 DEF LockHead
    <2>3. run'[c] \in RunOf /\ run' = [run EXCEPT ![c] = run'[c]]
          /\ run'[c].owner = o /\ run'[c].head = alertHead[o]
      BY <1>t, <2>1, <2>2 DEF AlertType, RunOf
    <2>4. /\ alertLock' \in [AlertOwner -> Checker \cup {NoChecker}]
          /\ \A q \in AlertOwner : \A d \in Checker \ {c} : alertLock[q] = d => alertLock'[q] = d
          /\ alertLock'[o] = c
      BY <1>l, <2>0, <2>1, <2>2, AlertConfigIsValid
    <2>5. Shows(o, alertHead[o])
      BY <2>1 DEF AlertInv
    <2>6. alertLock'[run'[c].owner] = c /\ Shows(run'[c].owner, run'[c].head)
      BY <2>3, <2>4, <2>5 DEF Shows
    <2> HIDE DEF o
    <2>. QED BY <1>5, <2>2, <2>3, <2>4, <2>6, RunMoves
  <1>6. ASSUME NEW c \in Checker, PublishAlert(c) PROVE AlertInv'
    BY <1>6, AlertLands
  <1>7. ASSUME NEW c \in Checker, PublishNothing(c) \/ RecordFails(c) PROVE AlertInv'
    <2> DEFINE o == run[c].owner
    <2>1. run[c].pc = "locked" /\ UNCHANGED <<tick, published, alertHead>>
          /\ alertLock' = [alertLock EXCEPT ![o] = NoChecker]
          /\ run' = [run EXCEPT ![c] = [pc |-> "next", todo |-> run[c].todo]]
      BY <1>7 DEF PublishNothing, RecordFails, FinishRecord
    <2>2. o \in AlertOwner /\ run[c].todo \in SUBSET AlertOwner /\ alertLock[o] = c
      BY <1>d, <2>1 DEF AlertInv, AlertLockInv
    <2>3. run'[c] \in RunOf /\ run' = [run EXCEPT ![c] = run'[c]] /\ run'[c].pc = "next"
      BY <1>t, <2>1, <2>2 DEF AlertType, RunOf
    <2>4. /\ alertLock' \in [AlertOwner -> Checker \cup {NoChecker}]
          /\ \A q \in AlertOwner : \A d \in Checker \ {c} : alertLock[q] = d => alertLock'[q] = d
      BY <1>l, <2>1, <2>2, AlertConfigIsValid
    <2>. QED BY <1>7, <2>1, <2>3, <2>4, RunMoves
  <1>. QED BY <1>1, <1>2, <1>3, <1>4, <1>5, <1>6, <1>7 DEF AlertHeadsNext

\* A step of another component leaves the alerts alone.
LEMMA AlertsRest == AlertInv /\ UNCHANGED alertVars => AlertInv'
  BY DEF alertVars, AlertInv, AlertType, AlertLockInv, RepeatsSpaced, Shows, ClampedRepeat

\* However the checks of two managers interleave and whatever fails or is
\* retained in between: an owner's first notice is active, and every later one
\* changes the status or, still active, changes the severity or lands no sooner
\* than the repeat interval after the one before it (alert record, alertHead's
\* lock).
THEOREM AlertsSpaced == ServicesSpec => [](part = "alerts" => RepeatsSpaced)
  <1> DEFINE I == part = "alerts" => AlertInv
  <1>1. ServicesInit => I
    BY AlertsStart DEF ServicesInit
  <1>2. I /\ [ServicesNext]_servicesVars => I'
    <2> SUFFICES ASSUME I, [ServicesNext]_servicesVars, part' = "alerts" PROVE AlertInv'
      OBVIOUS
    <2>1. part = "alerts"
      BY DEF ServicesNext, servicesVars
    <2>2. AlertHeadsNext \/ UNCHANGED alertVars
      BY <2>1 DEF ServicesNext, servicesVars
    <2>. QED BY <2>1, <2>2, AlertsStep, AlertsRest
  <1>3. I => (part = "alerts" => RepeatsSpaced)
    BY DEF AlertInv
  <1>. QED BY <1>1, <1>2, <1>3, PTL DEF ServicesSpec

-----------------------------------------------------------------------------
(* The rows of a window by their place: the newest is the first. *)

RowPlace(kept, i) == Cardinality({j \in kept : j >= i})

\* Places go down the rows, and the row below one has the place after.
LEMMA PlacesCount ==
  ASSUME NEW kept \in SUBSET Nat, IsFiniteSet(kept)
  PROVE  /\ Cardinality(kept) \in Nat
         /\ \A i \in kept : RowPlace(kept, i) \in 1 .. Cardinality(kept)
         /\ \A i, j \in kept : i < j => RowPlace(kept, j) < RowPlace(kept, i)
  <1> DEFINE Upper(i) == {j \in kept : j >= i}
  <1>1. /\ Cardinality(kept) \in Nat
        /\ \A S \in SUBSET kept : IsFiniteSet(S) /\ Cardinality(S) \in Nat
        /\ \A S \in SUBSET kept : \A T \in SUBSET S :
              Cardinality(T) <= Cardinality(S) /\ (Cardinality(S) = Cardinality(T) => S = T)
    BY FS_Subset, FS_CardinalityType
  <1>2. \A i \in kept : Upper(i) \in SUBSET kept /\ i \in Upper(i)
    BY DEF Upper
  <1>3. ASSUME NEW i \in kept PROVE Cardinality(Upper(i)) \in 1 .. Cardinality(kept)
    <2>1. Cardinality(Upper(i)) \in Nat /\ Cardinality(Upper(i)) <= Cardinality(kept)
      BY <1>1, <1>2
    <2>2. Cardinality(Upper(i)) # 0
      BY <1>1, <1>2, FS_EmptySet
    <2>. QED BY <1>1, <2>1, <2>2
  <1>4. ASSUME NEW i \in kept, NEW j \in kept, i < j PROVE Cardinality(Upper(j)) < Cardinality(Upper(i))
    <2>1. Upper(j) \in SUBSET Upper(i) /\ i \notin Upper(j)
      <3>1. i \in Nat /\ j \in Nat /\ \A k \in kept : k \in Nat
        OBVIOUS
      <3>2. \A k \in kept : k >= j => k >= i
        BY <1>4, <3>1
      <3>3. ~(i >= j)
        BY <1>4, <3>1
      <3>. QED BY <3>2, <3>3 DEF Upper
    <2>2. Upper(i) # Upper(j)
      BY <1>2, <2>1
    <2>3. Cardinality(Upper(j)) <= Cardinality(Upper(i)) /\ Cardinality(Upper(j)) # Cardinality(Upper(i))
      BY <1>1, <1>2, <2>1, <2>2
    <2>. QED BY <1>1, <1>2, <2>3
  <1>. QED BY <1>1, <1>3, <1>4 DEF RowPlace

\* The first place is the largest row, and the next one is the largest below.
LEMMA PlaceBelow ==
  ASSUME NEW kept \in SUBSET Nat, IsFiniteSet(kept), NEW top \in Nat, \A i \in kept : i <= top
  PROVE  /\ kept # {} => Max(kept) \in kept /\ RowPlace(kept, Max(kept)) = 1
         /\ \A i \in kept : RowPlace(kept, i) < Cardinality(kept) =>
               LET below == Max({j \in kept : j < i})
               IN  below \in kept /\ RowPlace(kept, below) = RowPlace(kept, i) + 1
  <1>1. ASSUME kept # {} PROVE Max(kept) \in kept /\ RowPlace(kept, Max(kept)) = 1
    <2>1. Max(kept) \in kept /\ \A i \in kept : i <= Max(kept)
      BY <1>1, MaxOfNaturals
    <2>2. {j \in kept : j >= Max(kept)} = {Max(kept)}
      <3>1. \A j \in kept : j >= Max(kept) <=> j = Max(kept)
        <4>1. PICK h \in kept : h = Max(kept)
          BY <2>1
        <4>2. \A j \in kept : j \in Nat /\ j <= h
          BY <2>1, <4>1
        <4>3. \A j \in kept : j >= h <=> j = h
          BY <4>2
        <4>. QED BY <4>1, <4>3
      <3>. QED BY <2>1, <3>1
    <2>. QED BY <2>1, <2>2, FS_Singleton DEF RowPlace
  <1>2. ASSUME NEW i \in kept, RowPlace(kept, i) < Cardinality(kept)
        PROVE  /\ Max({j \in kept : j < i}) \in kept
               /\ RowPlace(kept, Max({j \in kept : j < i})) = RowPlace(kept, i) + 1
    <2> DEFINE Below == {j \in kept : j < i}
               Upper(k) == {j \in kept : j >= k}
    <2>1. Below # {}
      <3>1. SUFFICES ASSUME Below = {} PROVE FALSE
        OBVIOUS
      <3>2. \A j \in kept : j >= i
        BY <3>1
      <3>3. Upper(i) = kept
        BY <3>2
      <3>4. Cardinality(kept) \in Nat
        BY PlacesCount
      <3>. QED BY <1>2, <3>3, <3>4 DEF RowPlace
    <2>2. PICK k \in Below : k = Max(Below) /\ \A j \in Below : j <= k
      BY <2>1, MaxOfNaturals
    <2>3. Upper(k) = Upper(i) \cup {k} /\ k \notin Upper(i)
      <3>1. k \in kept /\ k < i /\ k \in Nat /\ i \in Nat
        BY <2>2
      <3>2. \A j \in kept : j >= k <=> j >= i \/ j = k
        <4> SUFFICES ASSUME NEW j \in kept PROVE j >= k <=> j >= i \/ j = k
          OBVIOUS
        <4>1. j \in Nat /\ (j < i => j <= k)
          BY <2>2
        <4>. QED BY <3>1, <4>1
      <3>3. ~(k >= i)
        BY <3>1
      <3>. QED BY <3>1, <3>2, <3>3
    <2>4. IsFiniteSet(Upper(i)) /\ Cardinality(Upper(i)) \in Nat
      <3>1. Upper(i) \in SUBSET kept
        OBVIOUS
      <3>. QED BY <3>1, FS_Subset, FS_CardinalityType
    <2>5. Cardinality(Upper(k)) = Cardinality(Upper(i)) + 1
      BY <2>3, <2>4, FS_AddElement
    <2>. QED BY <2>2, <2>5 DEF RowPlace
  <1>. QED BY <1>1, <1>2

\* NewestFirst goes through the rows by place.
LEMMA NewestFirstIs ==
  ASSUME NEW kept \in SUBSET Nat, IsFiniteSet(kept), NEW top \in Nat, \A i \in kept : i <= top
  PROVE  /\ NewestFirst(kept) \in [1 .. Cardinality(kept) -> kept]
         /\ \A n \in 1 .. Cardinality(kept) : RowPlace(kept, NewestFirst(kept)[n]) = n
  <1> DEFINE N == Cardinality(kept)
             Def(f) == [n \in 1 .. N |->
                          IF n = 1 THEN Max(kept) ELSE Max({i \in kept : i < f[n - 1]})]
             g == [n \in 1 .. N |-> CHOOSE i \in kept : RowPlace(kept, i) = n]
  <1>n. N \in Nat /\ \A i \in kept : RowPlace(kept, i) \in 1 .. N
    BY PlacesCount
  <1>u. \A i, j \in kept : RowPlace(kept, i) = RowPlace(kept, j) => i = j
    <2> SUFFICES ASSUME NEW i \in kept, NEW j \in kept, RowPlace(kept, i) = RowPlace(kept, j) PROVE i = j
      OBVIOUS
    <2>1. i \in Nat /\ j \in Nat /\ RowPlace(kept, i) \in Nat
      BY <1>n
    <2>2. ~(i < j) /\ ~(j < i)
      BY <2>1, PlacesCount
    <2>. QED BY <2>1, <2>2
  <1>f. /\ N > 0 => Max(kept) \in kept /\ RowPlace(kept, Max(kept)) = 1
        /\ \A i \in kept : RowPlace(kept, i) < N =>
              /\ Max({j \in kept : j < i}) \in kept
              /\ RowPlace(kept, Max({j \in kept : j < i})) = RowPlace(kept, i) + 1
    <2>1. N > 0 => kept # {}
      BY FS_EmptySet
    <2>. QED BY <2>1, PlaceBelow
  <1>1. \A n \in 1 .. N : \E i \in kept : RowPlace(kept, i) = n
    <2> DEFINE Bad == {n \in 1 .. N : ~\E i \in kept : RowPlace(kept, i) = n}
    <2>1. SUFFICES ASSUME Bad # {} PROVE FALSE
      OBVIOUS
    <2>2. PICK n \in Bad : \A k \in Bad : n <= k
      <3>1. Bad \in SUBSET Nat
        BY <1>n
      <3>. QED BY <2>1, <3>1, MinOfNaturals
    <2>3. n \in 1 .. N /\ ~\E i \in kept : RowPlace(kept, i) = n
      BY <2>2
    <2>4. n # 1
      <3>1. SUFFICES ASSUME n = 1 PROVE FALSE
        OBVIOUS
      <3>2. N > 0
        BY <1>n, <2>3, <3>1
      <3>3. Max(kept) \in kept /\ RowPlace(kept, Max(kept)) = n
        BY <1>f, <3>1, <3>2
      <3>. QED BY <2>3, <3>3
    <2>5. n - 1 \in 1 .. N /\ n - 1 \notin Bad
      BY <1>n, <2>2, <2>3, <2>4
    <2>6. PICK i \in kept : RowPlace(kept, i) = n - 1
      BY <2>5
    <2>7. RowPlace(kept, i) < N /\ RowPlace(kept, i) + 1 = n
      BY <1>n, <2>3, <2>6
    <2>. QED BY <1>f, <2>3, <2>7
  <1>2. \A n \in 1 .. N : g[n] \in kept /\ RowPlace(kept, g[n]) = n
    BY <1>1
  <1>3. g = Def(g)
    <2>1. ASSUME NEW n \in 1 .. N
          PROVE  g[n] = IF n = 1 THEN Max(kept) ELSE Max({i \in kept : i < g[n - 1]})
      <3>1. CASE n = 1
        BY <1>n, <1>2, <1>f, <1>u, <3>1
      <3>2. CASE n # 1
        <4>1. n - 1 \in 1 .. N /\ n - 1 < N /\ (n - 1) + 1 = n
          BY <1>n, <3>2
        <4>2. PICK i \in kept : i = g[n - 1] /\ RowPlace(kept, i) = n - 1
          BY <1>2, <4>1
        <4>3. PICK k \in kept : k = Max({j \in kept : j < i}) /\ RowPlace(kept, k) = n
          BY <1>f, <4>1, <4>2
        <4>4. g[n] = k
          BY <1>2, <1>u, <4>3
        <4>. QED BY <3>2, <4>2, <4>3, <4>4
      <3>. QED BY <3>1, <3>2
    <2>2. DOMAIN g = 1 .. N
      OBVIOUS
    <2>. QED BY <2>1, <2>2
  <1> HIDE DEF g
  <1>4. PICK f : f = NewestFirst(kept) /\ f = Def(f)
    <2>1. NewestFirst(kept) = CHOOSE f : f = Def(f)
      BY DEF NewestFirst
    <2>. QED BY <1>3, <2>1
  <1>5. \A n \in 1 .. N : f[n] \in kept /\ RowPlace(kept, f[n]) = n
    <2> DEFINE Bad == {n \in 1 .. N : ~(f[n] \in kept /\ RowPlace(kept, f[n]) = n)}
    <2>1. SUFFICES ASSUME Bad # {} PROVE FALSE
      OBVIOUS
    <2>2. PICK n \in Bad : \A k \in Bad : n <= k
      <3>1. Bad \in SUBSET Nat
        BY <1>n
      <3>. QED BY <2>1, <3>1, MinOfNaturals
    <2>3. n \in 1 .. N /\ ~(f[n] \in kept /\ RowPlace(kept, f[n]) = n)
      BY <2>2
    <2>4. f[n] = IF n = 1 THEN Max(kept) ELSE Max({i \in kept : i < f[n - 1]})
      BY <1>4, <2>3
    <2>5. n # 1
      BY <1>n, <1>f, <2>3, <2>4
    <2>6. n - 1 \in 1 .. N /\ n - 1 \notin Bad
      BY <1>n, <2>2, <2>3, <2>5
    <2>7. PICK i \in kept : i = f[n - 1] /\ RowPlace(kept, i) = n - 1
      BY <2>6
    <2>8. RowPlace(kept, i) < N /\ RowPlace(kept, i) + 1 = n
      BY <1>n, <2>3, <2>7
    <2>9. Max({j \in kept : j < i}) \in kept /\ RowPlace(kept, Max({j \in kept : j < i})) = n
      BY <1>f, <2>8
    <2>10. f[n] = Max({j \in kept : j < i})
      BY <2>4, <2>5, <2>7
    <2>. QED BY <2>3, <2>9, <2>10
  <1>6. f \in [1 .. N -> kept]
    <2>1. DOMAIN f = 1 .. N /\ f = [n \in 1 .. N |-> f[n]]
      BY <1>4
    <2>. QED BY <1>5, <2>1
  <1>. QED BY <1>4, <1>5, <1>6

-----------------------------------------------------------------------------
(* What a check has read of the history.                                     *)

\* The series is in the order of its times, and what retention removed is older
\* than it keeps.
StoredInv ==
    /\ checkClock \in Nat /\ pending \in BOOLEAN
    /\ stored \in Seq([at : Nat, measurement : Measurement])
    /\ swept \in 0 .. Len(stored)
    /\ \A i \in 1 .. Len(stored) : stored[i].at <= checkClock
    /\ \A i, j \in 1 .. Len(stored) : i <= j => stored[i].at <= stored[j].at
    /\ \A i \in 1 .. swept : RetentionTTL > 0 /\ stored[i].at + RetentionTTL < checkClock

\* A check that was not refused, and that reads no later than ReadDelay.
ReadInv ==
    /\ check.current \in Nat /\ check.current <= checkClock
    /\ checkClock <= check.current + ReadDelay
    /\ RetentionTTL > 0 => RetentionTTL > Window(pending)
    /\ alertName \in AlertName

Kept ==
    {i \in swept + 1 .. Len(stored) :
        stored[i].at \in check.current - Window(pending) .. check.current}

ScanInv ==
    /\ ReadInv
    /\ check.known = Len(stored)
    /\ check.samples = KeyMessages(check.current - Window(pending), check.current)

Sample == [at : Nat, state : {"healthy", "active", "insufficient"}]

\* A check that reads within what the stream keeps beyond its window.
ReadIsPrompt ==
    \A hold \in BOOLEAN :
        RetentionTTL > Window(hold) => Window(hold) + ReadDelay <= RetentionTTL

\* A measurement is judged healthy, active or insufficient.
LEMMA JudgesOneOf ==
  ASSUME alertName \in AlertName, NEW m \in Measurement
  PROVE  evaluateMeasurement(m) \in {"healthy", "active", "insufficient"}
  BY PolicyIsValid DEF evaluateMeasurement, PartitionCount, CompactionReadCost, WorkerLiveness, ByCount

\* A window reaches at least one gap back.
LEMMA WindowIs == \A hold \in BOOLEAN : Window(hold) \in Nat /\ Window(hold) >= MaximumGap
  BY PolicyIsValid DEF Window

\* The samples are the kept rows of the window by their places.
LEMMA SamplesAre ==
  ASSUME StoredInv, ScanInv
  PROVE  \E nth \in [1 .. Cardinality(Kept) -> Kept] :
           /\ Cardinality(Kept) \in Nat
           /\ check.samples = [n \in 1 .. Cardinality(Kept) |->
                                 [at |-> stored[nth[n]].at,
                                  state |-> evaluateMeasurement(stored[nth[n]].measurement)]]
           /\ \A i \in Kept : \E n \in 1 .. Cardinality(Kept) : nth[n] = i
           /\ \A m, n \in 1 .. Cardinality(Kept) : m < n => nth[n] < nth[m]
  <1> DEFINE top == Len(stored)
             size == Cardinality(Kept)
  <1>1. top \in Nat
    BY DEF StoredInv
  <1>2. Kept \in SUBSET Nat /\ (\A i \in Kept : i <= top) /\ IsFiniteSet(Kept)
    <2>1. Kept \in SUBSET (1 .. top)
      BY <1>1 DEF Kept, StoredInv
    <2>2. IsFiniteSet(1 .. top)
      BY <1>1, FS_Interval
    <2>3. IsFiniteSet(Kept)
      BY <2>1, <2>2, FS_Subset
    <2>. QED BY <1>1, <2>1, <2>3
  <1>3. PICK nth : nth = NewestFirst(Kept)
    OBVIOUS
  <1>4. nth \in [1 .. size -> Kept] /\ \A n \in 1 .. size : RowPlace(Kept, nth[n]) = n
    BY <1>1, <1>2, <1>3, NewestFirstIs
  <1>5. size \in Nat /\ \A i, j \in Kept : i < j => RowPlace(Kept, j) < RowPlace(Kept, i)
    BY <1>2, PlacesCount
  <1>6. \A i \in Kept : RowPlace(Kept, i) \in 1 .. size
    BY <1>2, PlacesCount
  <1>7. check.samples = [n \in 1 .. size |-> [at |-> stored[nth[n]].at,
                           state |-> evaluateMeasurement(stored[nth[n]].measurement)]]
    <2>1. DOMAIN nth = 1 .. size
      BY <1>4
    <2>. QED BY <1>3, <2>1 DEF ScanInv, KeyMessages, Kept
  <1>8. ASSUME NEW m \in 1 .. size, NEW n \in 1 .. size, m < n PROVE nth[n] < nth[m]
    <2>1. PICK i \in Kept, j \in Kept : i = nth[m] /\ j = nth[n]
      BY <1>4
    <2>2. RowPlace(Kept, i) = m /\ RowPlace(Kept, j) = n
      BY <1>4, <2>1
    <2>3. i \in Nat /\ j \in Nat
      BY <1>2
    <2>4. ~(i < j) /\ i # j
      BY <1>5, <1>8, <2>2
    <2>. QED BY <2>1, <2>3, <2>4
  <1>9. ASSUME NEW i \in Kept PROVE \E n \in 1 .. size : nth[n] = i
    <2>1. PICK n \in 1 .. size : n = RowPlace(Kept, i)
      BY <1>6
    <2>2. PICK j \in Kept : j = nth[n] /\ RowPlace(Kept, j) = n
      BY <1>4
    <2>3. i \in Nat /\ j \in Nat /\ ~(i < j) /\ ~(j < i)
      BY <1>2, <1>5, <2>1, <2>2
    <2>. QED BY <2>2, <2>3
  <1>. QED BY <1>4, <1>5, <1>7, <1>8, <1>9

\* A sample stands alone among those of its time, or is the newest of them.
LeadsItsTime(n) == n = 1 \/ check.samples[n - 1].at # check.samples[n].at

\* What the samples tell of the whole series.
LEMMA SamplesTell ==
  ASSUME ReadIsPrompt, StoredInv, ScanInv
  PROVE  /\ check.samples \in Seq([at : Nat, state : {"healthy", "active", "insufficient"}])
         /\ KnownTimes \in SUBSET Nat /\ \A u \in KnownTimes : u <= check.current
         /\ \A n \in DOMAIN check.samples :
              /\ check.samples[n].at \in KnownTimes
              /\ check.samples[n].at >= check.current - Window(pending)
         /\ \A m, n \in DOMAIN check.samples : m <= n => check.samples[n].at <= check.samples[m].at
         /\ \A n \in DOMAIN check.samples :
              LeadsItsTime(n) => StateAt(check.samples[n].at) = check.samples[n].state
         /\ \A u \in KnownTimes :
              \/ u < check.current - Window(pending)
              \/ \E n \in DOMAIN check.samples : check.samples[n].at = u
  <1> DEFINE top == Len(stored)
             size == Cardinality(Kept)
             S == check.samples
             W == Window(pending)
  <1>1. PICK nth \in [1 .. size -> Kept] :
           /\ size \in Nat
           /\ S = [n \in 1 .. size |-> [at |-> stored[nth[n]].at,
                     state |-> evaluateMeasurement(stored[nth[n]].measurement)]]
           /\ \A i \in Kept : \E n \in 1 .. size : nth[n] = i
           /\ \A m, n \in 1 .. size : m < n => nth[n] < nth[m]
    BY SamplesAre
  <1>t. /\ top \in Nat /\ check.known = top /\ swept \in 0 .. top
        /\ \A i \in 1 .. top : stored[i] \in [at : Nat, measurement : Measurement]
        /\ \A i \in 1 .. top : stored[i].at \in Nat /\ stored[i].measurement \in Measurement
    <2>1. stored \in Seq([at : Nat, measurement : Measurement]) /\ swept \in 0 .. top
      BY DEF StoredInv
    <2>2. PICK T : T = [at : Nat, measurement : Measurement]
      OBVIOUS
    <2>3. \A i \in 1 .. top : stored[i] \in T
      <3>1. stored \in Seq(T)
        BY <2>1, <2>2
      <3>. QED BY <3>1
    <2>4. top \in Nat
      BY <2>1
    <2>. QED BY <2>1, <2>2, <2>3, <2>4 DEF ScanInv
  <1>w. W \in Nat /\ check.current \in Nat
    BY WindowIs DEF StoredInv, ScanInv, ReadInv
  <1>k. \A i \in 1 .. top : i \in Kept <=> i > swept /\ stored[i].at >= check.current - W
                                                    /\ stored[i].at <= check.current
    BY <1>t, <1>w DEF Kept
  <1>s. Kept \in SUBSET (1 .. top)
    BY <1>t DEF Kept
  <1>2. \A n \in 1 .. size : nth[n] \in 1 .. top /\ nth[n] \in Kept
    BY <1>1, <1>s
  <1>3. \A n \in 1 .. size : /\ S[n].at = stored[nth[n]].at
                             /\ S[n].state = evaluateMeasurement(stored[nth[n]].measurement)
    BY <1>1
  <1>4. S \in Seq([at : Nat, state : {"healthy", "active", "insufficient"}]) /\ DOMAIN S = 1 .. size
    <2>1. ASSUME NEW n \in 1 .. size
          PROVE  S[n] \in [at : Nat, state : {"healthy", "active", "insufficient"}]
      <3>1. stored[nth[n]].at \in Nat /\ stored[nth[n]].measurement \in Measurement
        BY <1>2, <1>t
      <3>2. evaluateMeasurement(stored[nth[n]].measurement) \in {"healthy", "active", "insufficient"}
        BY <3>1, JudgesOneOf DEF ScanInv, ReadInv
      <3>. QED BY <1>1, <3>1, <3>2
    <2>2. S \in [1 .. size -> [at : Nat, state : {"healthy", "active", "insufficient"}]]
      BY <1>1, <2>1
    <2>3. PICK T : T = [at : Nat, state : {"healthy", "active", "insufficient"}]
      OBVIOUS
    <2>4. S \in [1 .. size -> T] /\ size \in Nat
      BY <1>1, <2>2, <2>3
    <2>5. S \in Seq(T) /\ DOMAIN S = 1 .. size
      BY <2>4
    <2>. QED BY <2>3, <2>5
  <1>5. /\ KnownTimes \in SUBSET Nat /\ \A u \in KnownTimes : u <= check.current
        /\ \A i \in 1 .. top : stored[i].at <= check.current => stored[i].at \in KnownTimes
    BY <1>t, <1>w DEF KnownTimes
  <1>6. ASSUME NEW n \in 1 .. size
        PROVE  S[n].at \in KnownTimes /\ S[n].at >= check.current - W
    BY <1>2, <1>3, <1>5, <1>k
  <1>7. ASSUME NEW m \in 1 .. size, NEW n \in 1 .. size, m <= n PROVE S[n].at <= S[m].at
    <2>1. nth[n] <= nth[m]
      <3>1. nth[m] \in Nat /\ nth[n] \in Nat
        BY <1>2, <1>t
      <3>2. CASE m = n
        BY <3>1, <3>2
      <3>3. CASE m < n
        <4>1. nth[n] < nth[m]
          <5>1. \A k, l \in 1 .. size : k < l => nth[l] < nth[k]
            BY <1>1
          <5>. QED BY <3>3, <5>1
        <4>. QED BY <3>1, <4>1
      <3>4. m = n \/ m < n
        BY <1>1, <1>7
      <3>. QED BY <3>2, <3>3, <3>4
    <2>. QED BY <1>2, <1>3, <2>1 DEF StoredInv
  <1>8. ASSUME NEW n \in 1 .. size, LeadsItsTime(n) PROVE StateAt(S[n].at) = S[n].state
    <2> DEFINE Rows == {i \in 1 .. check.known : stored[i].at = S[n].at}
    <2>1. nth[n] \in Rows
      BY <1>2, <1>3, <1>t
    <2>2. \A i \in Rows : i <= nth[n]
      <3> SUFFICES ASSUME NEW i \in Rows, i > nth[n] PROVE FALSE
        BY <1>2, <1>t
      <3>1. i \in 1 .. top /\ nth[n] \in 1 .. top /\ stored[i].at = stored[nth[n]].at
        BY <1>2, <1>3, <1>t
      <3>2. i \in Kept
        BY <1>2, <1>k, <1>t, <3>1
      <3>3. PICK m \in 1 .. size : nth[m] = i
        BY <1>1, <3>2
      <3>4. m < n
        <4>1. SUFFICES ASSUME n <= m PROVE FALSE
          BY <1>1
        <4>2. nth[m] <= nth[n]
          BY <1>1, <1>2, <1>t, <4>1
        <4>. QED BY <1>t, <3>1, <3>3, <4>2
      <3>5. n - 1 \in 1 .. size /\ m <= n - 1 /\ n - 1 <= n /\ n # 1
        BY <1>1, <3>4
      <3>6. S[n].at <= S[n - 1].at /\ S[n - 1].at <= S[m].at /\ S[m].at = S[n].at
        BY <1>3, <1>7, <3>1, <3>3, <3>5
      <3>7. S[n].at \in Nat /\ S[n - 1].at \in Nat
        BY <1>2, <1>3, <1>t, <3>5
      <3>8. S[n - 1].at = S[n].at
        BY <3>6, <3>7
      <3>. QED BY <1>8, <3>5, <3>8 DEF LeadsItsTime
    <2>3. Max(Rows) = nth[n]
      <3>1. Rows \in SUBSET Nat /\ \A i \in Rows : i <= top
        BY <1>t
      <3>2. Max(Rows) \in Rows /\ \A i \in Rows : i <= Max(Rows)
        BY <1>t, <2>1, <3>1, MaxOfNaturals
      <3>3. PICK h \in Rows : h = Max(Rows)
        BY <3>2
      <3>4. h \in Nat /\ nth[n] \in Nat /\ h <= nth[n] /\ nth[n] <= h
        BY <2>1, <2>2, <3>1, <3>2, <3>3
      <3>. QED BY <3>3, <3>4
    <2>. QED BY <1>3, <2>3 DEF StateAt
  <1>9. ASSUME NEW u \in KnownTimes, u >= check.current - W PROVE \E n \in 1 .. size : S[n].at = u
    <2>1. PICK i \in 1 .. top : stored[i].at = u /\ u <= check.current /\ u \in Nat
      BY <1>t, <1>5 DEF KnownTimes
    <2>2. i > swept
      <3>1. SUFFICES ASSUME i \in 1 .. swept PROVE FALSE
        BY <1>t
      <3>2. RetentionTTL > 0 /\ u + RetentionTTL < checkClock
        BY <2>1, <3>1 DEF StoredInv
      <3>3. RetentionTTL > W
        BY <3>2 DEF ScanInv, ReadInv
      <3>4. W + ReadDelay <= RetentionTTL
        BY <3>3 DEF ReadIsPrompt, StoredInv
      <3>5. checkClock <= check.current + ReadDelay /\ checkClock \in Nat
        BY DEF ScanInv, ReadInv, StoredInv
      <3>6. RetentionTTL \in Nat /\ ReadDelay \in Nat
        BY PolicyIsValid
      <3>. QED BY <1>w, <1>9, <2>1, <3>2, <3>4, <3>5, <3>6
    <2>3. i \in Kept
      BY <1>k, <1>9, <2>1, <2>2
    <2>. QED BY <1>1, <1>3, <2>1, <2>3
  <1>10. \A u \in KnownTimes : u < check.current - W \/ \E n \in 1 .. size : S[n].at = u
    BY <1>5, <1>9, <1>w
  <1>. QED BY <1>4, <1>5, <1>6, <1>7, <1>8, <1>10


\* The newest sample settles the verdict.
NewestDecides ==
    \/ check.samples = <<>>
    \/ check.current - check.samples[1].at > MaximumGap
    \/ check.samples[1].state # "active"
    \/ ~pending

\* The samples the walk has passed were active and close together.
Walked ==
    /\ check.next \in 2 .. Len(check.samples) + 1
    /\ check.earliest = check.samples[check.next - 1].at
    /\ \A n \in 1 .. check.next - 1 :
          /\ LeadsItsTime(n) => check.samples[n].state = "active"
          /\ n > 1 => check.samples[n - 1].at - check.samples[n].at <= MaximumGap

Stopped ==
    \/ check.next > Len(check.samples)
    \/ /\ check.samples[check.next].at # check.earliest
       /\ Breaks(check.samples[check.next])

\* What the walk has passed is what was active without a gap.
LEMMA WalkIsActive ==
  ASSUME ReadIsPrompt, StoredInv, ScanInv, Walked
  PROVE  check.earliest \in KnownTimes /\ ActiveSince(check.earliest)
  <1> DEFINE S == check.samples
             low == check.current - Window(pending)
  <1>1. /\ S \in Seq(Sample) /\ Len(S) \in Nat /\ DOMAIN S = 1 .. Len(S)
        /\ \A n \in 1 .. Len(S) : S[n].at \in Nat
    <2>1. S \in Seq(Sample)
      BY SamplesTell DEF Sample
    <2>2. \A n \in 1 .. Len(S) : S[n] \in Sample
      BY <2>1
    <2>. QED BY <2>1, <2>2 DEF Sample
  <1>2. /\ KnownTimes \in SUBSET Nat
        /\ \A n \in 1 .. Len(S) : S[n].at \in KnownTimes /\ S[n].at >= low
        /\ \A m, n \in 1 .. Len(S) : m <= n => S[n].at <= S[m].at
        /\ \A n \in 1 .. Len(S) : LeadsItsTime(n) => StateAt(S[n].at) = S[n].state
        /\ \A u \in KnownTimes : u < low \/ \E n \in 1 .. Len(S) : S[n].at = u
    BY <1>1, SamplesTell
  <1>w. low \in Int
    BY WindowIs DEF StoredInv, ScanInv, ReadInv
  <1>3. PICK p \in 1 .. Len(S) : p = check.next - 1
    BY <1>1 DEF Walked
  <1>4. /\ check.earliest = S[p].at
        /\ \A n \in 1 .. p : LeadsItsTime(n) => S[n].state = "active"
        /\ \A n \in 1 .. p : n > 1 => S[n - 1].at - S[n].at <= MaximumGap
    BY <1>3 DEF Walked
  <1>5. PICK e \in KnownTimes : e = check.earliest /\ e = S[p].at /\ e >= low /\ e \in Nat
    BY <1>2, <1>4
  <1>6. ASSUME NEW u \in KnownTimes, u >= e
        PROVE  /\ StateAt(u) = "active"
               /\ u = e \/ \E v \in KnownTimes : v >= e /\ v < u /\ u - v <= MaximumGap
    <2> DEFINE At == {n \in 1 .. p : S[n].at = u}
    <2>0. u \in Nat
      BY <1>2
    <2>1. At # {}
      <3>1. PICK n \in 1 .. Len(S) : S[n].at = u
        BY <1>2, <1>5, <1>6, <1>w, <2>0
      <3>2. CASE n <= p
        BY <1>1, <3>1, <3>2
      <3>3. CASE n > p
        <4>1. S[n].at <= S[p].at
          BY <1>1, <1>2, <3>3
        <4>2. S[p].at = u
          BY <1>5, <1>6, <2>0, <3>1, <4>1
        <4>. QED BY <1>1, <4>2
      <3>. QED BY <1>1, <3>2, <3>3
    <2>2. At \in SUBSET Nat /\ \A n \in At : n <= p
      BY <1>1
    <2>3. PICK f \in At : \A n \in At : f <= n
      BY <2>1, <2>2, MinOfNaturals
    <2>4. LeadsItsTime(f)
      <3>1. SUFFICES ASSUME f # 1, S[f - 1].at = S[f].at PROVE FALSE
        BY DEF LeadsItsTime
      <3>2. f - 1 \in At /\ f \in Nat
        BY <1>1, <3>1
      <3>. QED BY <2>3, <3>2
    <2>5. StateAt(u) = "active"
      <3>1. f \in 1 .. p /\ f \in 1 .. Len(S) /\ S[f].at = u
        BY <1>1
      <3>. QED BY <1>2, <1>4, <2>4, <3>1
    <2>6. ASSUME u # e PROVE \E v \in KnownTimes : v >= e /\ v < u /\ u - v <= MaximumGap
      <3>1. PICK last \in At : \A n \in At : n <= last
        <4>1. p \in Nat
          BY <1>1
        <4>. QED BY <2>1, <2>2, <4>1, MaxOfNaturals
      <3>2. last \in 1 .. p /\ last # p /\ S[last].at = u
        BY <1>5, <2>6
      <3>3. PICK n \in 1 .. p : n = last + 1
        BY <1>1, <3>2
      <3>4. n \in 1 .. Len(S) /\ last \in 1 .. Len(S) /\ n > 1 /\ n - 1 = last
        BY <1>1, <3>2, <3>3
      <3>5. n \notin At
        BY <1>1, <3>1, <3>3
      <3>6. PICK v \in KnownTimes : v = S[n].at /\ v \in Nat
        BY <1>1, <1>2, <3>4
      <3>7. v # u /\ v <= u
        <4>1. S[n].at <= S[last].at
          BY <1>1, <1>2, <3>3, <3>4
        <4>. QED BY <3>2, <3>5, <3>6, <4>1
      <3>8. v >= e
        <4>1. S[p].at <= S[n].at
          BY <1>1, <1>2, <3>3, <3>4
        <4>. QED BY <1>5, <3>6, <4>1
      <3>9. u - v <= MaximumGap
        BY <1>4, <3>2, <3>4, <3>6
      <3>. QED BY <2>0, <3>6, <3>7, <3>8, <3>9
    <2>. QED BY <2>5, <2>6
  <1>. QED BY <1>5, <1>6 DEF ActiveSince

\* Where the walk stopped before the pending duration, it was not active earlier.
LEMMA WalkIsWhole ==
  ASSUME ReadIsPrompt, StoredInv, ScanInv, Walked, Stopped,
         Window(pending) = PendingDuration + 2 * MaximumGap,
         check.current - check.samples[1].at <= MaximumGap,
         NEW t \in KnownTimes, t < check.earliest, ActiveSince(t)
  PROVE  check.samples[1].at - check.earliest >= PendingDuration
  <1> DEFINE S == check.samples
  <1>w. PICK low \in Int, c \in Nat :
           /\ low = check.current - Window(pending) /\ c = check.current
           /\ low = c - (PendingDuration + 2 * MaximumGap)
           /\ PendingDuration \in Nat /\ MaximumGap \in Nat
    <2>1. /\ Window(pending) = PendingDuration + 2 * MaximumGap /\ Window(pending) \in Nat
          /\ PendingDuration \in Nat /\ MaximumGap \in Nat
      BY PolicyIsValid
    <2>2. check.current \in Nat
      BY DEF ScanInv, ReadInv
    <2>. QED BY <2>1, <2>2
  <1>1. /\ S \in Seq(Sample) /\ Len(S) \in Nat /\ DOMAIN S = 1 .. Len(S)
        /\ \A n \in 1 .. Len(S) : S[n].at \in Nat
    <2>1. S \in Seq(Sample)
      BY SamplesTell DEF Sample
    <2>2. \A n \in 1 .. Len(S) : S[n] \in Sample
      BY <2>1
    <2>. QED BY <2>1, <2>2 DEF Sample
  <1>2. /\ KnownTimes \in SUBSET Nat
        /\ \A n \in 1 .. Len(S) : S[n].at \in KnownTimes /\ S[n].at >= low
        /\ \A m, n \in 1 .. Len(S) : m <= n => S[n].at <= S[m].at
        /\ \A n \in 1 .. Len(S) : LeadsItsTime(n) => StateAt(S[n].at) = S[n].state
        /\ \A u \in KnownTimes : u < low \/ \E n \in 1 .. Len(S) : S[n].at = u
    BY <1>w, <1>1, SamplesTell
  <1>3. PICK p \in 1 .. Len(S) : p = check.next - 1 /\ check.next \in Nat
    <2>1. PICK length \in Nat : length = Len(S)
      BY <1>1
    <2>2. PICK next \in 2 .. length + 1 : next = check.next
      BY <2>1 DEF Walked
    <2>3. next - 1 \in 1 .. length /\ next \in Nat
      BY <2>1
    <2>. QED BY <2>1, <2>2, <2>3
  <1>4. PICK e \in KnownTimes : e = check.earliest /\ e = S[p].at /\ e \in Nat /\ t \in Nat
    BY <1>2, <1>3 DEF Walked
  <1>5. PICK v \in KnownTimes : v >= t /\ v < e /\ e - v <= MaximumGap /\ v \in Nat
    <2>1. e >= t /\ e # t
      BY <1>4
    <2>. QED BY <1>2, <1>4, <2>1 DEF ActiveSince
  <1>6. PICK newest \in Nat : newest = S[1].at /\ check.current - newest <= MaximumGap
    BY <1>1, <1>3
  <1>7. CASE v < low
    <2>1. newest - e >= PendingDuration
      <3>1. c - newest <= MaximumGap
        BY <1>6, <1>w
      <3>2. /\ e \in Nat /\ v \in Nat /\ newest \in Nat /\ c \in Nat /\ low \in Int
            /\ MaximumGap \in Nat /\ PendingDuration \in Nat
            /\ v < low /\ low = c - (PendingDuration + 2 * MaximumGap) /\ e - v <= MaximumGap
        BY <1>4, <1>5, <1>7, <1>w
      <3>. QED BY <3>1, <3>2
    <2>. QED BY <1>4, <1>6, <2>1
  <1>8. CASE ~(v < low)
    <2>1. PICK m \in 1 .. Len(S) : S[m].at = v
      BY <1>2, <1>8
    <2>2. m > p
      <3>1. m <= p => S[p].at <= S[m].at
        BY <1>2
      <3>. QED BY <1>1, <1>4, <1>5, <2>1, <3>1
    <2>3. PICK n \in 1 .. Len(S) : n = check.next /\ n <= m /\ n # 1 /\ n - 1 = p /\ p <= n
      <3>1. PICK length \in Nat : length = Len(S)
        BY <1>1
      <3>2. PICK n \in Nat : n = check.next
        BY <1>3
      <3>3. p \in 1 .. length /\ m \in 1 .. length /\ p = n - 1
        BY <3>1, <3>2, <1>3
      <3>4. n \in 1 .. length /\ n <= m /\ n # 1 /\ n - 1 = p /\ p <= n
        BY <2>2, <3>3
      <3>. QED BY <3>1, <3>2, <3>4
    <2>4. PICK s \in KnownTimes : s = S[n].at /\ s \in Nat /\ s >= low
      BY <1>1, <1>2
    <2>5. s # e /\ Breaks(S[n])
      BY <1>1, <1>4, <2>3, <2>4 DEF Stopped
    <2>6. s >= v /\ s <= e
      <3>1. S[m].at <= S[n].at /\ S[n].at <= S[p].at
        BY <1>2, <2>3
      <3>. QED BY <1>4, <2>1, <2>4, <3>1
    <2>7. StateAt(s) = S[n].state
      <3>1. LeadsItsTime(n)
        BY <1>4, <2>3, <2>4, <2>5 DEF LeadsItsTime
      <3>. QED BY <1>2, <2>4, <3>1
    <2>8. StateAt(s) = "active"
      <3>1. s >= t
        BY <1>4, <1>5, <2>4, <2>6
      <3>. QED BY <2>4, <3>1 DEF ActiveSince
    <2>9. ~(s < low) /\ ~(e - s > MaximumGap)
      <3>1. ~(s < low)
        BY <1>w, <2>4
      <3>2. ~(e - s > MaximumGap)
        <4>1. /\ e \in Nat /\ v \in Nat /\ s \in Nat /\ MaximumGap \in Nat
              /\ s >= v /\ e - v <= MaximumGap
          BY <1>4, <1>5, <1>w, <2>4, <2>6
        <4>. QED BY <4>1
      <3>. QED BY <3>1, <3>2
    <2>. QED BY <1>w, <1>4, <2>4, <2>5, <2>7, <2>8, <2>9 DEF Breaks
  <1>. QED BY <1>7, <1>8

DoneInv ==
    \/ NewestDecides /\ check.verdict = VerdictOfNewest(check.samples, check.current)
    \/ /\ ~NewestDecides /\ Walked /\ Stopped
       /\ check.verdict = IF check.samples[1].at - check.earliest < PendingDuration
                          THEN "pending" ELSE "active"

\* So the verdict is what the history means.
LEMMA VerdictIs ==
  ASSUME ReadIsPrompt, StoredInv, ScanInv, DoneInv
  PROVE  check.verdict = Meaning
  <1> DEFINE S == check.samples
             low == check.current - Window(pending)
             NewestAt == Max(KnownTimes)
  <1>1. /\ S \in Seq(Sample) /\ Len(S) \in Nat /\ DOMAIN S = 1 .. Len(S)
        /\ \A n \in 1 .. Len(S) : S[n].at \in Nat
    <2>1. S \in Seq(Sample)
      BY SamplesTell DEF Sample
    <2>2. \A n \in 1 .. Len(S) : S[n] \in Sample
      BY <2>1
    <2>. QED BY <2>1, <2>2 DEF Sample
  <1>2. /\ KnownTimes \in SUBSET Nat /\ \A u \in KnownTimes : u <= check.current
        /\ \A n \in 1 .. Len(S) : S[n].at \in KnownTimes
        /\ \A m, n \in 1 .. Len(S) : m <= n => S[n].at <= S[m].at
        /\ \A n \in 1 .. Len(S) : LeadsItsTime(n) => StateAt(S[n].at) = S[n].state
        /\ \A u \in KnownTimes : u < low \/ \E n \in 1 .. Len(S) : S[n].at = u
    BY <1>1, SamplesTell
  <1>w. /\ low \in Int /\ check.current \in Nat /\ MaximumGap \in Nat /\ PendingDuration \in Nat
        /\ low <= check.current - MaximumGap
    BY WindowIs, PolicyIsValid DEF StoredInv, ScanInv, ReadInv
  <1>3. KnownTimes # {} => NewestAt \in KnownTimes /\ NewestAt \in Nat /\ \A u \in KnownTimes : u <= NewestAt
    BY <1>2, <1>w, MaxOfNaturals
  <1>4. ASSUME KnownTimes # {}, check.current - NewestAt <= MaximumGap
        PROVE  S # <<>> /\ S[1].at = NewestAt /\ 1 \in 1 .. Len(S)
    <2>1. ~(NewestAt < low)
      BY <1>3, <1>4, <1>w
    <2>2. PICK n \in 1 .. Len(S) : S[n].at = NewestAt
      BY <1>2, <1>3, <1>4, <2>1
    <2>3. 1 \in 1 .. Len(S) /\ 1 <= n
      BY <1>1
    <2>4. S[n].at <= S[1].at /\ S[1].at <= NewestAt /\ S[1].at \in Nat
      BY <1>1, <1>2, <1>3, <1>4, <2>3
    <2>5. S[1].at = NewestAt
      BY <1>3, <1>4, <2>2, <2>4
    <2>. QED BY <1>1, <2>3, <2>5
  <1>5. CASE S = <<>> \/ check.current - S[1].at > MaximumGap
    <2>1. KnownTimes = {} \/ check.current - NewestAt > MaximumGap
      <3>1. SUFFICES ASSUME KnownTimes # {}, ~(check.current - NewestAt > MaximumGap) PROVE FALSE
        OBVIOUS
      <3>2. check.current - NewestAt <= MaximumGap
        BY <1>3, <1>w, <3>1
      <3>3. S # <<>> /\ S[1].at = NewestAt
        BY <1>4, <3>1, <3>2
      <3>. QED BY <1>5, <3>1, <3>3
    <2>2. NewestDecides /\ VerdictOfNewest(S, check.current) = "insufficient"
      <3>1. NewestDecides
        BY <1>5 DEF NewestDecides
      <3>2. VerdictOfNewest(S, check.current) = "insufficient"
        BY <1>5 DEF VerdictOfNewest
      <3>. QED BY <3>1, <3>2
    <2>. QED BY <2>1, <2>2 DEF DoneInv, Meaning
  <1>6. CASE ~(S = <<>> \/ check.current - S[1].at > MaximumGap)
    <2>1. 1 \in 1 .. Len(S) /\ S[1].at \in Nat /\ S[1].at \in KnownTimes
      <3>1. Len(S) # 0
        BY <1>1, <1>6
      <3>2. 1 \in 1 .. Len(S)
        BY <1>1, <3>1
      <3>. QED BY <1>1, <1>2, <3>2
    <2>2. /\ KnownTimes # {} /\ S[1].at <= NewestAt
          /\ check.current - S[1].at <= MaximumGap /\ check.current - NewestAt <= MaximumGap
      BY <1>3, <1>6, <1>w, <2>1
    <2>3. S[1].at = NewestAt
      BY <1>4, <2>2
    <2>4. StateAt(NewestAt) = S[1].state
      BY <1>2, <2>1, <2>3 DEF LeadsItsTime
    <2>5. CASE S[1].state # "active" \/ ~pending
      <3>1. NewestDecides /\ VerdictOfNewest(S, check.current) = S[1].state
        BY <1>6, <2>5 DEF NewestDecides, VerdictOfNewest
      <3>2. Meaning = StateAt(NewestAt)
        BY <1>3, <1>w, <2>2, <2>4, <2>5 DEF Meaning
      <3>. QED BY <2>4, <3>1, <3>2 DEF DoneInv
    <2>6. CASE S[1].state = "active" /\ pending
      <3>1. /\ Walked /\ Stopped
            /\ check.verdict = IF S[1].at - check.earliest < PendingDuration THEN "pending" ELSE "active"
        BY <1>6, <2>6 DEF DoneInv, NewestDecides
      <3>2. Meaning = IF \E t \in KnownTimes : NewestAt - t >= PendingDuration /\ ActiveSince(t)
                      THEN "active" ELSE "pending"
        BY <1>3, <1>w, <2>2, <2>4, <2>6 DEF Meaning
      <3>3. check.earliest \in KnownTimes /\ ActiveSince(check.earliest) /\ check.earliest \in Nat
        BY <1>2, <3>1, WalkIsActive
      <3>4. ASSUME NEW t \in KnownTimes, NewestAt - t >= PendingDuration, ActiveSince(t)
            PROVE  NewestAt - check.earliest >= PendingDuration
        <4>1. CASE t < check.earliest
          <5>1. Window(pending) = PendingDuration + 2 * MaximumGap
            BY <2>6 DEF Window
          <5>. QED BY <2>2, <2>3, <3>1, <3>4, <4>1, <5>1, WalkIsWhole
        <4>2. CASE t >= check.earliest
          BY <1>2, <1>3, <1>w, <2>2, <3>3, <3>4, <4>2
        <4>. QED BY <1>2, <3>3, <4>1, <4>2
      <3>5. S[1].at - check.earliest < PendingDuration <=> ~(NewestAt - check.earliest >= PendingDuration)
        BY <1>w, <2>1, <2>3, <3>3
      <3>. QED BY <3>1, <3>2, <3>3, <3>4, <3>5
    <2>. QED BY <2>5, <2>6 DEF StoredInv
  <1>. QED BY <1>5, <1>6

-----------------------------------------------------------------------------
(* The steps of a check, and what lands and goes while it runs.              *)

Shape ==
    check = [pc |-> check.pc, verdict |-> check.verdict, current |-> check.current,
             known |-> check.known, samples |-> check.samples, next |-> check.next,
             earliest |-> check.earliest]

CheckInv ==
    /\ check.pc \in {"idle", "refused", "read", "walk", "done"}
    /\ check.pc = "read" => ReadInv
    /\ check.pc \in {"walk", "done"} => Shape /\ ScanInv
    /\ check.pc = "walk" => ~NewestDecides /\ Walked
    /\ check.pc = "done" => DoneInv

EvidenceInv == StoredInv /\ CheckInv

\* The samples are typed.
LEMMA SamplesTyped ==
  StoredInv /\ ScanInv =>
    /\ Len(check.samples) \in Nat
    /\ \A n \in 1 .. Len(check.samples) :
          /\ check.samples[n].at \in Nat
          /\ check.samples[n].state \in {"healthy", "active", "insufficient"}
    /\ check.samples # <<>> => Len(check.samples) # 0
  <1> SUFFICES ASSUME StoredInv, ScanInv
               PROVE  /\ Len(check.samples) \in Nat
                      /\ \A n \in 1 .. Len(check.samples) :
                            /\ check.samples[n].at \in Nat
                            /\ check.samples[n].state \in {"healthy", "active", "insufficient"}
                      /\ check.samples # <<>> => Len(check.samples) # 0
    OBVIOUS
  <1> DEFINE size == Cardinality(Kept)
             top == Len(stored)
             S == check.samples
  <1>1. PICK nth \in [1 .. size -> Kept] :
           /\ size \in Nat
           /\ S = [n \in 1 .. size |-> [at |-> stored[nth[n]].at,
                     state |-> evaluateMeasurement(stored[nth[n]].measurement)]]
    BY SamplesAre
  <1>2. /\ top \in Nat
        /\ \A i \in 1 .. top : stored[i].at \in Nat /\ stored[i].measurement \in Measurement
    <2>1. PICK T : T = [at : Nat, measurement : Measurement]
      OBVIOUS
    <2>2. stored \in Seq(T)
      BY <2>1 DEF StoredInv
    <2>3. top \in Nat /\ \A i \in 1 .. top : stored[i] \in T
      BY <2>2
    <2>. QED BY <2>1, <2>3
  <1>3. Kept \in SUBSET (1 .. top)
    BY <1>2 DEF Kept, StoredInv
  <1>4. \A n \in 1 .. size : S[n] \in Sample
    <2>1. ASSUME NEW n \in 1 .. size PROVE S[n] \in Sample
      <3>1. nth[n] \in 1 .. top
        BY <1>1, <1>3
      <3>2. stored[nth[n]].at \in Nat /\ stored[nth[n]].measurement \in Measurement
        BY <1>2, <3>1
      <3>3. evaluateMeasurement(stored[nth[n]].measurement) \in {"healthy", "active", "insufficient"}
        BY <3>2, JudgesOneOf DEF ScanInv, ReadInv
      <3>. QED BY <1>1, <3>2, <3>3 DEF Sample
    <2>. QED BY <2>1
  <1>5. S \in Seq(Sample) /\ DOMAIN S = 1 .. size
    <2>1. S \in [1 .. size -> Sample] /\ size \in Nat
      BY <1>1, <1>4
    <2>. QED BY <2>1
  <1>6. Len(S) \in Nat /\ \A n \in 1 .. Len(S) : S[n] \in Sample
    BY <1>5
  <1>7. S # <<>> => Len(S) # 0
    BY <1>5, EmptySeq
  <1>. QED BY <1>6, <1>7 DEF Sample

\* At the start nothing is measured and no check runs.
LEMMA EvidenceStart == AlertEvidenceInit => EvidenceInv
  <1> SUFFICES ASSUME AlertEvidenceInit PROVE EvidenceInv
    OBVIOUS
  <1>1. check.pc = "idle"
    BY DEF AlertEvidenceInit, NoCheck
  <1>2. stored = <<>> /\ swept = 0 /\ checkClock = 0 /\ pending \in BOOLEAN
    BY DEF AlertEvidenceInit
  <1>3. StoredInv
    <2>1. stored \in Seq([at : Nat, measurement : Measurement]) /\ Len(stored) = 0
      BY <1>2
    <2>. QED BY <1>2, <2>1 DEF StoredInv
  <1>. QED BY <1>1, <1>3 DEF EvidenceInv, CheckInv

\* Measurements land at the clock, which moves on, and the oldest go.
LEMMA StoreStep ==
  ASSUME EvidenceInv,
         Tick \/ SweepMeasurement \/ \E measurement \in Measurement : StoreMeasurement(measurement)
  PROVE  EvidenceInv'
  <1> DEFINE size == Len(stored)
  <1>t. /\ checkClock \in Nat /\ stored \in Seq([at : Nat, measurement : Measurement])
        /\ swept \in 0 .. size /\ size \in Nat /\ RetentionTTL \in Nat /\ ReadDelay \in Nat
        /\ \A i \in 1 .. size : stored[i].at <= checkClock
        /\ \A i, j \in 1 .. size : i <= j => stored[i].at <= stored[j].at
        /\ \A i \in 1 .. swept : RetentionTTL > 0 /\ stored[i].at + RetentionTTL < checkClock
    BY PolicyIsValid DEF EvidenceInv, StoredInv
  <1>a. \A i \in 1 .. size : stored[i].at \in Nat
    <2>1. PICK T : T = [at : Nat, measurement : Measurement]
      OBVIOUS
    <2>2. stored \in Seq(T)
      BY <1>t, <2>1
    <2>3. \A i \in 1 .. size : stored[i] \in T
      BY <2>2
    <2>. QED BY <2>1, <2>3
  <1>1. /\ UNCHANGED <<alertName, pending, check>> /\ check.pc \in {"idle", "read"}
        /\ checkClock' \in Nat /\ checkClock <= checkClock'
        /\ check.pc = "read" => checkClock' = checkClock \/ checkClock' <= check.current + ReadDelay
    <2>1. CASE Tick
      <3>1. checkClock' = checkClock + 1 /\ (check.pc = "read" => checkClock < check.current + ReadDelay)
        BY <2>1 DEF Tick
      <3>2. check.pc = "read" => check.current \in Nat
        BY DEF EvidenceInv, CheckInv, ReadInv
      <3>3. check.pc = "read" => checkClock + 1 <= check.current + ReadDelay
        BY <1>t, <3>1, <3>2
      <3>. QED BY <1>t, <2>1, <3>1, <3>3 DEF Tick, BeforeRead
    <2>2. CASE SweepMeasurement
      BY <1>t, <2>2 DEF SweepMeasurement, BeforeRead
    <2>3. CASE \E measurement \in Measurement : StoreMeasurement(measurement)
      BY <1>t, <2>3 DEF StoreMeasurement, BeforeRead
    <2>. QED BY <2>1, <2>2, <2>3
  <1>2. CheckInv'
    <2>1. check.pc = "read" => ReadInv'
      <3> SUFFICES ASSUME check.pc = "read" PROVE ReadInv'
        OBVIOUS
      <3>1. ReadInv
        BY DEF EvidenceInv, CheckInv
      <3>2. check.current <= checkClock' /\ checkClock' <= check.current + ReadDelay
        BY <1>t, <1>1, <3>1 DEF ReadInv
      <3>. QED BY <1>1, <3>1, <3>2 DEF ReadInv
    <2>. QED BY <1>1, <2>1 DEF CheckInv
  <1>3. StoredInv'
    <2>1. CASE Tick
      <3>1. UNCHANGED <<stored, swept, pending>>
        BY <2>1 DEF Tick
      <3>2. \A i \in 1 .. size : stored[i].at <= checkClock'
        BY <1>t, <1>a, <1>1
      <3>3. \A i \in 1 .. swept : stored[i].at + RetentionTTL < checkClock'
        BY <1>t, <1>a, <1>1
      <3>. QED BY <1>t, <1>1, <3>1, <3>2, <3>3 DEF EvidenceInv, StoredInv
    <2>2. CASE SweepMeasurement
      <3>1. /\ UNCHANGED <<stored, checkClock, pending>> /\ swept' = swept + 1 /\ swept < size
            /\ RetentionTTL > 0 /\ stored[swept + 1].at < checkClock - RetentionTTL
        BY <2>2 DEF SweepMeasurement
      <3>2. stored[swept + 1].at + RetentionTTL < checkClock
        BY <1>t, <1>a, <3>1
      <3>3. \A i \in 1 .. swept + 1 : RetentionTTL > 0 /\ stored[i].at + RetentionTTL < checkClock
        BY <1>t, <3>1, <3>2
      <3>. QED BY <1>t, <3>1, <3>3 DEF EvidenceInv, StoredInv
    <2>3. ASSUME NEW measurement \in Measurement, StoreMeasurement(measurement) PROVE StoredInv'
      <3>1. /\ UNCHANGED <<swept, checkClock, pending>>
            /\ stored' = Append(stored, [at |-> checkClock, measurement |-> measurement])
        BY <2>3 DEF StoreMeasurement
      <3>2. PICK landed \in [at : Nat, measurement : Measurement] :
              stored' = Append(stored, landed) /\ landed.at = checkClock
        BY <1>t, <3>1
      <3>3. PICK T : T = [at : Nat, measurement : Measurement] /\ stored \in Seq(T) /\ landed \in T
        BY <1>t
      <3>4. /\ stored' \in Seq(T) /\ Len(stored') = size + 1
            /\ \A i \in 1 .. size : stored'[i] = stored[i]
            /\ stored'[size + 1] = landed
        BY <3>2, <3>3
      <3>5. \A i \in 1 .. size + 1 : stored'[i].at <= checkClock /\ stored'[i].at \in Nat
        BY <1>t, <1>a, <3>2, <3>4
      <3>6. \A i, j \in 1 .. size + 1 : i <= j => stored'[i].at <= stored'[j].at
        BY <1>t, <1>a, <3>2, <3>4, <3>5
      <3>7. \A i \in 1 .. swept : RetentionTTL > 0 /\ stored'[i].at + RetentionTTL < checkClock
        <4>1. \A i \in 1 .. swept : i \in 1 .. size
          BY <1>t
        <4>. QED BY <1>t, <3>4, <4>1
      <3>. QED BY <1>t, <3>1, <3>3, <3>4, <3>5, <3>6, <3>7 DEF EvidenceInv, StoredInv
    <2>. QED BY <2>1, <2>2, <2>3
  <1>. QED BY <1>2, <1>3 DEF EvidenceInv

\* The samples of a window by the places of its rows.
LEMMA SamplesByPlace ==
  KeyMessages(check.current - Window(pending), check.current) =
    [n \in DOMAIN NewestFirst(Kept) |->
        [at |-> stored[NewestFirst(Kept)[n]].at,
         state |-> evaluateMeasurement(stored[NewestFirst(Kept)[n]].measurement)]]
  BY DEF KeyMessages, Kept

\* They depend on the rows, on the alert and on the window only.
LEMMA SamplesStay ==
  ASSUME UNCHANGED <<stored, swept, alertName, pending>>, check'.current = check.current
  PROVE  (KeyMessages(check.current - Window(pending), check.current))'
           = KeyMessages(check.current - Window(pending), check.current)
  <1> DEFINE samples == KeyMessages(check.current - Window(pending), check.current)
             nth == NewestFirst(Kept)
             reading(n) == stored[nth[n]].measurement
  <1>1. Kept' = Kept
    BY DEF Kept, Window
  <1>2. nth' = nth
    BY <1>1
  <1>3. samples = [n \in DOMAIN nth |->
                     [at |-> stored[nth[n]].at, state |-> evaluateMeasurement(reading(n))]]
    BY SamplesByPlace
  <1>4. (samples = [n \in DOMAIN nth |->
                     [at |-> stored[nth[n]].at, state |-> evaluateMeasurement(reading(n))]])'
    BY SamplesByPlace, PTL
  <1>5. ASSUME NEW n \in DOMAIN nth
        PROVE  evaluateMeasurement(reading(n))' = evaluateMeasurement(reading(n))
    <2>1. reading(n)' = reading(n)
      BY <1>2
    <2> HIDE DEF reading
    <2>. QED BY <2>1 DEF evaluateMeasurement, PartitionCount, CompactionReadCost, WorkerLiveness, ByCount
  <1> HIDE DEF nth, reading
  <1>6. (samples = [n \in DOMAIN nth |-> [at |-> stored[nth[n]].at,
                                          state |-> evaluateMeasurement(reading(n))]])'
        => samples' = [n \in DOMAIN nth |-> [at |-> stored[nth[n]].at,
                                             state |-> evaluateMeasurement(reading(n))]]
    BY <1>2, <1>5
  <1> HIDE DEF samples
  <1>7. samples' = samples
    BY <1>3, <1>4, <1>6
  <1>. QED BY <1>7 DEF samples

\* A check begins at a clock it has read, and is given the samples of its window.
LEMMA ReadStep ==
  ASSUME EvidenceInv,
         ReadHistory \/ \E name \in AlertName, hold \in BOOLEAN : ReadClock(name, hold)
  PROVE  EvidenceInv'
  <1>t. checkClock \in Nat /\ ReadDelay \in Nat
    BY PolicyIsValid DEF EvidenceInv, StoredInv
  <1>1. ASSUME NEW name \in AlertName, NEW hold \in BOOLEAN, ReadClock(name, hold)
        PROVE  EvidenceInv'
    <2>1. /\ UNCHANGED <<checkClock, stored, swept>> /\ alertName' = name /\ pending' = hold
          /\ check' = IF RetentionTTL > 0 /\ RetentionTTL <= Window(hold)
                      THEN [pc |-> "refused"]
                      ELSE [pc |-> "read", current |-> checkClock]
      BY <1>1 DEF ReadClock
    <2>2. StoredInv'
      BY <2>1 DEF EvidenceInv, StoredInv
    <2>3. CASE RetentionTTL > 0 /\ RetentionTTL <= Window(hold)
      <3>1. check'.pc = "refused"
        BY <2>1, <2>3
      <3>. QED BY <2>2, <3>1 DEF EvidenceInv, CheckInv
    <2>4. CASE ~(RetentionTTL > 0 /\ RetentionTTL <= Window(hold))
      <3>1. check'.pc = "read" /\ check'.current = checkClock
        BY <2>1, <2>4
      <3>2. RetentionTTL > 0 => RetentionTTL > Window(hold)
        <4>1. RetentionTTL \in Nat /\ Window(hold) \in Nat
          BY PolicyIsValid, WindowIs
        <4>. QED BY <2>4, <4>1
      <3>3. ReadInv'
        BY <1>t, <2>1, <3>1, <3>2 DEF ReadInv, Window
      <3>. QED BY <2>2, <3>1, <3>3 DEF EvidenceInv, CheckInv
    <2>. QED BY <2>3, <2>4
  <1>2. ASSUME ReadHistory PROVE EvidenceInv'
    <2> DEFINE samples == KeyMessages(check.current - Window(pending), check.current)
               judged == VerdictOfNewest(samples, check.current)
    <2>1. /\ check.pc = "read" /\ UNCHANGED <<alertName, pending, checkClock, stored, swept>>
          /\ check' = [pc |-> IF judged = "scan" THEN "walk" ELSE "done",
                       verdict |-> judged,
                       current |-> check.current, known |-> Len(stored),
                       samples |-> samples, next |-> 2,
                       earliest |-> IF judged = "scan" THEN samples[1].at ELSE 0]
      BY <1>2 DEF ReadHistory
    <2>2. /\ check'.pc = (IF judged = "scan" THEN "walk" ELSE "done")
          /\ check'.verdict = judged /\ check'.current = check.current
          /\ check'.known = Len(stored) /\ check'.samples = samples /\ check'.next = 2
          /\ judged = "scan" => check'.earliest = samples[1].at
          /\ Shape'
      <3> HIDE DEF samples, judged
      <3>. QED BY <2>1 DEF Shape
    <2>3. StoredInv' /\ ReadInv'
      BY <2>1, <2>2 DEF EvidenceInv, CheckInv, StoredInv, ReadInv, Window
    <2>4. (check.samples = KeyMessages(check.current - Window(pending), check.current))'
      <3>1. UNCHANGED <<stored, swept, alertName, pending>> /\ check'.current = check.current
        BY <2>1, <2>2
      <3>2. check'.samples = KeyMessages(check.current - Window(pending), check.current)
        BY <2>2
      <3>. QED BY <3>1, <3>2, SamplesStay
    <2>5. ScanInv'
      <3>1. check'.known = Len(stored)'
        BY <2>1, <2>2
      <3>. QED BY <2>3, <2>4, <3>1 DEF ScanInv
    <2>6. /\ Len(check'.samples) \in Nat
          /\ \A n \in 1 .. Len(check'.samples) :
                check'.samples[n].state \in {"healthy", "active", "insufficient"}
          /\ check'.samples # <<>> => Len(check'.samples) # 0
      <3>1. (StoredInv /\ ScanInv =>
               /\ Len(check.samples) \in Nat
               /\ \A n \in 1 .. Len(check.samples) :
                     /\ check.samples[n].at \in Nat
                     /\ check.samples[n].state \in {"healthy", "active", "insufficient"}
               /\ check.samples # <<>> => Len(check.samples) # 0)'
        BY SamplesTyped, PTL
      <3>. QED BY <2>3, <2>5, <3>1
    <2>7. (check.verdict = VerdictOfNewest(check.samples, check.current))'
      BY <2>1, <2>2 DEF VerdictOfNewest
    <2>8. judged = "scan" <=> ~NewestDecides'
      <3>1. /\ check'.samples = samples /\ check'.current = check.current /\ pending' = pending
            /\ samples # <<>> => samples[1].state # "scan"
        <4>1. samples # <<>> => 1 \in 1 .. Len(check'.samples)
          BY <2>2, <2>6
        <4>. QED BY <2>1, <2>2, <2>6, <4>1
      <3> HIDE DEF samples
      <3>2. judged = "scan" <=> /\ samples # <<>> /\ ~(check.current - samples[1].at > MaximumGap)
                                 /\ samples[1].state = "active" /\ pending
        BY <3>1 DEF VerdictOfNewest
      <3>. QED BY <3>1, <3>2 DEF NewestDecides
    <2>9. CASE judged = "scan"
      <3>1. ~NewestDecides' /\ check'.pc = "walk"
        BY <2>2, <2>8, <2>9
      <3>2. check'.samples # <<>> /\ check'.samples[1].state = "active"
        BY <3>1 DEF NewestDecides
      <3>3. Walked'
        BY <2>2, <2>6, <2>9, <3>2 DEF Walked, LeadsItsTime
      <3>. QED BY <2>2, <2>3, <2>5, <3>1, <3>3 DEF EvidenceInv, CheckInv
    <2>10. CASE judged # "scan"
      BY <2>2, <2>3, <2>5, <2>7, <2>8, <2>10 DEF EvidenceInv, CheckInv, DoneInv
    <2>. QED BY <2>9, <2>10
  <1>. QED BY <1>1, <1>2

\* One sample of the walk.
LEMMA WalkStep ==
  ASSUME EvidenceInv, WalkBack
  PROVE  EvidenceInv'
  <1> DEFINE S == check.samples
             n == check.next
  <1>1. /\ check.pc = "walk" /\ UNCHANGED <<alertName, pending, checkClock, stored, swept>>
        /\ StoredInv /\ Shape /\ ScanInv /\ ~NewestDecides /\ Walked
    BY DEF EvidenceInv, CheckInv, WalkBack
  <1>t. /\ Len(S) \in Nat /\ \A m \in 1 .. Len(S) : S[m].at \in Nat
        /\ n \in 2 .. Len(S) + 1 /\ check.earliest = S[n - 1].at /\ MaximumGap \in Nat
    BY <1>1, SamplesTyped, PolicyIsValid DEF Walked
  <1>s. ASSUME check'.current = check.current, check'.known = check.known, check'.samples = S
        PROVE  StoredInv' /\ ScanInv' /\ (NewestDecides' <=> NewestDecides)
    <2>1. StoredInv' /\ ReadInv'
      BY <1>1, <1>s DEF StoredInv, ScanInv, ReadInv, Window
    <2>2. (check.samples = KeyMessages(check.current - Window(pending), check.current))'
      <3>1. check'.samples = KeyMessages(check.current - Window(pending), check.current)
        BY <1>1, <1>s DEF ScanInv
      <3>. QED BY <1>1, <1>s, <3>1, SamplesStay
    <2>3. NewestDecides' <=> NewestDecides
      BY <1>1, <1>s DEF NewestDecides
    <2>. QED BY <1>1, <1>s, <2>1, <2>2, <2>3 DEF ScanInv, Window
  <1>c. ASSUME Conclude, n > Len(S) \/ (S[n].at # check.earliest /\ Breaks(S[n])) PROVE EvidenceInv'
    <2> DEFINE judged == IF S[1].at - check.earliest < PendingDuration THEN "pending" ELSE "active"
    <2>1. check' = [check EXCEPT !.pc = "done", !.verdict = judged]
      BY <1>c DEF Conclude
    <2> HIDE DEF judged
    <2>2. /\ check'.pc = "done" /\ check'.verdict = judged /\ check'.current = check.current
          /\ check'.known = check.known /\ check'.samples = S /\ check'.next = n
          /\ check'.earliest = check.earliest /\ Shape'
      BY <1>1, <2>1 DEF Shape
    <2>3. StoredInv' /\ ScanInv' /\ ~NewestDecides'
      BY <1>1, <1>s, <2>2
    <2>4. Walked' /\ Stopped'
      BY <1>1, <1>c, <2>2 DEF Walked, Stopped, Breaks, LeadsItsTime, Window
    <2>5. DoneInv'
      BY <2>2, <2>3, <2>4 DEF DoneInv, judged
    <2>. QED BY <2>2, <2>3, <2>5 DEF EvidenceInv, CheckInv
  <1>g. ASSUME n <= Len(S), NEW e, e = S[n].at,
               check' = [check EXCEPT !.next = n + 1, !.earliest = e],
               LeadsItsTime(n) => S[n].state = "active", S[n - 1].at - e <= MaximumGap
        PROVE  EvidenceInv'
    <2>2. /\ check'.pc = "walk" /\ check'.verdict = check.verdict /\ check'.current = check.current
          /\ check'.known = check.known /\ check'.samples = S /\ check'.next = n + 1
          /\ check'.earliest = e /\ Shape'
      BY <1>1, <1>g DEF Shape
    <2>3. StoredInv' /\ ScanInv' /\ ~NewestDecides'
      BY <1>1, <1>s, <2>2
    <2>4. Walked'
      <3>1. n + 1 \in 2 .. Len(S) + 1 /\ (n + 1) - 1 = n
        BY <1>t, <1>g
      <3>2. ASSUME NEW m \in 1 .. n
            PROVE  /\ LeadsItsTime(m) => S[m].state = "active"
                   /\ m > 1 => S[m - 1].at - S[m].at <= MaximumGap
        <4>1. CASE m = n
          BY <1>g, <4>1
        <4>2. CASE m # n
          <5>1. m \in 1 .. n - 1
            BY <1>t, <4>2
          <5>. QED BY <1>1, <5>1 DEF Walked
        <4>. QED BY <4>1, <4>2
      <3>. QED BY <1>g, <2>2, <3>1, <3>2 DEF Walked, LeadsItsTime
    <2>. QED BY <2>2, <2>3, <2>4 DEF EvidenceInv, CheckInv
  <1>2. CASE n > Len(S)
    BY <1>c, <1>2 DEF WalkBack
  <1>3. CASE n <= Len(S)
    <2>1. n \in 1 .. Len(S) /\ n - 1 \in 1 .. Len(S) /\ ~(n > Len(S)) /\ n # 1
      BY <1>t, <1>3
    <2>2. CASE S[n].at = check.earliest
      <3>1. check' = [check EXCEPT !.next = n + 1]
        BY <2>1, <2>2 DEF WalkBack
      <3>2. check' = [check EXCEPT !.next = n + 1, !.earliest = check.earliest]
        BY <1>1, <3>1 DEF Shape
      <3>3. ~LeadsItsTime(n) /\ S[n - 1].at - check.earliest <= MaximumGap
        BY <1>t, <2>1, <2>2 DEF LeadsItsTime
      <3>. QED BY <1>g, <1>3, <2>2, <3>2, <3>3
    <2>3. CASE S[n].at # check.earliest /\ Breaks(S[n])
      <3>1. Conclude
        BY <2>1, <2>3 DEF WalkBack
      <3>. QED BY <1>c, <2>3, <3>1
    <2>4. CASE S[n].at # check.earliest /\ ~Breaks(S[n])
      <3>1. check' = [check EXCEPT !.next = n + 1, !.earliest = S[n].at]
        BY <2>1, <2>4 DEF WalkBack
      <3>2. S[n].state = "active" /\ S[n - 1].at - S[n].at <= MaximumGap
        BY <1>t, <2>1, <2>4 DEF Breaks
      <3>. QED BY <1>g, <1>3, <3>1, <3>2
    <2>. QED BY <2>2, <2>3, <2>4
  <1>. QED BY <1>t, <1>2, <1>3

\* What measurements, retention and a check do keeps the invariant.
LEMMA EvidenceStep == EvidenceInv /\ AlertEvidenceNext => EvidenceInv'
  BY StoreStep, ReadStep, WalkStep DEF AlertEvidenceNext

\* A step of another component leaves the check alone.
LEMMA EvidenceRests == EvidenceInv /\ UNCHANGED evidenceVars => EvidenceInv'
  <1> SUFFICES ASSUME EvidenceInv, UNCHANGED evidenceVars PROVE EvidenceInv'
    OBVIOUS
  <1>1. UNCHANGED <<alertName, pending, checkClock, stored, swept, check>>
    BY DEF evidenceVars
  <1>2. StoredInv' /\ (ReadInv => ReadInv')
    BY <1>1 DEF EvidenceInv, StoredInv, ReadInv, Window
  <1>3. ScanInv => ScanInv'
    <2> SUFFICES ASSUME ScanInv PROVE ScanInv'
      OBVIOUS
    <2>1. (check.samples = KeyMessages(check.current - Window(pending), check.current))'
      BY <1>1, SamplesStay DEF ScanInv
    <2>. QED BY <1>1, <1>2, <2>1 DEF ScanInv
  <1>4. /\ Shape' = Shape /\ (NewestDecides' <=> NewestDecides)
        /\ (Walked => Walked') /\ (Stopped => Stopped')
    BY <1>1 DEF Shape, NewestDecides, Walked, Stopped, Breaks, LeadsItsTime, Window
  <1>5. DoneInv => DoneInv'
    BY <1>1, <1>4 DEF DoneInv, VerdictOfNewest
  <1>. QED BY <1>1, <1>2, <1>3, <1>4, <1>5 DEF EvidenceInv, CheckInv

\* As long as a check reads its rows within the time the stream keeps beyond its
\* window, its verdict is what the whole history of the series means at the clock
\* it read: no measurement that lands, no row that retention removes and no rows
\* that share a time make a due alert pending or a pending one due
\* (EvaluateHistory, GetMeasurementHistory).
THEOREM VerdictsFit ==
  ASSUME ReadIsPrompt
  PROVE  ServicesSpec => [](part = "evidence" => VerdictFitsHistory)
  <1> DEFINE I == part = "evidence" => EvidenceInv
  <1>1. ServicesInit => I
    BY EvidenceStart DEF ServicesInit
  <1>2. I /\ [ServicesNext]_servicesVars => I'
    <2> SUFFICES ASSUME I, [ServicesNext]_servicesVars, part' = "evidence" PROVE EvidenceInv'
      OBVIOUS
    <2>1. part = "evidence"
      BY DEF ServicesNext, servicesVars
    <2>2. AlertEvidenceNext \/ UNCHANGED evidenceVars
      BY <2>1 DEF ServicesNext, servicesVars
    <2>. QED BY <2>1, <2>2, EvidenceStep, EvidenceRests
  <1>3. I => (part = "evidence" => VerdictFitsHistory)
    <2> SUFFICES ASSUME EvidenceInv, check.pc = "done" PROVE check.verdict = Meaning
      BY DEF VerdictFitsHistory
    <2>. QED BY VerdictIs DEF EvidenceInv, CheckInv
  <1>. QED BY <1>1, <1>2, <1>3, PTL DEF ServicesSpec

-----------------------------------------------------------------------------
(* The alert on the collector itself. *)

LeaseRow == [createdAt : Nat, expiresAt : Nat]

\* Somebody claimed or renewed within a lease's length of the moment.
Attended(t) == \E u \in t - LeaseTTL + 1 .. t : u \in Range(leaseWrites)

ProgressType ==
    /\ usesPending \in BOOLEAN
    /\ now \in Nat
    /\ lease \in LeaseRow
    /\ leaseLog \in SUBSET LeaseRow /\ IsFiniteSet(leaseLog)
    /\ leaseWrites \in Seq(Nat)
    /\ completions \in Seq(Nat)
    /\ handovers \in SUBSET Nat
    /\ manned \in SUBSET Nat
    /\ progress \in [pc : {"idle"}] \cup [pc : {"read"}, completedAt : Nat \cup {NotYet}]
                    \cup [pc : {"done"}, completedAt : Nat \cup {NotYet},
                          verdict : {"healthy", "insufficient", "pending", "active"}]

(* An entry is of a claim and says no more than the writes do, and a moment *)
(* that was manned is on record for as long as the log is kept.            *)
RecordsInv ==
    /\ LeaseHeld => lease \in leaseLog
    /\ \A entry \in leaseLog :
          /\ entry.createdAt <= now /\ entry.createdAt \in handovers
          /\ \A t \in entry.createdAt .. entry.expiresAt - 1 : Attended(t)
    /\ \A t \in manned :
          /\ t < now
          /\ \/ t < now - InstanceLogTTL - 1
             \/ \E entry \in leaseLog : entry.createdAt <= t /\ t < entry.expiresAt

ProgressInv == ProgressType /\ RecordsInv /\ SilenceIsCounted

\* Of some leases there is one that is listed last.
LEMMA LastIsListed ==
  ASSUME NEW entries \in SUBSET LeaseRow, entries # {}
  PROVE  /\ LastListed(entries) \in entries
         /\ \A entry \in entries : LastListed(entries).createdAt <= entry.createdAt
  <1> DEFINE Claims == {entry.createdAt : entry \in entries}
  <1>1. Claims \in SUBSET Nat /\ Claims # {}
    BY DEF LeaseRow
  <1>2. Min(Claims) \in Claims /\ \A t \in Claims : Min(Claims) <= t
    BY <1>1, MinOfNaturals
  <1> DEFINE First == {entry \in entries : entry.createdAt = Min(Claims)}
             Expiries == {entry.expiresAt : entry \in First}
  <1>3. First # {}
    BY <1>2
  <1>4. Expiries \in SUBSET Nat /\ Expiries # {}
    BY <1>3 DEF LeaseRow
  <1>5. PICK first \in First : \A entry \in First : first.expiresAt <= entry.expiresAt
    <2>1. Min(Expiries) \in Expiries /\ \A t \in Expiries : Min(Expiries) <= t
      BY <1>4, MinOfNaturals
    <2>2. PICK first \in First : first.expiresAt = Min(Expiries)
      BY <2>1
    <2>. QED BY <2>1, <2>2
  <1>6. first \in entries /\ \A entry \in entries :
           \/ first.createdAt < entry.createdAt
           \/ first.createdAt = entry.createdAt /\ first.expiresAt <= entry.expiresAt
    <2>1. \A entry \in entries : entry.createdAt \in Claims /\ entry.createdAt \in Nat /\ entry.expiresAt \in Nat
      BY DEF LeaseRow
    <2>2. first \in entries /\ first.createdAt = Min(Claims)
      BY <1>5
    <2>3. ASSUME NEW entry \in entries PROVE first.createdAt <= entry.createdAt
      BY <1>2, <2>1, <2>2
    <2>4. ASSUME NEW entry \in entries, first.createdAt = entry.createdAt
          PROVE  first.expiresAt <= entry.expiresAt
      BY <1>5, <2>2, <2>4
    <2>5. first.createdAt \in Nat /\ \A entry \in entries : entry.createdAt \in Nat
      BY <2>1, <2>2
    <2> HIDE DEF First, Claims, Expiries
    <2>6. ASSUME NEW entry \in entries
          PROVE  \/ first.createdAt < entry.createdAt
                 \/ first.createdAt = entry.createdAt /\ first.expiresAt <= entry.expiresAt
      <3>1. first.createdAt < entry.createdAt \/ first.createdAt = entry.createdAt
        BY <2>3, <2>5
      <3>. QED BY <2>4, <3>1
    <2>. QED BY <2>2, <2>6
  <1>7. LastListed(entries) \in entries /\ \A entry \in entries :
           \/ LastListed(entries).createdAt < entry.createdAt
           \/ LastListed(entries).createdAt = entry.createdAt /\ LastListed(entries).expiresAt <= entry.expiresAt
    <2> HIDE DEF First, Expiries, Claims
    <2>. QED BY <1>6 DEF LastListed
  <1>8. \A entry \in entries : entry.createdAt \in Nat
    BY DEF LeaseRow
  <1>. QED BY <1>7, <1>8

(* The loop of continuousLeaseStart as a function of the entries it has taken. *)
LoopStep(h, entries) ==
    IF entries = {} THEN NotYet
    ELSE ExtendCoverage(h[entries \ {LastListed(entries)}], LastListed(entries))
IsLoop(H, h) == h = [entries \in SUBSET H |-> LoopStep(h, entries)]

\* What is left when the last entry is taken out is smaller.
LEMMA LastOut ==
  ASSUME NEW H \in SUBSET LeaseRow, IsFiniteSet(H), NEW entries \in SUBSET H
  PROVE  /\ IsFiniteSet(entries) /\ Cardinality(entries) \in Nat
         /\ entries # {} => /\ LastListed(entries) \in entries
                         /\ entries \ {LastListed(entries)} \in SUBSET H
                         /\ Cardinality(entries \ {LastListed(entries)}) = Cardinality(entries) - 1
                         /\ Cardinality(entries) > 0
  <1>1. IsFiniteSet(entries) /\ Cardinality(entries) \in Nat
    BY FS_Subset, FS_CardinalityType
  <1>2. entries # {} => LastListed(entries) \in entries
    BY LastIsListed
  <1>3. entries # {} => Cardinality(entries \ {LastListed(entries)}) = Cardinality(entries) - 1
    BY <1>1, <1>2, FS_RemoveElement
  <1>4. entries # {} => Cardinality(entries) # 0
    BY <1>1, FS_EmptySet
  <1>. QED BY <1>1, <1>2, <1>3, <1>4

\* The loop is a function of finitely many entries.
LEMMA LoopExists ==
  ASSUME NEW H \in SUBSET LeaseRow, IsFiniteSet(H)
  PROVE  \E h : IsLoop(H, h)
  <1> DEFINE Upto(n, h) == /\ h = [entries \in SUBSET H |-> h[entries]]
                           /\ \A entries \in SUBSET H : Cardinality(entries) <= n => h[entries] = LoopStep(h, entries)
             Missing == {n \in Nat : ~\E h : Upto(n, h)}
  <1>1. Missing = {}
    <2>1. SUFFICES ASSUME Missing # {} PROVE FALSE
      OBVIOUS
    <2>2. PICK n \in Missing : \A k \in Missing : n <= k
      <3>1. Missing \in SUBSET Nat
        OBVIOUS
      <3>. QED BY <2>1, <3>1, MinOfNaturals
    <2>3. n # 0
      <3>1. SUFFICES ASSUME n = 0 PROVE FALSE
        OBVIOUS
      <3> DEFINE blank == [entries \in SUBSET H |-> NotYet]
      <3>2. ASSUME NEW entries \in SUBSET H, Cardinality(entries) <= 0 PROVE blank[entries] = LoopStep(blank, entries)
        <4>1. Cardinality(entries) \in Nat /\ (entries # {} => Cardinality(entries) > 0)
          BY LastOut
        <4>2. entries = {}
          BY <3>2, <4>1
        <4>. QED BY <4>2 DEF LoopStep
      <3>3. Upto(0, blank)
        BY <3>2
      <3>. QED BY <3>1, <3>3
    <2>4. PICK h : Upto(n - 1, h)
      <3> HIDE DEF Upto
      <3>1. n \in Nat
        BY <2>2
      <3>2. n - 1 \in Nat /\ ~(n <= n - 1)
        BY <2>3, <3>1
      <3>3. n - 1 \notin Missing
        BY <2>2, <3>2
      <3>. QED BY <3>2, <3>3
    <2> DEFINE further == [entries \in SUBSET H |-> LoopStep(h, entries)]
    <2>5. ASSUME NEW entries \in SUBSET H, Cardinality(entries) <= n PROVE further[entries] = LoopStep(further, entries)
      <3>1. CASE entries = {}
        BY <3>1 DEF LoopStep
      <3>2. CASE entries # {}
        <4> DEFINE rest == entries \ {LastListed(entries)}
        <4>1. rest \in SUBSET H /\ Cardinality(rest) <= n - 1
          BY <2>5, <3>2, LastOut
        <4>2. further[rest] = h[rest]
          BY <2>4, <4>1
        <4>. QED BY <3>2, <4>2 DEF LoopStep
      <3>. QED BY <3>1, <3>2
    <2>6. Upto(n, further)
      BY <2>5
    <2>. QED BY <2>2, <2>6
  <1>2. Cardinality(H) \in Nat
    BY FS_CardinalityType
  <1>3. PICK h : Upto(Cardinality(H), h)
    BY <1>1, <1>2
  <1>4. \A entries \in SUBSET H : h[entries] = LoopStep(h, entries)
    <2>1. \A entries \in SUBSET H : Cardinality(entries) <= Cardinality(H)
      BY FS_Subset
    <2>. QED BY <1>3, <2>1
  <1>5. h = [entries \in SUBSET H |-> LoopStep(h, entries)]
    BY <1>3, <1>4
  <1>. QED BY <1>5 DEF IsLoop

(* What the loop knows when it has taken some of the entries. *)
CoverageFits(start, entries) ==
    IF start = NotYet
    THEN \A entry \in entries : entry.expiresAt <= now
    ELSE /\ start \in Nat
         /\ \E entry \in entries : start = entry.createdAt
         /\ \A t \in start .. now - 1 : Attended(t)
         /\ \A entry \in entries : entry.createdAt < start => entry.expiresAt < start

\* One more entry of the list leaves it so.
LEMMA CoverageGrows ==
  ASSUME ProgressType, RecordsInv,
         NEW entries \in SUBSET leaseLog, entries # {},
         NEW start, CoverageFits(start, entries \ {LastListed(entries)})
  PROVE  CoverageFits(ExtendCoverage(start, LastListed(entries)), entries)
  <1> DEFINE l == LastListed(entries)
  <1>1. entries \in SUBSET LeaseRow /\ now \in Nat
    BY DEF ProgressType
  <1>2. l \in entries /\ \A entry \in entries : l.createdAt <= entry.createdAt
    BY <1>1, LastIsListed
  <1>3. \A entry \in entries : entry.createdAt \in Nat /\ entry.expiresAt \in Nat
    BY <1>1 DEF LeaseRow
  <1>4. \A t \in l.createdAt .. l.expiresAt - 1 : Attended(t)
    BY <1>2 DEF RecordsInv
  <1>5. l.createdAt # NotYet /\ \A entry \in entries : ~(entry.createdAt < l.createdAt)
    BY <1>2, <1>3 DEF NotYet
  <1>6. CASE start = NotYet
    <2>1. CASE l.expiresAt > now
      <3>1. ExtendCoverage(start, l) = l.createdAt
        BY <1>6, <2>1 DEF ExtendCoverage
      <3>2. \A t \in l.createdAt .. now - 1 : t \in l.createdAt .. l.expiresAt - 1
        BY <1>1, <1>2, <1>3, <2>1
      <3>. QED BY <1>2, <1>3, <1>4, <1>5, <3>1, <3>2 DEF CoverageFits
    <2>2. CASE ~(l.expiresAt > now)
      <3>1. ExtendCoverage(start, l) = NotYet
        BY <1>6, <2>2 DEF ExtendCoverage
      <3>2. l.expiresAt <= now
        BY <1>1, <1>2, <1>3, <2>2
      <3>. QED BY <1>6, <3>1, <3>2 DEF CoverageFits
    <2>. QED BY <2>1, <2>2
  <1>7. CASE start # NotYet
    <2>1. /\ start \in Nat
          /\ \E entry \in entries \ {l} : start = entry.createdAt
          /\ \A t \in start .. now - 1 : Attended(t)
          /\ \A entry \in entries \ {l} : entry.createdAt < start => entry.expiresAt < start
      BY <1>7 DEF CoverageFits
    <2>2. CASE l.expiresAt < start
      <3>1. ExtendCoverage(start, l) = start
        BY <1>7, <2>2 DEF ExtendCoverage
      <3>. QED BY <1>7, <2>1, <2>2, <3>1 DEF CoverageFits
    <2>3. CASE ~(l.expiresAt < start)
      <3>1. ExtendCoverage(start, l) = l.createdAt
        BY <1>7, <2>3 DEF ExtendCoverage
      <3>2. \A t \in l.createdAt .. now - 1 : t \in l.createdAt .. l.expiresAt - 1 \/ t \in start .. now - 1
        BY <1>1, <1>2, <1>3, <2>1, <2>3
      <3>3. \A t \in l.createdAt .. now - 1 : Attended(t)
        BY <1>4, <2>1, <3>2
      <3>. QED BY <1>2, <1>3, <1>5, <3>1, <3>3 DEF CoverageFits
    <2>. QED BY <2>2, <2>3
  <1>. QED BY <1>6, <1>7

\* So it is when the loop has taken them all.
LEMMA CoverageStart ==
  ASSUME ProgressType, RecordsInv
  PROVE  CoverageFits(continuousLeaseStart, InstanceHistory)
  <1> DEFINE H == InstanceHistory
  <1>1. H \in SUBSET leaseLog /\ H \in SUBSET LeaseRow /\ IsFiniteSet(H)
    <2>1. H \in SUBSET leaseLog
      BY DEF InstanceHistory
    <2>. QED BY <2>1, FS_Subset DEF ProgressType
  <1> HIDE DEF H
  <1> DEFINE loop == CHOOSE h : IsLoop(H, h)
  <1>2. continuousLeaseStart = loop[H]
    <2>1. \A h : IsLoop(H, h) <=>
             h = [entries \in SUBSET H |-> IF entries = {} THEN NotYet
                    ELSE ExtendCoverage(h[entries \ {LastListed(entries)}], LastListed(entries))]
      BY Zenon DEF IsLoop, LoopStep
    <2>2. loop = CHOOSE h : h = [entries \in SUBSET H |-> IF entries = {} THEN NotYet
                    ELSE ExtendCoverage(h[entries \ {LastListed(entries)}], LastListed(entries))]
      BY <2>1, Zenon
    <2>3. continuousLeaseStart = (CHOOSE h : h = [entries \in SUBSET H |-> IF entries = {} THEN NotYet
                    ELSE ExtendCoverage(h[entries \ {LastListed(entries)}], LastListed(entries))])[H]
      BY Zenon DEF continuousLeaseStart, H
    <2>. QED BY <2>2, <2>3
  <1>3. IsLoop(H, loop)
    BY <1>1, LoopExists
  <1> HIDE DEF loop
  <1>4. \A entries \in SUBSET H : loop[entries] = LoopStep(loop, entries)
    BY <1>3 DEF IsLoop
  <1> DEFINE Wrong == {n \in Nat : \E entries \in SUBSET H :
                         Cardinality(entries) = n /\ ~CoverageFits(loop[entries], entries)}
  <1>5. Wrong = {}
    <2>1. SUFFICES ASSUME Wrong # {} PROVE FALSE
      OBVIOUS
    <2>2. PICK n \in Wrong : \A k \in Wrong : n <= k
      <3>1. Wrong \in SUBSET Nat
        OBVIOUS
      <3>. QED BY <2>1, <3>1, MinOfNaturals
    <2>3. PICK entries \in SUBSET H : Cardinality(entries) = n /\ ~CoverageFits(loop[entries], entries)
      BY <2>2
    <2>4. CASE entries = {}
      <3>1. loop[entries] = NotYet
        BY <1>4, <2>4 DEF LoopStep
      <3>. QED BY <2>3, <2>4, <3>1 DEF CoverageFits
    <2>5. CASE entries # {}
      <3> DEFINE rest == entries \ {LastListed(entries)}
      <3>1. rest \in SUBSET H /\ Cardinality(rest) = n - 1 /\ n > 0
        BY <1>1, <2>3, <2>5, LastOut
      <3>2. CoverageFits(loop[rest], rest)
        <4>1. n - 1 \in Nat /\ ~(n <= n - 1)
          BY <2>2, <3>1
        <4>2. n - 1 \notin Wrong
          BY <2>2, <4>1
        <4>. QED BY <3>1, <4>1, <4>2
      <3>3. loop[entries] = ExtendCoverage(loop[rest], LastListed(entries))
        BY <1>4, <2>5 DEF LoopStep
      <3>4. entries \in SUBSET leaseLog
        BY <1>1
      <3>5. CoverageFits(ExtendCoverage(loop[rest], LastListed(entries)), entries)
        BY <2>5, <3>2, <3>4, CoverageGrows
      <3>. QED BY <2>3, <3>3, <3>5
    <2>. QED BY <2>4, <2>5
  <1>6. Cardinality(H) \in Nat /\ H \in SUBSET H
    BY <1>1, FS_CardinalityType
  <1>7. CoverageFits(loop[H], H)
    BY <1>5, <1>6
  <1>. QED BY <1>2, <1>7 DEF H

\* The latest of two or three numbers.
LEMMA MaxOfTwo == \A x, y \in Int : Max({x, y}) = IF x >= y THEN x ELSE y
  <1> SUFFICES ASSUME NEW x \in Int, NEW y \in Int PROVE Max({x, y}) = IF x >= y THEN x ELSE y
    OBVIOUS
  <1> DEFINE m == IF x >= y THEN x ELSE y
  <1>1. m \in {x, y} /\ \A v \in {x, y} : m >= v
    OBVIOUS
  <1>2. Max({x, y}) \in {x, y} /\ \A v \in {x, y} : Max({x, y}) >= v
    BY <1>1 DEF Max
  <1>. QED BY <1>2

LEMMA MaxOfThree ==
  ASSUME NEW x \in Int, NEW y \in Int, NEW z \in Int
  PROVE  /\ Max({x, y} \cup {z}) \in {x, y, z}
         /\ Max({x, y} \cup {z}) >= x /\ Max({x, y} \cup {z}) >= y /\ Max({x, y} \cup {z}) >= z
  <1> DEFINE S == {x, y} \cup {z}
  <1>1. \E m \in S : \A v \in S : m >= v
    <2>1. CASE x >= y /\ x >= z
      BY <2>1
    <2>2. CASE y >= x /\ y >= z
      BY <2>2
    <2>3. CASE z >= x /\ z >= y
      BY <2>3
    <2>. QED BY <2>1, <2>2, <2>3
  <1>2. Max(S) \in S /\ \A v \in S : Max(S) >= v
    <2> HIDE DEF S
    <2>. QED BY <1>1 DEF Max
  <1>. QED BY <1>2

\* The unhealthy time is counted from no earlier than each of its bounds, and
\* from one of them.
LEMMA SinceIs ==
  ASSUME ProgressType, continuousLeaseStart \in Nat, NEW done \in Nat \cup {NotYet}
  PROVE  /\ unhealthySince(done) \in Int
         /\ unhealthySince(done) >= continuousLeaseStart
         /\ unhealthySince(done) >= now - ProgressPending
         /\ done # NotYet => unhealthySince(done) >= done + MaximumAge
         /\ \/ unhealthySince(done) = continuousLeaseStart
            \/ unhealthySince(done) = now - ProgressPending
            \/ done # NotYet /\ unhealthySince(done) = done + MaximumAge
  <1> DEFINE s == continuousLeaseStart
             w == now - ProgressPending
             d == done + MaximumAge
  <1>1. s \in Int /\ w \in Int /\ (done # NotYet => d \in Int)
    BY ProgressPolicyIsValid DEF ProgressType
  <1>2. CASE done = NotYet
    <2>1. unhealthySince(done) = Max({s, w} \cup {})
      BY <1>2 DEF unhealthySince
    <2>2. {s, w} \cup {} = {s, w}
      OBVIOUS
    <2> HIDE DEF s, w, d
    <2>3. Max({s, w}) = IF s >= w THEN s ELSE w
      BY <1>1, MaxOfTwo
    <2>4. unhealthySince(done) = IF s >= w THEN s ELSE w
      BY <2>1, <2>2, <2>3
    <2>5. unhealthySince(done) \in Int /\ unhealthySince(done) >= s /\ unhealthySince(done) >= w
          /\ (unhealthySince(done) = s \/ unhealthySince(done) = w)
      BY <1>1, <2>4
    <2>. QED BY <1>2, <2>5 DEF s, w
  <1>3. CASE done # NotYet
    <2>1. unhealthySince(done) = Max({s, w} \cup {d})
      BY <1>3 DEF unhealthySince
    <2> HIDE DEF s, w, d
    <2>2. /\ Max({s, w} \cup {d}) \in {s, w, d}
          /\ Max({s, w} \cup {d}) >= s /\ Max({s, w} \cup {d}) >= w /\ Max({s, w} \cup {d}) >= d
      BY <1>1, <1>3, MaxOfThree
    <2>3. /\ unhealthySince(done) \in {s, w, d}
          /\ unhealthySince(done) >= s /\ unhealthySince(done) >= w /\ unhealthySince(done) >= d
      BY <2>1, <2>2
    <2>. QED BY <1>1, <1>3, <2>3 DEF s, w, d
  <1>. QED BY <1>2, <1>3

\* An alert on a silent collector is active when it was silent and attended
\* throughout (evaluateHistory).
LEMMA ActiveIsSilent ==
  ASSUME ProgressType, RecordsInv, NEW done \in Nat \cup {NotYet},
         usesPending, evaluateHistory(done) = "active"
  PROVE  /\ \A t \in PendingSpan \cup {now} : Overdue(t, done)
         /\ \A t \in PendingSpan : Attended(t)
  <1> DEFINE s == continuousLeaseStart
  <1>1. /\ ~(done # NotYet /\ now - done < MaximumAge) /\ s # NotYet
        /\ ~(now - unhealthySince(done) < ProgressPending)
    BY DEF evaluateHistory
  <1>2. CoverageFits(s, InstanceHistory)
    BY CoverageStart
  <1>3. s \in Nat /\ \A t \in s .. now - 1 : Attended(t)
    BY <1>1, <1>2 DEF CoverageFits
  <1>4. /\ unhealthySince(done) \in Int
        /\ unhealthySince(done) >= s
        /\ done # NotYet => unhealthySince(done) >= done + MaximumAge
    BY <1>3, SinceIs
  <1>5. now \in Nat /\ ProgressPending \in Nat \ {0} /\ MaximumAge \in Nat \ {0}
    BY ProgressPolicyIsValid DEF ProgressType
  <1> HIDE DEF s
  <1>6. unhealthySince(done) <= now - ProgressPending
    BY <1>1, <1>4, <1>5
  <1>7. s <= now - ProgressPending
    BY <1>3, <1>4, <1>5, <1>6
  <1>8. \A t \in PendingSpan : t \in s .. now - 1
    BY <1>3, <1>5, <1>7 DEF PendingSpan
  <1>9. ASSUME done # NotYet, NEW t \in PendingSpan \cup {now} PROVE t >= done + MaximumAge
    <2>1. done + MaximumAge <= now - ProgressPending /\ done \in Nat
      BY <1>4, <1>5, <1>6, <1>9
    <2>2. t \in Int /\ t >= now - ProgressPending
      BY <1>5 DEF PendingSpan
    <2>. QED BY <1>5, <2>1, <2>2
  <1>. QED BY <1>3, <1>8, <1>9 DEF Overdue

\* And it is active then, when the lease log still shows the handovers.
LEMMA SilentIsActive ==
  ASSUME ProgressType, RecordsInv, RecordReaches, NEW done \in Nat \cup {NotYet},
         \A t \in PendingSpan \cup {now} : Overdue(t, done),
         PendingSpan \subseteq manned, LeaseHeld
  PROVE  evaluateHistory(done) = "active"
  <1> DEFINE s == continuousLeaseStart
  <1>1. now \in Nat /\ ProgressPending \in Nat \ {0} /\ MaximumAge \in Nat \ {0} /\ InstanceLogTTL \in Nat
        /\ leaseLog \subseteq LeaseRow /\ lease \in LeaseRow
    BY ProgressPolicyIsValid DEF ProgressType
  <1>2. CoverageFits(s, InstanceHistory)
    BY CoverageStart
  <1>3. s # NotYet
    <2>1. lease \in InstanceHistory /\ ~(lease.expiresAt <= now)
      BY <1>1 DEF RecordsInv, InstanceHistory, LeaseHeld, LeaseRow
    <2>. QED BY <1>2, <2>1 DEF CoverageFits
  <1>4. /\ s \in Nat
        /\ \E entry \in InstanceHistory : s = entry.createdAt
        /\ \A entry \in InstanceHistory : entry.createdAt < s => entry.expiresAt < s
    BY <1>2, <1>3 DEF CoverageFits
  <1>5. s <= now /\ s \in handovers
    BY <1>4 DEF InstanceHistory, RecordsInv
  <1> HIDE DEF s
  <1>6. s <= now - ProgressPending
    <2>1. SUFFICES ASSUME s > now - ProgressPending PROVE FALSE
      BY <1>1, <1>4
    <2>2. s - 1 \in PendingSpan
      BY <1>1, <1>4, <1>5, <2>1 DEF PendingSpan
    <2>3. s - 1 \in manned
      BY <2>2
    <2>4. ~(s - 1 < now - InstanceLogTTL - 1)
      <3>1. s >= now - InstanceLogTTL
        BY <1>5, <2>1 DEF RecordReaches
      <3>. QED BY <1>1, <1>4, <3>1
    <2>5. PICK entry \in leaseLog : entry.createdAt <= s - 1 /\ s - 1 < entry.expiresAt
      BY <2>3, <2>4 DEF RecordsInv
    <2>6. entry.createdAt \in Nat /\ entry.expiresAt \in Nat
      BY <1>1 DEF LeaseRow
    <2>7. entry.expiresAt >= now - ProgressPending /\ entry.createdAt < s /\ ~(entry.expiresAt < s)
      BY <1>1, <1>4, <2>1, <2>5, <2>6
    <2>8. entry \in InstanceHistory
      BY <2>7 DEF InstanceHistory
    <2>. QED BY <1>4, <2>7, <2>8
  <1>7. done # NotYet => done \in Nat /\ done + MaximumAge <= now - ProgressPending
    <2>1. now - ProgressPending \in PendingSpan
      BY <1>1 DEF PendingSpan
    <2>. QED BY <2>1 DEF Overdue
  <1>8. ~(done # NotYet /\ now - done < MaximumAge) /\ ~(done > now)
    BY <1>1, <1>7 DEF NotYet
  <1>9. ~(now - unhealthySince(done) < ProgressPending)
    <2>1. /\ unhealthySince(done) \in Int
          /\ \/ unhealthySince(done) = s
             \/ unhealthySince(done) = now - ProgressPending
             \/ done # NotYet /\ unhealthySince(done) = done + MaximumAge
      BY <1>4, SinceIs DEF s
    <2>2. unhealthySince(done) <= now - ProgressPending
      BY <1>1, <1>4, <1>6, <1>7, <2>1
    <2>. QED BY <1>1, <2>1, <2>2
  <1>. QED BY <1>3, <1>8, <1>9 DEF evaluateHistory, s

\* At the start nothing is on record.
LEMMA ProgressStart == CollectorProgressInit => ProgressInv
  <1> SUFFICES ASSUME CollectorProgressInit PROVE ProgressInv
    OBVIOUS
  <1>1. ProgressType
    BY FS_EmptySet DEF CollectorProgressInit, ProgressType, LeaseRow, NoLease
  <1>2. RecordsInv /\ SilenceIsCounted
    BY DEF CollectorProgressInit, RecordsInv, SilenceIsCounted, LeaseHeld, NoLease
  <1>. QED BY <1>1, <1>2 DEF ProgressInv

\* What is attended stays so when a write is added.
LEMMA WritesAdd ==
  ASSUME ProgressType, leaseWrites' = Append(leaseWrites, now)
  PROVE  /\ leaseWrites' \in Seq(Nat)
         /\ \A t : Attended(t) => Attended(t)'
         /\ \A t \in now .. now + LeaseTTL - 1 : Attended(t)'
  <1>1. now \in Nat /\ leaseWrites \in Seq(Nat) /\ LeaseTTL \in Nat \ {0}
    BY ProgressPolicyIsValid DEF ProgressType
  <1>2. leaseWrites' \in Seq(Nat)
    BY <1>1
  <1>3. /\ Range(leaseWrites) \subseteq Range(leaseWrites')
        /\ now \in Range(leaseWrites')
    <2>1. /\ DOMAIN leaseWrites = 1..Len(leaseWrites) /\ Len(leaseWrites) \in Nat
          /\ DOMAIN leaseWrites' = 1..(Len(leaseWrites) + 1)
          /\ \A i \in 1..Len(leaseWrites) : leaseWrites'[i] = leaseWrites[i]
          /\ leaseWrites'[Len(leaseWrites) + 1] = now
      BY <1>1
    <2>2. ASSUME NEW i \in DOMAIN leaseWrites PROVE i \in DOMAIN leaseWrites' /\ leaseWrites'[i] = leaseWrites[i]
      BY <2>1, <2>2
    <2>3. Len(leaseWrites) + 1 \in DOMAIN leaseWrites'
      BY <2>1
    <2> HIDE <2>1
    <2>4. leaseWrites'[Len(leaseWrites) + 1] = now
      BY <2>1
    <2>. QED BY <2>2, <2>3, <2>4 DEF Range
  <1>4. ASSUME NEW t \in now .. now + LeaseTTL - 1 PROVE Attended(t)'
    <2>1. now \in t - LeaseTTL + 1 .. t
      BY <1>1
    <2>. QED BY <1>3, <2>1 DEF Attended
  <1>. QED BY <1>2, <1>3, <1>4 DEF Attended

\* An entry that is written now says no more than the writes do (WriteLease).
LEMMA WriteStep ==
  ASSUME ProgressType, RecordsInv, NEW granted \in LeaseRow, WriteLease(granted),
         granted.createdAt <= now,
         \A t \in granted.createdAt .. granted.expiresAt - 1 : Attended(t) \/ t \in now .. now + LeaseTTL - 1
  PROVE  ProgressType' /\ RecordsInv'
  <1>1. /\ lease' = granted /\ leaseLog' = leaseLog \cup {granted}
        /\ leaseWrites' = Append(leaseWrites, now)
        /\ handovers' = handovers \cup {granted.createdAt}
        /\ UNCHANGED <<usesPending, now, completions, manned, progress>>
    BY DEF WriteLease
  <1>2. leaseWrites' \in Seq(Nat) /\ (\A t : Attended(t) => Attended(t)')
        /\ \A t \in now .. now + LeaseTTL - 1 : Attended(t)'
    BY <1>1, WritesAdd
  <1>3. ProgressType'
    <2>1. IsFiniteSet(leaseLog') /\ leaseLog' \in SUBSET LeaseRow
      BY <1>1, FS_AddElement DEF ProgressType
    <2>2. handovers' \in SUBSET Nat
      BY <1>1 DEF ProgressType, LeaseRow
    <2>. QED BY <1>1, <1>2, <2>1, <2>2 DEF ProgressType
  <1>4. ASSUME NEW entry \in leaseLog'
        PROVE  /\ entry.createdAt <= now' /\ entry.createdAt \in handovers'
               /\ \A t \in entry.createdAt .. entry.expiresAt - 1 : Attended(t)'
    <2>1. CASE entry \in leaseLog
      BY <1>1, <1>2, <2>1 DEF RecordsInv
    <2>2. CASE entry = granted
      BY <1>1, <1>2, <2>2
    <2>. QED BY <1>1, <1>4, <2>1, <2>2
  <1>5. ASSUME NEW t \in manned'
        PROVE  /\ t < now'
               /\ \/ t < now' - InstanceLogTTL - 1
                  \/ \E entry \in leaseLog' : entry.createdAt <= t /\ t < entry.expiresAt
    BY <1>1 DEF RecordsInv
  <1>6. lease' \in leaseLog'
    BY <1>1
  <1>. QED BY <1>3, <1>4, <1>5, <1>6 DEF RecordsInv

LEMMA ProgressStep ==
  ASSUME ProgressInv, CollectorProgressNext
  PROVE  ProgressInv'
  <1> USE DEF ProgressInv
  <1>1. now \in Nat /\ lease \in LeaseRow /\ leaseLog \in SUBSET LeaseRow /\ LeaseTTL \in Nat \ {0}
        /\ InstanceLogTTL \in Nat /\ manned \in SUBSET Nat
    BY ProgressPolicyIsValid DEF ProgressType
  <1>2. lease.createdAt \in Nat /\ lease.expiresAt \in Nat
    BY <1>1 DEF LeaseRow
  <1>3. CASE AdvanceClock
    <2>1. /\ now' = now + 1 /\ progress.pc # "done"
          /\ manned' = IF LeaseHeld THEN manned \cup {now} ELSE manned
          /\ UNCHANGED <<usesPending, lease, leaseLog, leaseWrites, handovers, completions, progress>>
      BY <1>3 DEF AdvanceClock
    <2>2. ProgressType'
      <3>1. now' \in Nat /\ manned' \in SUBSET Nat
        BY <1>1, <2>1
      <3>. QED BY <2>1, <3>1 DEF ProgressType
    <2>3. \A t : Attended(t)' <=> Attended(t)
      BY <2>1 DEF Attended
    <2>4. ASSUME NEW entry \in leaseLog'
          PROVE  /\ entry.createdAt <= now' /\ entry.createdAt \in handovers'
                 /\ \A t \in entry.createdAt .. entry.expiresAt - 1 : Attended(t)'
      <3>1. entry \in leaseLog /\ entry.createdAt \in Nat
        BY <1>1, <2>1 DEF LeaseRow
      <3>. QED BY <1>1, <2>1, <2>3, <3>1 DEF RecordsInv
    <2>5. ASSUME NEW t \in manned'
          PROVE  /\ t < now'
                 /\ \/ t < now' - InstanceLogTTL - 1
                    \/ \E entry \in leaseLog' : entry.createdAt <= t /\ t < entry.expiresAt
      <3>1. CASE t \in manned
        <4>1. t \in Nat /\ t < now
          BY <1>1, <3>1 DEF RecordsInv
        <4>2. t < now' /\ (t < now - InstanceLogTTL - 1 => t < now' - InstanceLogTTL - 1)
          BY <1>1, <2>1, <4>1
        <4>. QED BY <2>1, <3>1, <4>2 DEF RecordsInv
      <3>2. CASE LeaseHeld /\ t = now
        <4>1. lease \in leaseLog' /\ lease.createdAt <= t /\ t < lease.expiresAt
          BY <1>1, <1>2, <2>1, <3>2 DEF LeaseHeld, RecordsInv
        <4>2. t < now'
          BY <1>1, <2>1, <3>2
        <4>. QED BY <4>1, <4>2
      <3>. QED BY <2>1, <3>1, <3>2
    <2>6. LeaseHeld' => lease' \in leaseLog'
      BY <1>1, <1>2, <2>1 DEF LeaseHeld, RecordsInv
    <2>7. SilenceIsCounted'
      BY <2>1 DEF SilenceIsCounted
    <2>. QED BY <2>2, <2>4, <2>5, <2>6, <2>7 DEF RecordsInv
  <1>4. CASE ClaimLease
    <2> DEFINE fresh == [createdAt |-> now, expiresAt |-> now + LeaseTTL]
    <2>1. fresh \in LeaseRow /\ WriteLease(fresh)
      BY <1>1, <1>4 DEF ClaimLease, LeaseRow
    <2>2. fresh.createdAt <= now /\ fresh.createdAt = now /\ fresh.expiresAt = now + LeaseTTL
      BY <1>1
    <2>3. \A t \in fresh.createdAt .. fresh.expiresAt - 1 : t \in now .. now + LeaseTTL - 1
      BY <1>1, <2>2
    <2>4. ProgressType' /\ RecordsInv'
      <3> HIDE DEF fresh
      <3>. QED BY <2>1, <2>2, <2>3, WriteStep
    <2>5. SilenceIsCounted'
      BY <2>1 DEF WriteLease, SilenceIsCounted
    <2>. QED BY <2>4, <2>5
  <1>5. CASE RenewManager
    <2> DEFINE renewed == [lease EXCEPT !.expiresAt = now + LeaseTTL]
    <2>1. renewed \in LeaseRow /\ WriteLease(renewed)
      BY <1>1, <1>5 DEF RenewManager, LeaseRow
    <2>2. renewed.createdAt = lease.createdAt /\ renewed.expiresAt = now + LeaseTTL
      BY <1>1 DEF LeaseRow
    <2>3. lease \in leaseLog /\ lease.expiresAt > now
      BY <1>5 DEF RenewManager, LeaseHeld, RecordsInv
    <2>4. lease.createdAt <= now /\ \A t \in lease.createdAt .. lease.expiresAt - 1 : Attended(t)
      BY <2>3 DEF RecordsInv
    <2>5. ASSUME NEW t \in renewed.createdAt .. renewed.expiresAt - 1
          PROVE  Attended(t) \/ t \in now .. now + LeaseTTL - 1
      <3>1. t \in Int /\ lease.createdAt <= t /\ t <= now + LeaseTTL - 1
        BY <1>1, <1>2, <2>2
      <3>2. t \in lease.createdAt .. lease.expiresAt - 1 \/ t \in now .. now + LeaseTTL - 1
        BY <1>1, <1>2, <2>3, <3>1
      <3>. QED BY <2>4, <3>2
    <2>6. ProgressType' /\ RecordsInv'
      <3> HIDE DEF renewed
      <3>. QED BY <2>1, <2>2, <2>4, <2>5, WriteStep
    <2>7. SilenceIsCounted'
      BY <2>1 DEF WriteLease, SilenceIsCounted
    <2>. QED BY <2>6, <2>7
  <1>6. CASE ReleaseLease
    <2>1. /\ lease' = NoLease /\ progress.pc # "done"
          /\ UNCHANGED <<usesPending, now, leaseLog, leaseWrites, handovers, completions, manned, progress>>
      BY <1>6 DEF ReleaseLease
    <2>2. ~LeaseHeld'
      BY <1>1, <2>1 DEF LeaseHeld, NoLease
    <2>3. ProgressType'
      BY <2>1 DEF ProgressType, LeaseRow, NoLease
    <2>4. RecordsInv'
      <3>1. \A t : Attended(t)' <=> Attended(t)
        BY <2>1 DEF Attended
      <3>. QED BY <2>1, <2>2, <3>1 DEF RecordsInv
    <2>5. SilenceIsCounted'
      BY <2>1 DEF SilenceIsCounted
    <2>. QED BY <2>3, <2>4, <2>5
  <1>7. CASE SweepExpiredInstanceLogs
    <2>1. /\ leaseLog' = {entry \in leaseLog : entry.expiresAt >= now - InstanceLogTTL} /\ progress.pc # "done"
          /\ UNCHANGED <<usesPending, now, lease, leaseWrites, handovers, completions, manned, progress>>
      BY <1>7 DEF SweepExpiredInstanceLogs
    <2>2. leaseLog' \in SUBSET leaseLog
      BY <2>1
    <2>3. ProgressType'
      <3>1. IsFiniteSet(leaseLog')
        BY <2>2, FS_Subset DEF ProgressType
      <3>. QED BY <1>1, <2>1, <2>2, <3>1 DEF ProgressType
    <2>4. LeaseHeld' => lease' \in leaseLog'
      BY <1>1, <1>2, <2>1 DEF LeaseHeld, RecordsInv
    <2>5. ASSUME NEW t \in manned'
          PROVE  /\ t < now'
                 /\ \/ t < now' - InstanceLogTTL - 1
                    \/ \E entry \in leaseLog' : entry.createdAt <= t /\ t < entry.expiresAt
      <3>1. t \in Nat /\ t \in manned
        BY <1>1, <2>1
      <3>2. SUFFICES ASSUME ~(t < now - InstanceLogTTL - 1)
                     PROVE  \E entry \in leaseLog' : entry.createdAt <= t /\ t < entry.expiresAt
        BY <2>1, <3>1 DEF RecordsInv
      <3>3. PICK entry \in leaseLog : entry.createdAt <= t /\ t < entry.expiresAt
        BY <3>1, <3>2 DEF RecordsInv
      <3>4. entry.expiresAt >= now - InstanceLogTTL
        BY <1>1, <3>1, <3>2, <3>3 DEF LeaseRow
      <3>. QED BY <2>1, <3>3, <3>4
    <2>6. RecordsInv'
      <3>1. \A t : Attended(t)' <=> Attended(t)
        BY <2>1 DEF Attended
      <3>. QED BY <2>1, <2>2, <2>4, <2>5, <3>1 DEF RecordsInv
    <2>7. SilenceIsCounted'
      BY <2>1 DEF SilenceIsCounted
    <2>. QED BY <2>3, <2>6, <2>7
  <1>8. CASE CompletePass
    <2>1. PICK stamp \in (now - ClockSkew .. now + ClockSkew) \intersect (Nat \ {0}) :
             completions' = Append(completions, stamp)
      BY <1>8 DEF CompletePass
    <2>0. /\ progress.pc # "done"
          /\ UNCHANGED <<usesPending, now, lease, leaseLog, leaseWrites, handovers, manned, progress>>
      BY <1>8 DEF CompletePass
    <2>2. ProgressType'
      <3>1. completions' \in Seq(Nat)
        BY <2>1 DEF ProgressType
      <3>. QED BY <2>0, <3>1 DEF ProgressType
    <2>3. RecordsInv' /\ SilenceIsCounted'
      <3>1. \A t : Attended(t)' <=> Attended(t)
        BY <2>0 DEF Attended
      <3>. QED BY <2>0, <3>1 DEF RecordsInv, SilenceIsCounted, LeaseHeld
    <2>. QED BY <2>2, <2>3
  <1>9. CASE ReadCompletion
    <2>1. /\ progress' = [pc |-> "read", completedAt |-> Latest(completions)]
          /\ UNCHANGED <<usesPending, now, lease, leaseLog, leaseWrites, handovers, completions, manned>>
      BY <1>9 DEF ReadCompletion
    <2>2. Latest(completions) \in Nat \cup {NotYet}
      <3>1. completions \in Seq(Nat)
        BY DEF ProgressType
      <3>2. completions # <<>> => completions[Len(completions)] \in Nat
        BY <3>1
      <3>. QED BY <3>2 DEF Latest, Last
    <2>3. ProgressType'
      BY <2>1, <2>2 DEF ProgressType
    <2>4. RecordsInv' /\ SilenceIsCounted'
      <3>1. \A t : Attended(t)' <=> Attended(t)
        BY <2>1 DEF Attended
      <3>. QED BY <2>1, <3>1 DEF RecordsInv, SilenceIsCounted, LeaseHeld
    <2>. QED BY <2>3, <2>4
  <1>10. CASE JudgeProgress
    <2> DEFINE done == progress.completedAt
    <2>1. /\ progress.pc = "read"
          /\ progress' = [pc |-> "done", completedAt |-> done, verdict |-> evaluateHistory(done)]
          /\ UNCHANGED <<usesPending, now, lease, leaseLog, leaseWrites, handovers, completions, manned>>
      BY <1>10 DEF JudgeProgress
    <2>2. done \in Nat \cup {NotYet}
      BY <2>1 DEF ProgressType
    <2>3. evaluateHistory(done) \in {"healthy", "insufficient", "pending", "active"}
      BY DEF evaluateHistory
    <2>4. ProgressType'
      BY <2>1, <2>2, <2>3 DEF ProgressType
    <2>5. RecordsInv'
      <3>1. \A t : Attended(t)' <=> Attended(t)
        BY <2>1 DEF Attended
      <3>. QED BY <2>1, <3>1 DEF RecordsInv, LeaseHeld
    <2>6. SilenceIsCounted'
      <3>1. usesPending /\ evaluateHistory(done) = "active" =>
              /\ \A t \in PendingSpan \cup {now} : Overdue(t, done)
              /\ \A t \in PendingSpan : Attended(t)
        BY <2>2, ActiveIsSilent
      <3>2. (\A t \in PendingSpan \cup {now} : Overdue(t, done)) /\ PendingSpan \subseteq manned /\ LeaseHeld
                /\ RecordReaches => evaluateHistory(done) = "active"
        BY <2>2, SilentIsActive
      <3>3. /\ PendingSpan' = PendingSpan /\ (LeaseHeld' <=> LeaseHeld) /\ (RecordReaches' <=> RecordReaches)
            /\ progress'.completedAt = done /\ progress'.verdict = evaluateHistory(done)
        BY <2>1 DEF PendingSpan, LeaseHeld, RecordReaches
      <3> HIDE DEF done
      <3>. QED BY <2>1, <3>1, <3>2, <3>3 DEF SilenceIsCounted, Attended
    <2>. QED BY <2>4, <2>5, <2>6
  <1>. QED BY <1>3, <1>4, <1>5, <1>6, <1>7, <1>8, <1>9, <1>10 DEF CollectorProgressNext

\* A step of another component leaves the check alone.
LEMMA ProgressRests == ProgressInv /\ UNCHANGED progressVars => ProgressInv'
  <1> SUFFICES ASSUME ProgressInv, UNCHANGED progressVars PROVE ProgressInv'
    OBVIOUS
  <1>1. \A t : Attended(t)' <=> Attended(t)
    BY DEF Attended, progressVars
  <1>2. ProgressType'
    BY DEF ProgressInv, ProgressType, progressVars
  <1>3. RecordsInv'
    BY <1>1 DEF ProgressInv, RecordsInv, LeaseHeld, progressVars
  <1>4. SilenceIsCounted'
    BY DEF ProgressInv, SilenceIsCounted, LeaseHeld, PendingSpan, Overdue, RecordReaches, progressVars
  <1>. QED BY <1>2, <1>3, <1>4 DEF ProgressInv

\* An alert on a silent collector is active only when the silence and the leases
\* of the whole pending span say so, and is active then unless the log no longer
\* shows a lease that was handed over in the span, whatever was handed over,
\* released, swept or completed in between (evaluateHistory,
\* continuousLeaseStart).
THEOREM SilenceCounts == ServicesSpec => [](part = "progress" => SilenceIsCounted)
  <1> DEFINE I == part = "progress" => ProgressInv
  <1>1. ServicesInit => I
    BY ProgressStart DEF ServicesInit
  <1>2. I /\ [ServicesNext]_servicesVars => I'
    <2> SUFFICES ASSUME I, [ServicesNext]_servicesVars, part' = "progress" PROVE ProgressInv'
      OBVIOUS
    <2>1. part = "progress"
      BY DEF ServicesNext, servicesVars
    <2>2. CollectorProgressNext \/ UNCHANGED progressVars
      BY <2>1 DEF ServicesNext, servicesVars
    <2>. QED BY <2>1, <2>2, ProgressStep, ProgressRests
  <1>3. I => (part = "progress" => SilenceIsCounted)
    BY DEF ProgressInv
  <1>. QED BY <1>1, <1>2, <1>3, PTL DEF ServicesSpec

\* So every alert says what it should: the verdict on a window of measurements,
\* the verdict on the collector's silence, and the notices of an owner.
THEOREM AlertsRight ==
  ASSUME ReadIsPrompt
  PROVE  ServicesSpec => []AlertsSound
  <1>1. ServicesSpec => [](part = "evidence" => VerdictFitsHistory)
    BY VerdictsFit
  <1>2. ServicesSpec => [](part = "progress" => SilenceIsCounted)
    BY SilenceCounts
  <1>3. (part = "evidence" => VerdictFitsHistory) /\ (part = "progress" => SilenceIsCounted)
        /\ (part = "alerts" => RepeatsSpaced) => AlertsSound
    BY DEF AlertsSound
  <1>. QED BY <1>1, <1>2, <1>3, AlertsSpaced, PTL

-----------------------------------------------------------------------------
(* The collector's passes. *)

IsSystemPass(p) ==
    /\ p = [pc |-> "system", number |-> p.number, next |-> p.next]
    /\ p.number \in Nat /\ p.next \in Nat
IsStreamsPass(p) ==
    /\ p = [pc |-> "streams", number |-> p.number, listed |-> p.listed, waiting |-> p.waiting,
            at |-> p.at, failed |-> p.failed]
    /\ p.number \in Nat /\ p.failed \in BOOLEAN
    /\ p.listed \in SUBSET CollectedStream /\ p.waiting \in SUBSET p.listed
    /\ p.at \in [p.listed -> Int]

PassType ==
    /\ registered \in SUBSET CollectedStream
    /\ pass = [c \in Collector |-> pass[c]]
    /\ \A c \in Collector : pass[c] = Rest \/ IsSystemPass(pass[c]) \/ IsStreamsPass(pass[c])
    /\ passes \in Nat

\* The measurements of one owner before the k-th of its list have landed.
HasLanded(n, owner, list, k) ==
    \A i \in DOMAIN list :
        i < k => [pass |-> n, owner |-> owner, series |-> list[i]] \in measured

\* What a pass has produced so far, as long as it has not failed.
PassHolds(p) ==
    /\ p.pc = "system" => HasLanded(p.number, "system", SystemSeries, p.next)
    /\ p.pc = "streams" =>
         /\ HasLanded(p.number, "system", SystemSeries, Len(SystemSeries) + 1)
         /\ p.failed \/ \A s \in p.listed : HasLanded(p.number, s, StreamSeries(s), p.at[s])

PassInv == PassType /\ (\A c \in Collector : PassHolds(pass[c])) /\ CompletedPassIsWhole

SeriesName ==
    {"unclaimed_workers", "oldest_unclaimed_age", "failing_workers", "overdue_schedules",
     "oldest_due_age", "suspended_schedules", "active_alerts", "resolved_alerts",
     "partitions", "unclaimed", "compacted", "consumer_groups"}

\* The lists of series.
LEMMA SeriesAreLists ==
  /\ Len(SystemSeries) \in Nat /\ DOMAIN SystemSeries = 1 .. Len(SystemSeries)
  /\ \A s : Len(StreamSeries(s)) \in Nat /\ DOMAIN StreamSeries(s) = 1 .. Len(StreamSeries(s))
  <1> DEFINE N == SeriesName
  <1>1. /\ "unclaimed_workers" \in N /\ "oldest_unclaimed_age" \in N /\ "failing_workers" \in N
        /\ "overdue_schedules" \in N /\ "oldest_due_age" \in N /\ "suspended_schedules" \in N
        /\ "active_alerts" \in N /\ "resolved_alerts" \in N
        /\ "partitions" \in N /\ "unclaimed" \in N /\ "compacted" \in N /\ "consumer_groups" \in N
    BY DEF SeriesName
  <1> HIDE DEF N
  <1>2. WorkerSeries \in Seq(N) /\ ScheduleSeries \in Seq(N) /\ AlertSeries \in Seq(N)
    BY <1>1 DEF WorkerSeries, ScheduleSeries, AlertSeries
  <1>3. SystemSeries \in Seq(N)
    BY <1>2, ConcatProperties DEF SystemSeries
  <1>4. \A s : StreamSeries(s) \in Seq(N)
    BY <1>1 DEF StreamSeries
  <1>. QED BY <1>3, <1>4, LenProperties

\* At the start no collector has begun a pass.
LEMMA PassStart == CollectorPassInit => PassInv
  <1> SUFFICES ASSUME CollectorPassInit PROVE PassInv
    OBVIOUS
  <1>1. PassType
    BY DEF CollectorPassInit, PassType
  <1>2. \A c \in Collector : PassHolds(pass[c])
    BY DEF CollectorPassInit, PassHolds, Rest
  <1>. QED BY <1>1, <1>2 DEF CollectorPassInit, PassInv, CompletedPassIsWhole

\* What has landed stays, and so one pass does not disturb another.
LEMMA PassMoves ==
  ASSUME PassInv, NEW c \in Collector, pass' = [pass EXCEPT ![c] = pass'[c]],
         (pass[c] = Rest \/ IsSystemPass(pass[c]) \/ IsStreamsPass(pass[c]))', PassHolds(pass[c])',
         measured \subseteq measured', registered' = registered, passes' \in Nat,
         completed' = completed
  PROVE  PassInv'
  <1>1. \A d \in Collector : d # c => pass'[d] = pass[d]
    BY DEF PassInv, PassType
  <1>2. PassType'
    <2>1. pass' = [d \in Collector |-> pass'[d]]
      BY DEF PassInv, PassType
    <2>2. \A d \in Collector :
            pass'[d] = Rest \/ IsSystemPass(pass'[d]) \/ IsStreamsPass(pass'[d])
      BY <1>1 DEF PassInv, PassType, IsSystemPass, IsStreamsPass
    <2>. QED BY <2>1, <2>2 DEF PassInv, PassType, IsSystemPass, IsStreamsPass
  <1>3. ASSUME NEW d \in Collector PROVE PassHolds(pass[d])'
    <2>1. CASE d = c
      BY <2>1
    <2>2. CASE d # c
      <3>1. PassHolds(pass[d]) /\ pass'[d] = pass[d]
        BY <1>1, <2>2 DEF PassInv
      <3>. QED BY <3>1 DEF PassHolds, HasLanded, SystemSeries, StreamSeries, WorkerSeries,
                           ScheduleSeries, AlertSeries
    <2>. QED BY <2>1, <2>2
  <1>4. CompletedPassIsWhole'
    <2>1. CompletedPassIsWhole
      BY DEF PassInv
    <2>. QED BY <2>1 DEF CompletedPassIsWhole
  <1>. QED BY <1>2, <1>3, <1>4 DEF PassInv

\* A step of a pass that lists nothing new and produces the next of its series.
LEMMA StreamMoves ==
  ASSUME PassInv, NEW c \in Collector, NEW n, NEW L, NEW W, NEW A, NEW g,
         pass[c] = [pc |-> "streams", number |-> n, listed |-> L, waiting |-> W, at |-> A,
                    failed |-> g],
         NEW s \in L, NEW k \in Int, NEW f \in BOOLEAN, f \/ ~g,
         NEW B, B = [A EXCEPT ![s] = k],
         pass' = [pass EXCEPT ![c] = [pc |-> "streams", number |-> n, listed |-> L, waiting |-> W,
                                      at |-> B, failed |-> f]],
         measured \subseteq measured',
         ~f => \A i \in DOMAIN StreamSeries(s) : i < k =>
                  [pass |-> n, owner |-> s, series |-> StreamSeries(s)[i]] \in measured',
         UNCHANGED <<registered, passes, completed>>
  PROVE  PassInv'
  <1>t. PassType /\ PassHolds(pass[c])
    BY DEF PassInv
  <1>1. IsStreamsPass(pass[c])
    BY <1>t DEF PassType, Rest, IsSystemPass
  <1>2. n \in Nat /\ L \in SUBSET CollectedStream /\ W \in SUBSET L /\ A \in [L -> Int]
    <2>1. pass[c].number = n /\ pass[c].listed = L /\ pass[c].waiting = W /\ pass[c].at = A
      OBVIOUS
    <2>. QED BY <1>1, <2>1 DEF IsStreamsPass
  <1>3. B \in [L -> Int] /\ \A r \in L : B[r] = IF r = s THEN k ELSE A[r]
    BY <1>2
  <1>4. PICK q : q = [pc |-> "streams", number |-> n, listed |-> L, waiting |-> W, at |-> B,
                      failed |-> f]
    OBVIOUS
  <1>5. /\ q.pc = "streams" /\ q.number = n /\ q.listed = L /\ q.waiting = W /\ q.at = B
        /\ q.failed = f
    BY <1>4
  <1>6. pass' = [pass EXCEPT ![c] = q] /\ pass'[c] = q
    <2>1. pass = [d \in Collector |-> pass[d]]
      BY <1>t DEF PassType
    <2>. QED BY <1>4, <2>1
  <1>7. IsStreamsPass(pass[c])'
    <2>1. q = [pc |-> "streams", number |-> q.number, listed |-> q.listed, waiting |-> q.waiting,
               at |-> q.at, failed |-> q.failed]
      BY <1>4, <1>5
    <2>2. IsStreamsPass(q)
      BY <1>2, <1>3, <1>5, <2>1 DEF IsStreamsPass
    <2>. QED BY <1>6, <2>2 DEF IsStreamsPass
  <1>8. PassHolds(pass[c])'
    <2>1. HasLanded(n, "system", SystemSeries, Len(SystemSeries) + 1)
          /\ (g \/ \A r \in L : HasLanded(n, r, StreamSeries(r), A[r]))
      BY <1>t DEF PassHolds
    <2>2. HasLanded(n, "system", SystemSeries, Len(SystemSeries) + 1)'
      BY <2>1 DEF HasLanded, SystemSeries, WorkerSeries, ScheduleSeries, AlertSeries
    <2>3. ASSUME ~f, NEW r \in L, NEW i \in DOMAIN StreamSeries(r), i < B[r]
          PROVE  [pass |-> n, owner |-> r, series |-> StreamSeries(r)[i]] \in measured'
      <3>1. CASE r = s
        BY <1>3, <2>3, <3>1
      <3>2. CASE r # s
        <4>1. HasLanded(n, r, StreamSeries(r), A[r])
          BY <2>1, <2>3
        <4>. QED BY <1>3, <2>3, <3>2, <4>1 DEF HasLanded
      <3>. QED BY <3>1, <3>2
    <2>. QED BY <1>5, <1>6, <2>2, <2>3 DEF PassHolds, HasLanded
  <1>9. pass' = [pass EXCEPT ![c] = pass'[c]]
    BY <1>6
  <1>. QED BY <1>t, <1>7, <1>8, <1>9, PassMoves DEF PassType

\* A pass that ends is forgotten, the others are as they were.
LEMMA PassRests ==
  ASSUME PassInv, NEW c \in Collector, pass' = [pass EXCEPT ![c] = Rest],
         UNCHANGED <<registered, passes, measured>>, CompletedPassIsWhole'
  PROVE  PassInv'
  <1>1. \A d \in Collector : pass'[d] = IF d = c THEN Rest ELSE pass[d]
    BY DEF PassInv, PassType
  <1>2. PassType'
    <2>1. pass' = [d \in Collector |-> pass'[d]]
      BY DEF PassInv, PassType
    <2>2. \A d \in Collector :
            pass'[d] = Rest \/ IsSystemPass(pass'[d]) \/ IsStreamsPass(pass'[d])
      BY <1>1 DEF PassInv, PassType, IsSystemPass, IsStreamsPass
    <2>. QED BY <2>1, <2>2 DEF PassInv, PassType, IsSystemPass, IsStreamsPass, Rest
  <1>3. ASSUME NEW d \in Collector PROVE PassHolds(pass[d])'
    <2>1. CASE d = c
      <3>1. pass'[d] = Rest
        BY <1>1, <2>1
      <3>. QED BY <3>1 DEF PassHolds, Rest
    <2>2. CASE d # c
      <3>1. PassHolds(pass[d]) /\ pass'[d] = pass[d]
        BY <1>1, <2>2 DEF PassInv
      <3>. QED BY <3>1 DEF PassHolds, HasLanded, SystemSeries, StreamSeries, WorkerSeries,
                           ScheduleSeries, AlertSeries
    <2>. QED BY <2>1, <2>2
  <1>. QED BY <1>2, <1>3 DEF PassInv

\* Passes of several collectors, streams that come and go, failures.
LEMMA PassStep == PassInv /\ CollectorPassNext => PassInv'
  <1> SUFFICES ASSUME PassInv, CollectorPassNext PROVE PassInv'
    OBVIOUS
  <1>t. PassType
    BY DEF PassInv
  <1>p. ASSUME NEW c \in Collector
        PROVE  /\ pass[c].pc = "system" => IsSystemPass(pass[c])
               /\ pass[c].pc = "streams" => IsStreamsPass(pass[c])
               /\ PassHolds(pass[c])
    <2>1. PassHolds(pass[c]) /\ (pass[c] = Rest \/ IsSystemPass(pass[c]) \/ IsStreamsPass(pass[c]))
      BY DEF PassInv, PassType
    <2>2. CASE pass[c] = Rest
      BY <2>1, <2>2 DEF Rest
    <2>3. CASE IsSystemPass(pass[c])
      <3>1. pass[c].pc = "system"
        BY <2>3 DEF IsSystemPass
      <3>. QED BY <2>1, <2>3, <3>1
    <2>4. CASE IsStreamsPass(pass[c])
      <3>1. pass[c].pc = "streams"
        BY <2>4 DEF IsStreamsPass
      <3>. QED BY <2>1, <2>4, <3>1
    <2>. QED BY <2>1, <2>2, <2>3, <2>4
  <1>1. CASE ChangeStreams
    <2>1. UNCHANGED <<pass, passes, measured, completed>> /\ registered' \in SUBSET CollectedStream
      BY <1>1, <1>t DEF ChangeStreams, PassType
    <2>2. PassType'
      BY <1>t, <2>1 DEF PassType, IsSystemPass, IsStreamsPass
    <2>3. \A c \in Collector : PassHolds(pass[c])'
      BY <1>p, <2>1 DEF PassHolds, HasLanded, SystemSeries, StreamSeries, WorkerSeries,
                        ScheduleSeries, AlertSeries
    <2>. QED BY <2>1, <2>2, <2>3 DEF PassInv, CompletedPassIsWhole
  <1>2. ASSUME NEW c \in Collector, BeginPass(c) PROVE PassInv'
    <2>1. /\ pass' = [pass EXCEPT ![c] = [pc |-> "system", number |-> passes + 1, next |-> 1]]
          /\ passes' \in Nat /\ UNCHANGED <<registered, measured, completed>>
      BY <1>2, <1>t DEF BeginPass, PassType
    <2>2. pass'[c] = [pc |-> "system", number |-> passes + 1, next |-> 1]
          /\ pass' = [pass EXCEPT ![c] = pass'[c]]
      BY <1>2, <1>t, <2>1 DEF PassType
    <2>3. IsSystemPass(pass[c])'
      BY <1>t, <2>2 DEF IsSystemPass, PassType
    <2>4. PassHolds(pass[c])'
      BY <2>2, SeriesAreLists DEF PassHolds, HasLanded
    <2>. QED BY <1>2, <2>1, <2>2, <2>3, <2>4, PassMoves
  <1>3. ASSUME NEW c \in Collector, ProduceSystemSeries(c) PROVE PassInv'
    <2>0. /\ pass[c].pc = "system" /\ pass' = [pass EXCEPT ![c].next = @ + 1]
          /\ measured' = measured \cup {[pass |-> pass[c].number, owner |-> "system",
                                         series |-> SystemSeries[pass[c].next]]}
          /\ UNCHANGED <<registered, passes, completed>>
      BY <1>3 DEF ProduceSystemSeries, Measure
    <2>1. PICK n, k : pass[c] = [pc |-> "system", number |-> n, next |-> k] /\ n \in Nat /\ k \in Nat
      BY <1>p, <2>0 DEF IsSystemPass
    <2>2. /\ pass'[c] = [pc |-> "system", number |-> n, next |-> k + 1]
          /\ pass' = [pass EXCEPT ![c] = pass'[c]]
      BY <1>t, <2>0, <2>1 DEF PassType
    <2>3. IsSystemPass(pass[c])'
      BY <2>1, <2>2 DEF IsSystemPass
    <2>4. PassHolds(pass[c])'
      <3>1. HasLanded(n, "system", SystemSeries, k)
        BY <1>p, <2>1 DEF PassHolds
      <3>2. ASSUME NEW i \in DOMAIN SystemSeries, i < k + 1
            PROVE  [pass |-> n, owner |-> "system", series |-> SystemSeries[i]] \in measured'
        <4>1. i \in Nat
          BY SeriesAreLists
        <4>2. i < k \/ i = k
          BY <2>1, <3>2, <4>1
        <4>. QED BY <2>0, <2>1, <3>1, <4>2 DEF HasLanded
      <3>. QED BY <2>2, <3>2 DEF PassHolds, HasLanded
    <2>. QED BY <1>3, <1>t, <2>0, <2>2, <2>3, <2>4, PassMoves DEF PassType
  <1>4. ASSUME NEW c \in Collector, ListStreams(c) PROVE PassInv'
    <2>0. /\ pass[c].pc = "system" /\ pass[c].next > Len(SystemSeries)
          /\ UNCHANGED <<registered, passes, measured, completed>>
          /\ pass' = [pass EXCEPT ![c] = [pc |-> "streams", number |-> pass[c].number,
                                          listed |-> registered, waiting |-> registered,
                                          at |-> [s \in registered |-> -2], failed |-> FALSE]]
      BY <1>4 DEF ListStreams
    <2>1. PICK n, k : pass[c] = [pc |-> "system", number |-> n, next |-> k] /\ n \in Nat /\ k \in Nat
      BY <1>p, <2>0 DEF IsSystemPass
    <2>q. PICK q : q = [pc |-> "streams", number |-> n, listed |-> registered, waiting |-> registered,
                         at |-> [s \in registered |-> -2], failed |-> FALSE]
      OBVIOUS
    <2>s. /\ q.pc = "streams" /\ q.number = n /\ q.listed = registered /\ q.waiting = registered
          /\ q.at = [s \in registered |-> -2] /\ q.failed = FALSE
      BY <2>q
    <2>2. pass'[c] = q /\ pass' = [pass EXCEPT ![c] = pass'[c]]
      <3>1. pass' = [pass EXCEPT ![c] = q]
        BY <2>0, <2>1, <2>q
      <3>2. pass = [d \in Collector |-> pass[d]]
        BY <1>t DEF PassType
      <3>. QED BY <3>1, <3>2
    <2>3. IsStreamsPass(pass[c])'
      <3>1. q = [pc |-> "streams", number |-> q.number, listed |-> q.listed, waiting |-> q.waiting,
                 at |-> q.at, failed |-> q.failed]
        BY <2>q
      <3>2. q.number \in Nat /\ q.failed \in BOOLEAN /\ q.listed \in SUBSET CollectedStream
            /\ q.waiting \in SUBSET q.listed
        BY <1>t, <2>1, <2>s DEF PassType
      <3>3. q.at \in [q.listed -> Int]
        BY <2>s
      <3>4. IsStreamsPass(q)
        BY <3>1, <3>2, <3>3 DEF IsStreamsPass
      <3>. QED BY <2>2, <3>4 DEF IsStreamsPass
    <2>4. PassHolds(pass[c])'
      <3>1. HasLanded(n, "system", SystemSeries, k)
        BY <1>p, <2>1 DEF PassHolds
      <3>2. \A i \in DOMAIN SystemSeries : i < k
        BY <2>0, <2>1, SeriesAreLists
      <3>3. \A i \in DOMAIN SystemSeries :
              [pass |-> n, owner |-> "system", series |-> SystemSeries[i]] \in measured
        BY <3>1, <3>2 DEF HasLanded
      <3>4. \A s \in registered : \A i \in DOMAIN StreamSeries(s) : ~(i < -2)
        BY SeriesAreLists
      <3>5. \A s \in registered : q.at[s] = -2
        BY <2>s
      <3>. QED BY <2>0, <2>2, <2>s, <3>3, <3>4, <3>5 DEF PassHolds, HasLanded
    <2>. QED BY <1>4, <1>t, <2>0, <2>2, <2>3, <2>4, PassMoves DEF PassType
  <1>5. ASSUME NEW c \in Collector, NEW s \in CollectedStream, StartStream(c, s) PROVE PassInv'
    <2>0. /\ pass[c].pc = "streams" /\ pass' = [pass EXCEPT ![c].waiting = @ \ {s}]
          /\ UNCHANGED <<registered, passes, measured, completed>>
      BY <1>5 DEF StartStream
    <2>1. PICK n, L, W, g, A : pass[c] = [pc |-> "streams", number |-> n, listed |-> L,
                                          waiting |-> W, at |-> A, failed |-> g]
      BY <1>p, <2>0 DEF IsStreamsPass
    <2>2. /\ pass'[c] = [pc |-> "streams", number |-> n, listed |-> L,
                         waiting |-> W \ {s}, at |-> A, failed |-> g]
          /\ pass' = [pass EXCEPT ![c] = pass'[c]]
      BY <1>t, <2>0, <2>1 DEF PassType
    <2>3. n \in Nat /\ g \in BOOLEAN /\ L \in SUBSET CollectedStream /\ W \in SUBSET L /\ A \in [L -> Int]
      <3>1. pass[c].number = n /\ pass[c].listed = L /\ pass[c].waiting = W /\ pass[c].at = A
            /\ pass[c].failed = g
        BY <2>1
      <3>2. IsStreamsPass(pass[c])
        BY <1>p, <2>0
      <3>. QED BY <3>1, <3>2 DEF IsStreamsPass
    <2>4. IsStreamsPass(pass[c])'
      BY <2>2, <2>3 DEF IsStreamsPass
    <2>5. HasLanded(n, "system", SystemSeries, Len(SystemSeries) + 1)
          /\ (g \/ \A r \in L : HasLanded(n, r, StreamSeries(r), A[r]))
      BY <1>p, <2>1 DEF PassHolds
    <2>6. PassHolds(pass[c])'
      BY <2>0, <2>2, <2>5 DEF PassHolds, HasLanded, SystemSeries, StreamSeries, WorkerSeries,
                              ScheduleSeries, AlertSeries
    <2>. QED BY <1>5, <1>t, <2>0, <2>2, <2>4, <2>6, PassMoves DEF PassType
  <1>6. ASSUME NEW c \in Collector, NEW s \in CollectedStream, FailStream(c, s) PROVE PassInv'
    <2>1. /\ pass[c].pc = "streams" /\ s \in Collecting(c)
          /\ pass' = [pass EXCEPT ![c].at[s] = EndedPass(s), ![c].failed = TRUE]
          /\ UNCHANGED <<registered, passes, measured, completed>>
      BY <1>6 DEF FailStream, FailedBy
    <2>2. PICK k \in Int : k = EndedPass(s)
      BY SeriesAreLists DEF EndedPass
    <2>3. PICK n, L, W, A, g : pass[c] = [pc |-> "streams", number |-> n, listed |-> L,
                                          waiting |-> W, at |-> A, failed |-> g]
      BY <1>p, <2>1 DEF IsStreamsPass
    <2>f. /\ pass[c].number = n /\ pass[c].listed = L /\ pass[c].waiting = W /\ pass[c].at = A
          /\ pass[c].failed = g
      BY <2>3
    <2>l. s \in L /\ g \in BOOLEAN /\ A \in [L -> Int] /\ pass = [d \in Collector |-> pass[d]]
      BY <1>t, <1>p, <2>1, <2>f DEF Collecting, IsStreamsPass, PassType
    <2>b. PICK B : B = [A EXCEPT ![s] = k]
      OBVIOUS
    <2>m. PICK f : f \in BOOLEAN /\ f = TRUE
      OBVIOUS
    <2>n. pass' = [pass EXCEPT ![c] = [pc |-> "streams", number |-> n, listed |-> L, waiting |-> W,
                                       at |-> B, failed |-> f]]
      <3>1. PICK p, q, r : p = pass[c] /\ q = [p EXCEPT !.at[s] = k] /\ r = [q EXCEPT !.failed = f]
        OBVIOUS
      <3>2. PICK M : M = [pass EXCEPT ![c] = q]
        OBVIOUS
      <3>3. M = [pass EXCEPT ![c].at[s] = k] /\ M[c] = q
        BY <1>6, <2>l, <3>1, <3>2
      <3>4. pass' = [M EXCEPT ![c].failed = f]
        BY <2>1, <2>2, <2>m, <3>3
      <3>5. pass' = [M EXCEPT ![c] = r]
        BY <3>1, <3>3, <3>4
      <3>6. pass' = [pass EXCEPT ![c] = r]
        BY <2>l, <3>2, <3>5
      <3>7. p = [pc |-> "streams", number |-> n, listed |-> L, waiting |-> W, at |-> A,
                 failed |-> g]
        BY <2>3, <3>1
      <3>8. q = [p EXCEPT !.at = B]
        BY <2>b, <3>1, <3>7
      <3>9. q = [pc |-> "streams", number |-> n, listed |-> L, waiting |-> W, at |-> B,
                 failed |-> g]
        BY <3>7, <3>8
      <3>10. r = [pc |-> "streams", number |-> n, listed |-> L, waiting |-> W, at |-> B,
                  failed |-> f]
        <4>1. r = [q EXCEPT !.failed = f]
          BY <3>1
        <4>. QED BY <3>9, <4>1
      <3>. QED BY <3>6, <3>10
    <2>o. f \in BOOLEAN /\ UNCHANGED <<registered, passes, completed>>
          /\ (f \/ ~g) /\ measured \subseteq measured'
          /\ (~f => \A i \in DOMAIN StreamSeries(s) : i < k =>
                      [pass |-> n, owner |-> s, series |-> StreamSeries(s)[i]] \in measured')
      BY <2>1, <2>m
    <2>. QED BY <1>6, <2>3, <2>l, <2>b, <2>n, <2>o, StreamMoves
  <1>7. ASSUME NEW c \in Collector, NEW s \in CollectedStream,
               ReadStreamSnapshot(c, s) \/ ListConsumerGroups(c, s) \/ ConsumerGroupSnapshot(c, s)
        PROVE  PassInv'
    <2>0. PICK turn \in {-2, -1, 0} : Reading(c, s, turn)
      BY <1>7 DEF ReadStreamSnapshot, ListConsumerGroups, ConsumerGroupSnapshot
    <2>1. /\ pass[c].pc = "streams" /\ s \in Collecting(c)
          /\ pass' = [pass EXCEPT ![c].at[s] = turn + 1]
          /\ UNCHANGED <<registered, passes, measured, completed>>
      BY <2>0 DEF Reading
    <2>2. PICK k \in Int : k = turn + 1 /\ k <= 1
      BY <2>0
    <2>3. PICK n, L, W, A, g : pass[c] = [pc |-> "streams", number |-> n, listed |-> L,
                                          waiting |-> W, at |-> A, failed |-> g]
      BY <1>p, <2>1 DEF IsStreamsPass
    <2>f. /\ pass[c].number = n /\ pass[c].listed = L /\ pass[c].waiting = W /\ pass[c].at = A
          /\ pass[c].failed = g
      BY <2>3
    <2>l. s \in L /\ g \in BOOLEAN /\ A \in [L -> Int] /\ pass = [d \in Collector |-> pass[d]]
      BY <1>t, <1>p, <2>1, <2>f DEF Collecting, IsStreamsPass, PassType
    <2>b. PICK B : B = [A EXCEPT ![s] = k]
      OBVIOUS
    <2>m. pass' = [pass EXCEPT ![c] = [pc |-> "streams", number |-> n, listed |-> L, waiting |-> W,
                                       at |-> B, failed |-> g]]
      <3>1. PICK p, q : p = pass[c] /\ q = [p EXCEPT !.at[s] = k]
        OBVIOUS
      <3>2. pass' = [pass EXCEPT ![c] = q]
        BY <2>1, <2>2, <3>1
      <3>3. p = [pc |-> "streams", number |-> n, listed |-> L, waiting |-> W, at |-> A,
                 failed |-> g]
        BY <2>3, <3>1
      <3>4. q = [p EXCEPT !.at = B]
        BY <2>b, <3>1, <3>3
      <3>5. q = [pc |-> "streams", number |-> n, listed |-> L, waiting |-> W, at |-> B,
                 failed |-> g]
        BY <3>3, <3>4
      <3>. QED BY <3>2, <3>5
    <2>n. \A i \in DOMAIN StreamSeries(s) : ~(i < k)
      BY <2>2, SeriesAreLists
    <2>. QED BY <1>7, <2>1, <2>3, <2>l, <2>b, <2>m, <2>n, StreamMoves
  <1>8. ASSUME NEW c \in Collector, NEW s \in CollectedStream, ProduceStreamSeries(c, s) PROVE PassInv'
    <2>1. /\ pass[c].pc = "streams" /\ s \in Collecting(c) /\ pass[c].at[s] > 0
          /\ pass' = [pass EXCEPT ![c].at[s] = pass[c].at[s] + 1]
          /\ measured' = measured \cup {[pass |-> pass[c].number, owner |-> s,
                                         series |-> StreamSeries(s)[pass[c].at[s]]]}
          /\ UNCHANGED <<registered, passes, completed>>
      BY <1>8 DEF ProduceStreamSeries, Measure
    <2>2. PICK k : k = pass[c].at[s] + 1
      OBVIOUS
    <2>3. PICK n, L, W, A, g : pass[c] = [pc |-> "streams", number |-> n, listed |-> L,
                                          waiting |-> W, at |-> A, failed |-> g]
      BY <1>p, <2>1 DEF IsStreamsPass
    <2>f. /\ pass[c].number = n /\ pass[c].listed = L /\ pass[c].waiting = W /\ pass[c].at = A
          /\ pass[c].failed = g
      BY <2>3
    <2>l. s \in L /\ g \in BOOLEAN /\ A \in [L -> Int] /\ pass = [d \in Collector |-> pass[d]]
      BY <1>t, <1>p, <2>1, <2>f DEF Collecting, IsStreamsPass, PassType
    <2>b. PICK B : B = [A EXCEPT ![s] = k]
      OBVIOUS
    <2>k. k \in Int /\ A[s] = k - 1
      BY <2>2, <2>f, <2>l
    <2>m. pass' = [pass EXCEPT ![c] = [pc |-> "streams", number |-> n, listed |-> L, waiting |-> W,
                                       at |-> B, failed |-> g]]
      <3>1. PICK p, q : p = pass[c] /\ q = [p EXCEPT !.at[s] = k]
        OBVIOUS
      <3>2. pass' = [pass EXCEPT ![c] = q]
        BY <2>1, <2>2, <3>1
      <3>3. p = [pc |-> "streams", number |-> n, listed |-> L, waiting |-> W, at |-> A,
                 failed |-> g]
        BY <2>3, <3>1
      <3>4. q = [p EXCEPT !.at = B]
        BY <2>b, <3>1, <3>3
      <3>5. q = [pc |-> "streams", number |-> n, listed |-> L, waiting |-> W, at |-> B,
                 failed |-> g]
        BY <3>3, <3>4
      <3>. QED BY <3>2, <3>5
    <2>n. ~g => \A i \in DOMAIN StreamSeries(s) : i < k =>
            [pass |-> n, owner |-> s, series |-> StreamSeries(s)[i]] \in measured'
      <3> SUFFICES ASSUME ~g, NEW i \in DOMAIN StreamSeries(s), i < k
                   PROVE  [pass |-> n, owner |-> s, series |-> StreamSeries(s)[i]] \in measured'
        OBVIOUS
      <3>1. HasLanded(n, s, StreamSeries(s), A[s])
        BY <1>p, <2>1, <2>f, <2>l DEF PassHolds
      <3>2. i \in Nat
        BY SeriesAreLists
      <3>3. i < A[s] \/ i = A[s]
        BY <2>k, <3>2
      <3>. QED BY <2>1, <2>f, <3>1, <3>3 DEF HasLanded
    <2>. QED BY <1>8, <2>1, <2>3, <2>k, <2>l, <2>b, <2>m, <2>n, StreamMoves
  <1>9. ASSUME NEW c \in Collector, ProduceCompletion(c) PROVE PassInv'
    <2>1. /\ pass[c].pc = "streams" /\ GroupDone(c) /\ ~pass[c].failed
          /\ completed' = completed \cup {[number |-> pass[c].number, streams |-> pass[c].listed]}
          /\ pass' = [pass EXCEPT ![c] = Rest]
          /\ UNCHANGED <<registered, passes, measured>>
      BY <1>9 DEF ProduceCompletion
    <2>2. IsStreamsPass(pass[c]) /\ PassHolds(pass[c])
      BY <1>p, <2>1
    <2>3. \A i \in DOMAIN SystemSeries :
            [pass |-> pass[c].number, owner |-> "system", series |-> SystemSeries[i]] \in measured
      <3>1. HasLanded(pass[c].number, "system", SystemSeries, Len(SystemSeries) + 1)
        BY <2>1, <2>2 DEF PassHolds
      <3>2. \A i \in DOMAIN SystemSeries : i < Len(SystemSeries) + 1
        BY SeriesAreLists
      <3>. QED BY <3>1, <3>2 DEF HasLanded
    <2>4. ASSUME NEW s \in pass[c].listed, NEW i \in DOMAIN StreamSeries(s)
          PROVE  [pass |-> pass[c].number, owner |-> s, series |-> StreamSeries(s)[i]] \in measured
      <3>1. HasLanded(pass[c].number, s, StreamSeries(s), pass[c].at[s])
        BY <2>1, <2>2 DEF PassHolds
      <3>2. pass[c].at[s] \in Int
        BY <2>2 DEF IsStreamsPass
      <3>3. ~(pass[c].at[s] <= Len(StreamSeries(s)))
        BY <2>1 DEF GroupDone, Collecting
      <3>4. i < pass[c].at[s]
        BY <3>2, <3>3, SeriesAreLists
      <3>. QED BY <3>1, <3>4 DEF HasLanded
    <2>5. CompletedPassIsWhole'
      <3>1. \A e \in completed' : e \in completed \/ (e.number = pass[c].number
                                                    /\ e.streams = pass[c].listed)
        BY <2>1
      <3>2. CompletedPassIsWhole
        BY DEF PassInv
      <3>. QED BY <2>1, <2>3, <2>4, <3>1, <3>2 DEF CompletedPassIsWhole
    <2>. QED BY <1>9, <2>1, <2>5, PassRests
  <1>10. ASSUME NEW c \in Collector, FailPass(c) PROVE PassInv'
    <2>1. pass' = [pass EXCEPT ![c] = Rest] /\ UNCHANGED <<registered, passes, measured, completed>>
      BY <1>10 DEF FailPass
    <2>2. CompletedPassIsWhole'
      BY <2>1 DEF PassInv, CompletedPassIsWhole
    <2>. QED BY <1>10, <2>1, <2>2, PassRests
  <1>. QED BY <1>1, <1>2, <1>3, <1>4, <1>5, <1>6, <1>7, <1>8, <1>9, <1>10 DEF CollectorPassNext

\* A step of another component leaves the passes alone.
LEMMA PassesRest == PassInv /\ UNCHANGED passVars => PassInv'
  <1> SUFFICES ASSUME PassInv, UNCHANGED passVars PROVE PassInv'
    OBVIOUS
  <1>1. UNCHANGED <<registered, pass, passes, measured, completed>>
    BY DEF passVars
  <1>2. PassType'
    BY <1>1 DEF PassInv, PassType, IsSystemPass, IsStreamsPass
  <1>3. \A c \in Collector : PassHolds(pass[c])'
    BY <1>1 DEF PassInv, PassHolds, HasLanded, SystemSeries, StreamSeries, WorkerSeries,
                ScheduleSeries, AlertSeries
  <1>. QED BY <1>1, <1>2, <1>3 DEF PassInv, CompletedPassIsWhole

\* However the collectors' passes interleave, and whichever streams come, go or
\* fail to be read: a pass that reports its completion has stored every series of
\* the system and every series of each stream it listed (CollectMetrics).
THEOREM PassesComplete == ServicesSpec => [](part = "pass" => CompletedPassIsWhole)
  <1> DEFINE I == part = "pass" => PassInv
  <1>1. ServicesInit => I
    BY PassStart DEF ServicesInit
  <1>2. I /\ [ServicesNext]_servicesVars => I'
    <2> SUFFICES ASSUME I, [ServicesNext]_servicesVars, part' = "pass" PROVE PassInv'
      OBVIOUS
    <2>1. part = "pass"
      BY DEF ServicesNext, servicesVars
    <2>2. CollectorPassNext \/ UNCHANGED passVars
      BY <2>1 DEF ServicesNext, servicesVars
    <2>. QED BY <2>1, <2>2, PassStep, PassesRest
  <1>3. I => (part = "pass" => CompletedPassIsWhole)
    BY DEF PassInv
  <1>. QED BY <1>1, <1>2, <1>3, PTL DEF ServicesSpec

-----------------------------------------------------------------------------
(* The metric producer of one consumer instance. *)

GoRoutineEvent == [type : {"abandoned", "cleared"}, of : Routine]

SessionType ==
    /\ routine \in [Routine -> {"running", "abandoned", "cleared"}]
    /\ queue \in Seq(GoRoutineEvent)
    /\ dropped \in Nat /\ reported \in Nat /\ unreported \in Nat
    /\ flush = [pc |-> flush.pc, events |-> flush.events, dropped |-> flush.dropped,
                failed |-> flush.failed]
    /\ flush.pc \in {"waiting", "taken", "produce", "report", "counters"}
    /\ flush.events \in Seq(GoRoutineEvent) /\ flush.dropped \in Nat
    /\ storedEvents \in SUBSET GoRoutineEvent

\* The flusher holds events until it has produced them, and drops until it has
\* told of them, so what its swaps overwrite is empty.
FlushInv ==
    /\ flush.pc \in {"waiting", "counters", "report"} => flush.events = <<>>
    /\ flush.pc \in {"waiting", "counters", "taken"} => flush.dropped = 0

\* The events there still are, each of a handler that got that far.
Known == EventsOf(queue) \cup EventsOf(flush.events) \cup storedEvents

KnownInv ==
    \A e \in Known : /\ e.type = "abandoned" => routine[e.of] # "running"
                     /\ e.type = "cleared" => routine[e.of] = "cleared"

EventsInv ==
    /\ SessionType /\ FlushInv /\ KnownInv
    /\ RecordedEvents <= Cardinality(Known) + dropped + flush.dropped + reported + unreported

\* A queue has no more distinct events than its length.
LEMMA EventsOfQueue ==
  ASSUME NEW T, NEW q \in Seq(T)
  PROVE  /\ EventsOf(q) \in SUBSET T /\ IsFiniteSet(EventsOf(q))
         /\ Cardinality(EventsOf(q)) \in Nat /\ Cardinality(EventsOf(q)) <= Len(q)
         /\ Len(q) \in Nat
         /\ \A x : EventsOf(Append(q, x)) = EventsOf(q) \cup {x}
  <1>1. Len(q) \in Nat /\ q \in [1 .. Len(q) -> T]
    BY LenProperties
  <1>2. q \in Surjection(1 .. Len(q), EventsOf(q))
    BY <1>1 DEF EventsOf, Surjection
  <1>3. IsFiniteSet(1 .. Len(q)) /\ Cardinality(1 .. Len(q)) = Len(q)
    BY <1>1, FS_Interval
  <1>4. IsFiniteSet(EventsOf(q)) /\ Cardinality(EventsOf(q)) <= Cardinality(1 .. Len(q))
    BY <1>2, <1>3, FS_Surjection
  <1>5. Cardinality(EventsOf(q)) \in Nat
    BY <1>4, FS_CardinalityType
  <1>6. EventsOf(q) \in SUBSET T
    BY <1>1 DEF EventsOf
  <1>7. ASSUME NEW x PROVE EventsOf(Append(q, x)) = EventsOf(q) \cup {x}
    <2>1. /\ DOMAIN Append(q, x) = 1 .. Len(q) + 1
          /\ \A i \in 1 .. Len(q) : Append(q, x)[i] = q[i]
          /\ Append(q, x)[Len(q) + 1] = x
      BY <1>1
    <2>2. DOMAIN q = 1 .. Len(q) /\ 1 .. Len(q) + 1 = (1 .. Len(q)) \cup {Len(q) + 1}
      BY <1>1
    <2>. QED BY <2>1, <2>2 DEF EventsOf
  <1>. QED BY <1>1, <1>3, <1>4, <1>5, <1>6, <1>7

\* Finitely many events are known.
LEMMA KnownIsFinite ==
  ASSUME SessionType
  PROVE  /\ Known \in SUBSET GoRoutineEvent /\ IsFiniteSet(Known)
         /\ Cardinality(Known) \in Nat
         /\ IsFiniteSet(storedEvents) /\ Cardinality(storedEvents) \in Nat
  <1>1. PICK f : f = [e \in GoRoutineEvent |-> <<e.type, e.of>>]
    OBVIOUS
  <1>2. IsFiniteSet({"abandoned", "cleared"} \X Routine)
    <2>1. IsFiniteSet({"abandoned"} \cup {"cleared"})
      BY FS_Singleton, FS_AddElement
    <2>2. {"abandoned"} \cup {"cleared"} = {"abandoned", "cleared"}
      OBVIOUS
    <2>. QED BY <2>1, <2>2, LimitIsPositive, FS_Product
  <1>3. f \in Injection(GoRoutineEvent, {"abandoned", "cleared"} \X Routine)
    BY <1>1 DEF Injection, IsInjective, GoRoutineEvent
  <1>4. IsFiniteSet(GoRoutineEvent)
    BY <1>2, <1>3, FS_Injection
  <1>5. Known \in SUBSET GoRoutineEvent
    BY EventsOfQueue DEF Known, SessionType
  <1>. QED BY <1>4, <1>5, FS_Subset, FS_CardinalityType DEF SessionType

\* At the start no event is recorded.
LEMMA EventsStart == SessionMetricsInit => EventsInv
  <1> SUFFICES ASSUME SessionMetricsInit PROVE EventsInv
    OBVIOUS
  <1>1. SessionType /\ FlushInv
    BY DEF SessionMetricsInit, SessionType, FlushInv, Waiting
  <1>2. Known = {}
    BY DEF SessionMetricsInit, Known, EventsOf, Waiting
  <1>3. RecordedEvents = 0
    <2>1. {r \in Routine : routine[r] /= "running"} = {} /\ {r \in Routine : routine[r] = "cleared"} = {}
      BY DEF SessionMetricsInit
    <2>. QED BY <2>1, FS_EmptySet DEF RecordedEvents
  <1>4. Cardinality(Known) = 0
    BY <1>2, FS_EmptySet
  <1>. QED BY <1>1, <1>2, <1>3, <1>4 DEF EventsInv, KnownInv, SessionMetricsInit, Waiting

\* The counts of handlers that got somewhere.
LEMMA RecordedIsNat == SessionType => RecordedEvents \in Nat
  <1> DEFINE A == {r \in Routine : routine[r] /= "running"}
             C == {r \in Routine : routine[r] = "cleared"}
  <1>1. A \in SUBSET Routine /\ C \in SUBSET Routine
    OBVIOUS
  <1>2. IsFiniteSet(A) /\ IsFiniteSet(C)
    BY <1>1, LimitIsPositive, FS_Subset
  <1>3. Cardinality(A) \in Nat /\ Cardinality(C) \in Nat
    BY <1>2, FS_CardinalityType
  <1>. QED BY <1>3 DEF RecordedEvents

\* A handler gets one step further, and that is one event more.
LEMMA RecordsOneMore ==
  ASSUME SessionType, NEW r \in Routine,
         \/ routine[r] = "running" /\ routine' = [routine EXCEPT ![r] = "abandoned"]
         \/ routine[r] = "abandoned" /\ routine' = [routine EXCEPT ![r] = "cleared"]
  PROVE  RecordedEvents' = RecordedEvents + 1
  <1> DEFINE A == {q \in Routine : routine[q] /= "running"}
             C == {q \in Routine : routine[q] = "cleared"}
  <1>1. A \in SUBSET Routine /\ C \in SUBSET Routine
    OBVIOUS
  <1>2. IsFiniteSet(A) /\ IsFiniteSet(C)
    BY <1>1, LimitIsPositive, FS_Subset
  <1>3. Cardinality(A) \in Nat /\ Cardinality(C) \in Nat
    BY <1>2, FS_CardinalityType
  <1>4. \A q \in Routine : q # r => routine'[q] = routine[q]
    BY DEF SessionType
  <1>5. CASE routine[r] = "running" /\ routine' = [routine EXCEPT ![r] = "abandoned"]
    <2>1. routine'[r] = "abandoned"
      BY <1>5 DEF SessionType
    <2>2. r \notin A /\ A' = A \cup {r} /\ C' = C
      BY <1>4, <1>5, <2>1
    <2>3. Cardinality(A') = Cardinality(A) + 1 /\ Cardinality(C') = Cardinality(C)
      BY <1>2, <2>2, FS_AddElement
    <2>. QED BY <1>3, <2>3 DEF RecordedEvents
  <1>6. CASE routine[r] = "abandoned" /\ routine' = [routine EXCEPT ![r] = "cleared"]
    <2>1. routine'[r] = "cleared"
      BY <1>6 DEF SessionType
    <2>2. r \notin C /\ C' = C \cup {r} /\ A' = A
      BY <1>4, <1>6, <2>1
    <2>3. Cardinality(C') = Cardinality(C) + 1 /\ Cardinality(A') = Cardinality(A)
      BY <1>2, <2>2, FS_AddElement
    <2>. QED BY <1>3, <2>3 DEF RecordedEvents
  <1>. QED BY <1>5, <1>6

\* The queue takes the event, or the drop is counted.
LEMMA EventIsQueued ==
  ASSUME EventsInv, NEW r \in Routine, NEW e \in GoRoutineEvent, e.of = r, Enqueue(e),
         UNCHANGED <<flush, storedEvents, reported, unreported>>,
         \/ /\ routine[r] = "running" /\ routine' = [routine EXCEPT ![r] = "abandoned"]
            /\ e.type = "abandoned"
         \/ /\ routine[r] = "abandoned" /\ routine' = [routine EXCEPT ![r] = "cleared"]
            /\ e.type = "cleared"
  PROVE  EventsInv'
  <1>t. SessionType /\ FlushInv /\ KnownInv
    BY DEF EventsInv
  <1>1. RecordedEvents' = RecordedEvents + 1 /\ RecordedEvents \in Nat
    BY <1>t, RecordsOneMore, RecordedIsNat
  <1>2. \A q \in Routine : routine'[q] = IF q = r THEN e.type ELSE routine[q]
    BY <1>t DEF SessionType
  <1>3. e \notin Known
    BY <1>t DEF KnownInv
  <1>4. \/ queue' = queue /\ dropped' = dropped + 1
        \/ queue' = Append(queue, e) /\ dropped' = dropped
    BY DEF Enqueue
  <1>5. SessionType'
    <2>1. queue' \in Seq(GoRoutineEvent) /\ dropped' \in Nat
      <3>1. queue \in Seq(GoRoutineEvent) /\ dropped \in Nat
        BY <1>t DEF SessionType
      <3>2. Append(queue, e) \in Seq(GoRoutineEvent)
        BY <3>1, AppendProperties
      <3>. QED BY <1>4, <3>1, <3>2
    <2>2. routine' \in [Routine -> {"running", "abandoned", "cleared"}]
      BY <1>t DEF SessionType
    <2>. QED BY <1>t, <2>1, <2>2 DEF SessionType
  <1>6. \/ Known' = Known /\ dropped' = dropped + 1
        \/ Known' = Known \cup {e} /\ dropped' = dropped
    <2>1. EventsOf(Append(queue, e)) = EventsOf(queue) \cup {e}
      BY <1>t, EventsOfQueue DEF SessionType
    <2>. QED BY <1>4, <2>1 DEF Known, EventsOf
  <1>7. KnownInv'
    <2> SUFFICES ASSUME NEW x \in Known'
                 PROVE  /\ x.type = "abandoned" => routine'[x.of] # "running"
                        /\ x.type = "cleared" => routine'[x.of] = "cleared"
      BY DEF KnownInv
    <2>1. CASE x = e
      BY <1>2, <2>1
    <2>2. CASE x \in Known
      <3>1. x.of \in Routine
        BY <1>t, <2>2, KnownIsFinite DEF GoRoutineEvent
      <3>. QED BY <1>t, <1>2, <2>2, <3>1 DEF KnownInv
    <2>. QED BY <1>6, <2>1, <2>2
  <1>8. RecordedEvents' <= Cardinality(Known') + dropped' + flush'.dropped + reported' + unreported'
    <2>1. Cardinality(Known) \in Nat /\ IsFiniteSet(Known)
      BY <1>t, KnownIsFinite
    <2>2. Cardinality(Known \cup {e}) = Cardinality(Known) + 1
      BY <1>3, <2>1, FS_AddElement
    <2>3. \/ Cardinality(Known') = Cardinality(Known) /\ dropped' = dropped + 1
          \/ Cardinality(Known') = Cardinality(Known) + 1 /\ dropped' = dropped
      BY <1>6, <2>2
    <2>4. RecordedEvents <= Cardinality(Known) + dropped + flush.dropped + reported + unreported
      BY DEF EventsInv
    <2>5. flush' = flush /\ reported' = reported /\ unreported' = unreported
          /\ dropped \in Nat /\ flush.dropped \in Nat /\ reported \in Nat /\ unreported \in Nat
      BY <1>t DEF SessionType
    <2>. QED BY <1>1, <2>1, <2>3, <2>4, <2>5
  <1>9. FlushInv'
    BY <1>t DEF FlushInv
  <1>. QED BY <1>5, <1>7, <1>8, <1>9 DEF EventsInv

\* The flusher's steps move what is known, or count what they lose.
LEMMA EventsStep == EventsInv /\ SessionMetricsNext => EventsInv'
  <1> SUFFICES ASSUME EventsInv, SessionMetricsNext PROVE EventsInv'
    OBVIOUS
  <1>t. SessionType /\ FlushInv /\ KnownInv
    BY DEF EventsInv
  <1>c. /\ RecordedEvents <= Cardinality(Known) + dropped + flush.dropped + reported + unreported
        /\ RecordedEvents \in Nat /\ Cardinality(Known) \in Nat
        /\ dropped \in Nat /\ flush.dropped \in Nat /\ reported \in Nat /\ unreported \in Nat
    BY <1>t, RecordedIsNat, KnownIsFinite DEF EventsInv, SessionType
  <1>e. EventsOf(<<>>) = {}
    BY DEF EventsOf
  <1>1. ASSUME NEW r \in Routine, RecordAbandoned(r) \/ RecordCleared(r) PROVE EventsInv'
    <2>1. CASE RecordAbandoned(r)
      <3>1. PICK e \in GoRoutineEvent : e = [type |-> "abandoned", of |-> r]
        BY DEF GoRoutineEvent
      <3>2. Enqueue(e) /\ e.type = "abandoned" /\ e.of = r
        BY <2>1, <3>1 DEF RecordAbandoned
      <3>3. routine[r] = "running" /\ routine' = [routine EXCEPT ![r] = "abandoned"]
            /\ UNCHANGED <<flush, storedEvents, reported, unreported>>
        BY <2>1 DEF RecordAbandoned, Flusher
      <3>. QED BY <1>1, <3>2, <3>3, EventIsQueued
    <2>2. CASE RecordCleared(r)
      <3>1. PICK e \in GoRoutineEvent : e = [type |-> "cleared", of |-> r]
        BY DEF GoRoutineEvent
      <3>2. Enqueue(e) /\ e.type = "cleared" /\ e.of = r
        BY <2>2, <3>1 DEF RecordCleared
      <3>3. routine[r] = "abandoned" /\ routine' = [routine EXCEPT ![r] = "cleared"]
            /\ UNCHANGED <<flush, storedEvents, reported, unreported>>
        BY <2>2 DEF RecordCleared, Flusher
      <3>. QED BY <1>1, <3>2, <3>3, EventIsQueued
    <2>. QED BY <1>1, <2>1, <2>2
  <1>2. CASE UNCHANGED <<routine, queue, dropped, flush, storedEvents, reported, unreported>>
    <2>1. Known' = Known /\ RecordedEvents' = RecordedEvents
      BY <1>2 DEF Known, EventsOf, RecordedEvents
    <2>. QED BY <1>2, <2>1 DEF EventsInv, SessionType, FlushInv, KnownInv
  <1>3. CASE TakeEvents
    <2>1. /\ flush.pc = "waiting" /\ queue' = <<>>
          /\ flush' = [flush EXCEPT !.pc = "taken", !.events = queue]
          /\ UNCHANGED <<routine, dropped, storedEvents, reported, unreported>>
      BY <1>3 DEF TakeEvents
    <2>2. flush'.pc = "taken" /\ flush'.events = queue /\ flush'.dropped = flush.dropped
          /\ flush' = [pc |-> flush'.pc, events |-> flush'.events, dropped |-> flush'.dropped,
                       failed |-> flush'.failed]
      BY <1>t, <2>1 DEF SessionType
    <2>3. Known' = Known
      BY <1>t, <1>e, <2>1, <2>2 DEF Known, FlushInv, EventsOf
    <2>4. RecordedEvents' = RecordedEvents
      BY <2>1 DEF RecordedEvents
    <2>5. SessionType' /\ FlushInv' /\ KnownInv'
      BY <1>t, <2>1, <2>2, <2>3 DEF SessionType, FlushInv, KnownInv
    <2>. QED BY <1>c, <2>1, <2>2, <2>3, <2>4, <2>5 DEF EventsInv
  <1>4. CASE TakeDropped
    <2>1. /\ flush.pc = "taken" /\ dropped' = 0
          /\ flush' = [flush EXCEPT !.pc = "produce", !.dropped = dropped]
          /\ UNCHANGED <<routine, queue, storedEvents, reported, unreported>>
      BY <1>4 DEF TakeDropped
    <2>2. flush'.pc = "produce" /\ flush'.events = flush.events /\ flush'.dropped = dropped
          /\ flush' = [pc |-> flush'.pc, events |-> flush'.events, dropped |-> flush'.dropped,
                       failed |-> flush'.failed]
      BY <1>t, <2>1 DEF SessionType
    <2>3. Known' = Known /\ RecordedEvents' = RecordedEvents
      BY <2>1, <2>2 DEF Known, EventsOf, RecordedEvents
    <2>4. flush.dropped = 0
      BY <1>t, <2>1 DEF FlushInv
    <2>5. SessionType' /\ FlushInv' /\ KnownInv'
      BY <1>t, <2>1, <2>2, <2>3 DEF SessionType, FlushInv, KnownInv
    <2>. QED BY <1>c, <2>1, <2>2, <2>3, <2>4, <2>5 DEF EventsInv
  <1>5. ASSUME NEW ok \in BOOLEAN, NEW lands \in BOOLEAN, ProduceEvents(ok, lands) PROVE EventsInv'
    <2> DEFINE E == EventsOf(flush.events)
    <2>1. /\ flush.pc = "produce" /\ (ok => lands)
          /\ storedEvents' = IF lands THEN storedEvents \cup E ELSE storedEvents
          /\ flush' = [flush EXCEPT !.pc = "report", !.events = <<>>, !.failed = ~ok,
                                    !.dropped = @ + IF ok THEN 0 ELSE Len(flush.events)]
          /\ UNCHANGED <<routine, queue, dropped, reported, unreported>>
      BY <1>5 DEF ProduceEvents, DroppedWithBatch
    <2>2. E \in SUBSET GoRoutineEvent /\ IsFiniteSet(E) /\ Cardinality(E) \in Nat
          /\ Cardinality(E) <= Len(flush.events) /\ Len(flush.events) \in Nat
      BY <1>t, EventsOfQueue DEF SessionType
    <2>3. /\ flush'.pc = "report" /\ flush'.events = <<>>
          /\ flush'.dropped = flush.dropped + IF ok THEN 0 ELSE Len(flush.events)
          /\ flush' = [pc |-> flush'.pc, events |-> flush'.events, dropped |-> flush'.dropped,
                       failed |-> flush'.failed]
      BY <1>t, <2>1 DEF SessionType
    <2>4. Known' = EventsOf(queue) \cup storedEvents'
      BY <1>e, <2>1, <2>3 DEF Known, EventsOf
    <2>5. Known' \in SUBSET Known /\ Known \in SUBSET (Known' \cup E) /\ (lands => Known' = Known)
      BY <2>1, <2>4 DEF Known
    <2>6. SessionType'
      <3>1. storedEvents' \in SUBSET GoRoutineEvent
        BY <1>t, <2>1, <2>2 DEF SessionType
      <3>2. flush'.dropped \in Nat /\ flush'.events \in Seq(GoRoutineEvent)
        BY <1>t, <2>2, <2>3 DEF SessionType
      <3>. QED BY <1>t, <2>1, <2>3, <3>1, <3>2 DEF SessionType
    <2>7. Cardinality(Known') \in Nat /\ IsFiniteSet(Known')
          /\ Cardinality(Known) <= Cardinality(Known') + Cardinality(E)
      <3>1. IsFiniteSet(Known)
        BY <1>t, KnownIsFinite
      <3>2. IsFiniteSet(Known') /\ Cardinality(Known') \in Nat
        BY <2>5, <3>1, FS_Subset, FS_CardinalityType
      <3>3. IsFiniteSet(Known' \cap E)
        BY <2>2, FS_Subset
      <3>4. Cardinality(Known' \cap E) \in Nat
        BY <3>3, FS_CardinalityType
      <3>5. IsFiniteSet(Known' \cup E) /\ Cardinality(Known' \cup E)
              = Cardinality(Known') + Cardinality(E) - Cardinality(Known' \cap E)
        BY <2>2, <3>2, FS_Union
      <3>6. Cardinality(Known) <= Cardinality(Known' \cup E)
        BY <2>5, <3>5, FS_Subset
      <3>. QED BY <1>c, <2>2, <3>2, <3>4, <3>5, <3>6
    <2>8. RecordedEvents' <= Cardinality(Known') + dropped' + flush'.dropped + reported' + unreported'
      <3>1. RecordedEvents' = RecordedEvents
        BY <2>1 DEF RecordedEvents
      <3>2. dropped' = dropped /\ reported' = reported /\ unreported' = unreported
        BY <2>1
      <3>3. CASE lands
        <4>1. Cardinality(Known') = Cardinality(Known)
          BY <2>5, <3>3
        <4>2. flush'.dropped \in Nat /\ flush'.dropped >= flush.dropped
          BY <1>c, <2>2, <2>3
        <4>. QED BY <1>c, <3>1, <3>2, <4>1, <4>2
      <3>4. CASE ~lands
        <4>1. flush'.dropped = flush.dropped + Len(flush.events)
          <5>1. ok = FALSE
            BY <2>1, <3>4
          <5>. QED BY <2>3, <5>1
        <4>2. PICK k \in Nat, l \in Nat, n \in Nat, m \in Nat :
                k = Cardinality(Known) /\ l = Cardinality(Known') /\ n = Cardinality(E)
                /\ m = Len(flush.events)
          BY <1>c, <2>2, <2>7
        <4>3. k <= l + n /\ n <= m
          BY <2>2, <2>7, <4>2
        <4>4. RecordedEvents <= k + dropped + flush.dropped + reported + unreported
              /\ flush'.dropped = flush.dropped + m
          BY <1>c, <4>1, <4>2
        <4>5. RecordedEvents <= l + dropped + flush'.dropped + reported + unreported
          BY <1>c, <4>3, <4>4
        <4>. QED BY <3>1, <3>2, <4>2, <4>5
      <3>. QED BY <3>3, <3>4
    <2>9. FlushInv' /\ KnownInv'
      BY <1>t, <2>1, <2>3, <2>5 DEF FlushInv, KnownInv
    <2>. QED BY <2>6, <2>8, <2>9 DEF EventsInv
  <1>6. ASSUME NEW cancelled \in BOOLEAN, ReportDrops(cancelled) PROVE EventsInv'
    <2>1. /\ flush.pc = "report" /\ flush' = [Waiting EXCEPT !.pc = "counters"]
          /\ reported' + unreported' = reported + unreported + flush.dropped
          /\ reported' \in Nat /\ unreported' \in Nat
          /\ UNCHANGED <<routine, queue, dropped, storedEvents>>
      BY <1>6, <1>c DEF ReportDrops
    <2>2. flush' = [pc |-> "counters", events |-> <<>>, dropped |-> 0, failed |-> FALSE]
      BY <2>1 DEF Waiting
    <2>3. Known' = Known /\ RecordedEvents' = RecordedEvents
      BY <1>t, <1>e, <2>1, <2>2 DEF Known, FlushInv, EventsOf, RecordedEvents
    <2>4. SessionType' /\ FlushInv' /\ KnownInv'
      <3>1. /\ flush'.pc = "counters" /\ flush'.events = <<>> /\ flush'.dropped = 0
            /\ flush' = [pc |-> flush'.pc, events |-> flush'.events, dropped |-> flush'.dropped,
                         failed |-> flush'.failed]
        BY <2>2
      <3>2. SessionType'
        <4>1. /\ reported' \in Nat /\ unreported' \in Nat
              /\ UNCHANGED <<routine, queue, dropped, storedEvents>>
          BY <2>1
        <4>2. flush'.events \in Seq(GoRoutineEvent)
          BY <3>1
        <4>. QED BY <1>t, <3>1, <4>1, <4>2 DEF SessionType
      <3>3. FlushInv'
        BY <3>1 DEF FlushInv
      <3>4. KnownInv'
        BY <1>t, <2>1, <2>3 DEF KnownInv
      <3>. QED BY <3>2, <3>3, <3>4
    <2>5. flush'.dropped = 0
      BY <2>2
    <2>. QED BY <1>c, <2>1, <2>3, <2>4, <2>5 DEF EventsInv
  <1>7. ASSUME NEW ok \in BOOLEAN, FlushCounters(ok) PROVE EventsInv'
    <2>1. /\ flush.pc = "counters" /\ flush' = Waiting
          /\ UNCHANGED <<routine, queue, dropped, storedEvents, reported, unreported>>
      BY <1>7 DEF FlushCounters
    <2>2. flush' = [pc |-> "waiting", events |-> <<>>, dropped |-> 0, failed |-> FALSE]
      BY <2>1 DEF Waiting
    <2>3. Known' = Known /\ RecordedEvents' = RecordedEvents /\ flush.dropped = 0
      BY <1>t, <1>e, <2>1, <2>2 DEF Known, FlushInv, EventsOf, RecordedEvents
    <2>4. SessionType' /\ FlushInv' /\ KnownInv'
      BY <1>t, <2>1, <2>2, <2>3 DEF SessionType, FlushInv, KnownInv
    <2>5. flush'.dropped = 0
      BY <2>2
    <2>. QED BY <1>c, <2>1, <2>3, <2>4, <2>5 DEF EventsInv
  <1>8. CASE RecordClaimed \/ StartSession \/ StopSession
             \/ EventTimestamps \/ toAbandonedRoutineSnapshot
    BY <1>2, <1>8 DEF RecordClaimed, StartSession, StopSession, EventTimestamps,
                      toAbandonedRoutineSnapshot, Flusher
  <1>. QED BY <1>1, <1>3, <1>4, <1>5, <1>6, <1>7, <1>8 DEF SessionMetricsNext

\* What is counted is at least what was recorded.
LEMMA EventsAreCounted == EventsInv => EventsAccountedFor
  <1> SUFFICES ASSUME EventsInv PROVE EventsAccountedFor
    OBVIOUS
  <1> DEFINE Q == EventsOf(queue)
             E == EventsOf(flush.events)
  <1>1. SessionType
    BY DEF EventsInv
  <1>2. /\ IsFiniteSet(Q) /\ IsFiniteSet(E) /\ Cardinality(Q) \in Nat /\ Cardinality(E) \in Nat
        /\ Cardinality(Q) <= Len(queue) /\ Cardinality(E) <= Len(flush.events)
        /\ Len(queue) \in Nat /\ Len(flush.events) \in Nat
    BY <1>1, EventsOfQueue DEF SessionType
  <1>3. IsFiniteSet(storedEvents) /\ Cardinality(storedEvents) \in Nat /\ Cardinality(Known) \in Nat
    BY <1>1, KnownIsFinite
  <1> HIDE DEF Q, E
  <1>4. IsFiniteSet(Q \cup E) /\ Cardinality(Q \cup E) \in Nat
        /\ Cardinality(Q \cup E) <= Cardinality(Q) + Cardinality(E)
    <2>1. IsFiniteSet(Q \cap E)
      BY <1>2, FS_Subset
    <2>2. Cardinality(Q \cap E) \in Nat
      BY <2>1, FS_CardinalityType
    <2>3. IsFiniteSet(Q \cup E)
          /\ Cardinality(Q \cup E) = Cardinality(Q) + Cardinality(E) - Cardinality(Q \cap E)
      BY <1>2, FS_Union
    <2>4. Cardinality(Q \cup E) \in Nat
      BY <2>3, FS_CardinalityType
    <2>. QED BY <1>2, <2>2, <2>3, <2>4
  <1>5. Cardinality(Known) <= Cardinality(Q \cup E) + Cardinality(storedEvents)
    <2>1. PICK S : S = Q \cup E
      OBVIOUS
    <2>2. IsFiniteSet(S \cap storedEvents)
      BY <1>3, FS_Subset
    <2>3. Cardinality(S \cap storedEvents) \in Nat
      BY <2>2, FS_CardinalityType
    <2>4. Cardinality(S \cup storedEvents)
            = Cardinality(S) + Cardinality(storedEvents) - Cardinality(S \cap storedEvents)
      BY <1>3, <1>4, <2>1, FS_Union
    <2>5. Known = S \cup storedEvents
      BY <2>1 DEF Known, Q, E
    <2>6. Cardinality(S) \in Nat /\ S = Q \cup E
      BY <1>4, <2>1
    <2>. QED BY <1>3, <2>3, <2>4, <2>5, <2>6
  <1>6. RecordedEvents <= Cardinality(Known) + dropped + flush.dropped + reported + unreported
        /\ RecordedEvents \in Nat
    BY <1>1, RecordedIsNat DEF EventsInv
  <1>7. dropped \in Nat /\ flush.dropped \in Nat /\ reported \in Nat /\ unreported \in Nat
    BY <1>1 DEF SessionType
  <1>8. Cardinality(Known) <= Len(queue) + Len(flush.events) + Cardinality(storedEvents)
    BY <1>2, <1>3, <1>4, <1>5
  <1>9. PICK k \in Nat, l \in Nat, n \in Nat, m \in Nat :
          k = Cardinality(Known) /\ l = Cardinality(storedEvents) /\ n = Len(queue)
          /\ m = Len(flush.events)
    BY <1>2, <1>3
  <1>10. RecordedEvents <= k + dropped + flush.dropped + reported + unreported /\ k <= n + m + l
    BY <1>6, <1>8, <1>9
  <1>11. RecordedEvents <= n + m + l + dropped + flush.dropped + reported + unreported
    BY <1>6, <1>7, <1>10
  <1>. QED BY <1>9, <1>11 DEF EventsAccountedFor

\* The counters are those of the session under way, and so is the last total
\* flushed; the sessions to come have no series.
CountersInv ==
    /\ metricSession \in 0 .. MaxSessions
    /\ running => metricSession # 0
    /\ flush.pc # "waiting" => running
    /\ earned \in [1 .. MaxSessions -> Nat]
    /\ series \in [1 .. MaxSessions -> Seq(Nat)]
    /\ claimed \in Nat /\ lastFlushed \in Nat /\ lastFlushed <= claimed
    /\ \A s \in 1 .. MaxSessions :
         /\ s = metricSession => claimed <= earned[s]
         /\ s = metricSession => \A i \in DOMAIN series[s] : series[s][i] <= lastFlushed
         /\ s > metricSession => series[s] = <<>>
    /\ SeriesIsOwn

\* What the first of a snapshot's reads has seen and is not cleared was open.
ReaderInv ==
    /\ reader.pc = "half" =>
         /\ reader.type = "abandoned"
         /\ reader.seen \ RoutinesOf("cleared") \subseteq reader.open
    /\ OutstandingIsReal

\* At the start no counter has moved.
LEMMA CountersStart == SessionMetricsInit => CountersInv
  BY LimitIsPositive DEF SessionMetricsInit, CountersInv, SeriesIsOwn, Waiting

\* A total is flushed to the series of the session that counted it.
LEMMA CountersStep == CountersInv /\ SessionMetricsNext => CountersInv'
  <1> SUFFICES ASSUME CountersInv, SessionMetricsNext PROVE CountersInv'
    OBVIOUS
  <1>1. CASE /\ UNCHANGED Session
             /\ flush'.pc # "waiting" => running
    <2>1. UNCHANGED <<metricSession, running, claimed, lastFlushed, series, earned>>
      BY <1>1 DEF Session
    <2>. QED BY <1>1, <2>1 DEF CountersInv, SeriesIsOwn
  <1>2. CASE RecordClaimed
    <2>1. /\ running /\ claimed' = claimed + 1
          /\ earned' = [earned EXCEPT ![metricSession] = @ + 1]
          /\ UNCHANGED <<flush, metricSession, running, lastFlushed, series>>
      BY <1>2 DEF RecordClaimed, Flusher
    <2>2. metricSession \in 1 .. MaxSessions
      BY <2>1, LimitIsPositive DEF CountersInv
    <2>3. earned' \in [1 .. MaxSessions -> Nat]
          /\ \A s \in 1 .. MaxSessions :
               earned'[s] = IF s = metricSession THEN earned[s] + 1 ELSE earned[s]
      BY <2>1, <2>2 DEF CountersInv
    <2>4. claimed' \in Nat /\ lastFlushed' <= claimed'
      BY <2>1 DEF CountersInv
    <2>5. \A s \in 1 .. MaxSessions : s = metricSession' => claimed' <= earned'[s]
      BY <2>1, <2>2, <2>3 DEF CountersInv
    <2>6. SeriesIsOwn'
      <3> SUFFICES ASSUME NEW s \in 1 .. MaxSessions, NEW i \in DOMAIN series[s]
                   PROVE  /\ series[s][i] <= earned'[s]
                          /\ i > 1 => series[s][i - 1] < series[s][i]
        BY <2>1 DEF SeriesIsOwn
      <3>1. /\ series[s][i] <= earned[s]
            /\ i > 1 => series[s][i - 1] < series[s][i]
        BY DEF CountersInv, SeriesIsOwn
      <3>2. series[s][i] \in Nat /\ earned[s] \in Nat
        <4>1. series[s] \in Seq(Nat)
          BY DEF CountersInv
        <4>2. series[s][i] \in Nat
          BY <4>1
        <4>. QED BY <4>2 DEF CountersInv
      <3>3. earned'[s] = earned[s] \/ earned'[s] = earned[s] + 1
        BY <2>3
      <3>. QED BY <3>1, <3>2, <3>3
    <2>. QED BY <2>1, <2>2, <2>3, <2>4, <2>5, <2>6 DEF CountersInv
  <1>3. CASE StartSession
    <2>1. /\ ~running /\ metricSession < MaxSessions /\ metricSession' = metricSession + 1
          /\ running' = TRUE /\ claimed' = 0 /\ lastFlushed' = 0
          /\ UNCHANGED <<flush, series, earned>>
      BY <1>3 DEF StartSession, Flusher, CountersAfterReset
    <2>2. metricSession' \in 1 .. MaxSessions /\ metricSession \in Nat
      BY <2>1, LimitIsPositive DEF CountersInv
    <2>3. \A s \in 1 .. MaxSessions : s >= metricSession' => series[s] = <<>>
      BY <2>1, <2>2, LimitIsPositive DEF CountersInv
    <2>4. SeriesIsOwn'
      BY <2>1 DEF CountersInv, SeriesIsOwn
    <2>5. /\ metricSession' # 0 /\ running' = TRUE
          /\ claimed' = 0 /\ lastFlushed' = 0 /\ lastFlushed' <= claimed'
          /\ earned' \in [1 .. MaxSessions -> Nat]
          /\ series' \in [1 .. MaxSessions -> Seq(Nat)]
      BY <2>1, <2>2 DEF CountersInv
    <2>6. ASSUME NEW s \in 1 .. MaxSessions
          PROVE  /\ claimed' <= earned'[s]
                 /\ s >= metricSession' => series'[s] = <<>>
      BY <2>1, <2>3, <2>5
    <2>7. ASSUME NEW s \in 1 .. MaxSessions
          PROVE  /\ s = metricSession' => \A i \in DOMAIN series'[s] : series'[s][i] <= lastFlushed'
                 /\ s > metricSession' => series'[s] = <<>>
      BY <2>2, <2>6
    <2>. QED BY <2>2, <2>4, <2>5, <2>6, <2>7 DEF CountersInv
  <1>4. CASE StopSession
    <2>1. flush.pc = "waiting"
          /\ UNCHANGED <<flush, metricSession, claimed, lastFlushed, series, earned>> /\ running' = FALSE
      BY <1>4 DEF StopSession, Flusher
    <2>. QED BY <2>1 DEF CountersInv, SeriesIsOwn
  <1>5. ASSUME NEW ok \in BOOLEAN, FlushCounters(ok) PROVE CountersInv'
    <2>1. CASE claimed = lastFlushed \/ ~ok
      BY <1>5, <2>1 DEF FlushCounters, CountersInv, SeriesIsOwn, Waiting
    <2>2. CASE ~(claimed = lastFlushed \/ ~ok)
      <3>1. /\ flush.pc = "counters" /\ flush' = Waiting /\ claimed # lastFlushed
            /\ series' = [series EXCEPT ![metricSession] = Append(@, claimed)]
            /\ lastFlushed' = claimed
            /\ UNCHANGED <<metricSession, running, claimed, earned>>
        BY <1>5, <2>2 DEF FlushCounters
      <3>2. metricSession \in 1 .. MaxSessions
        BY <3>1, LimitIsPositive DEF CountersInv
      <3>3. PICK s \in 1 .. MaxSessions : s = metricSession
        BY <3>2
      <3>4. series' = [series EXCEPT ![s] = Append(series[s], claimed)]
        BY <3>1, <3>3
      <3>5. series[s] \in Seq(Nat) /\ claimed \in Nat
        BY DEF CountersInv
      <3>6. /\ series'[s] \in Seq(Nat) /\ Len(series[s]) \in Nat
            /\ Len(series'[s]) = Len(series[s]) + 1
            /\ \A i \in 1 .. Len(series[s]) : series'[s][i] = series[s][i] /\ series[s][i] \in Nat
            /\ series'[s][Len(series[s]) + 1] = claimed
        <4>1. series'[s] = Append(series[s], claimed)
          BY <3>4 DEF CountersInv
        <4>2. Len(series[s]) \in Nat /\ \A i \in 1 .. Len(series[s]) : series[s][i] \in Nat
          BY <3>5, LenProperties, ElementOfSeq
        <4>. QED BY <3>5, <4>1, <4>2, AppendProperties
      <3>7. \A r \in 1 .. MaxSessions : r # s => series'[r] = series[r]
        BY <3>4 DEF CountersInv
      <3>8. series' \in [1 .. MaxSessions -> Seq(Nat)]
        BY <3>4, <3>6 DEF CountersInv
      <3>9. DOMAIN series'[s] = 1 .. (Len(series[s]) + 1) /\ DOMAIN series[s] = 1 .. Len(series[s])
        BY <3>5, <3>6, LenProperties
      <3>10. claimed <= earned[s] /\ lastFlushed \in Nat /\ lastFlushed < claimed
             /\ \A i \in 1 .. Len(series[s]) : series[s][i] <= lastFlushed
        BY <3>1, <3>3, <3>5, <3>9 DEF CountersInv
      <3>11. \A i \in DOMAIN series'[s] : series'[s][i] <= claimed
        <4> SUFFICES ASSUME NEW i \in 1 .. (Len(series[s]) + 1) PROVE series'[s][i] <= claimed
          BY <3>9
        <4>1. i \in 1 .. Len(series[s]) \/ i = Len(series[s]) + 1
          BY <3>6
        <4>2. CASE i \in 1 .. Len(series[s])
          <5>1. series'[s][i] \in Nat /\ series'[s][i] <= lastFlushed
            BY <3>6, <3>10, <4>2
          <5>. QED BY <3>5, <3>10, <5>1
        <4>3. CASE i = Len(series[s]) + 1
          BY <3>5, <3>6, <4>3
        <4>. QED BY <4>1, <4>2, <4>3
      <3>12. SeriesIsOwn'
        <4> SUFFICES ASSUME NEW r \in 1 .. MaxSessions, NEW i \in DOMAIN series'[r]
                     PROVE  /\ series'[r][i] <= earned'[r]
                            /\ i > 1 => series'[r][i - 1] < series'[r][i]
          BY DEF SeriesIsOwn
        <4>1. SeriesIsOwn
          BY DEF CountersInv
        <4>2. CASE r # s
          BY <3>1, <3>7, <4>1, <4>2 DEF SeriesIsOwn
        <4>3. CASE r = s /\ i \in 1 .. Len(series[s])
          <5>1. i > 1 => i - 1 \in 1 .. Len(series[s])
            BY <3>6, <4>3
          <5>. QED BY <3>1, <3>6, <3>9, <4>1, <4>3, <5>1 DEF SeriesIsOwn
        <4>4. CASE r = s /\ i = Len(series[s]) + 1
          <5>1. i > 1 => i - 1 \in 1 .. Len(series[s])
            BY <3>6, <4>4
          <5>2. i > 1 => series'[s][i - 1] \in Nat /\ series'[s][i - 1] <= lastFlushed
            BY <3>6, <3>10, <5>1
          <5>. QED BY <3>1, <3>5, <3>6, <3>10, <4>4, <5>2
        <4>. QED BY <3>6, <3>9, <4>2, <4>3, <4>4
      <3>13. \A r \in 1 .. MaxSessions : r > metricSession => series'[r] = <<>>
        BY <3>3, <3>7 DEF CountersInv
      <3>14. flush'.pc = "waiting"
        BY <3>1 DEF Waiting
      <3>. QED BY <3>1, <3>3, <3>5, <3>8, <3>10, <3>11, <3>12, <3>13, <3>14 DEF CountersInv
    <2>. QED BY <2>1, <2>2
  <1>6. CASE \/ \E r \in Routine : RecordAbandoned(r) \/ RecordCleared(r)
             \/ EventTimestamps \/ toAbandonedRoutineSnapshot
    <2>1. UNCHANGED <<Session, flush>>
      BY <1>6 DEF RecordAbandoned, RecordCleared, EventTimestamps, toAbandonedRoutineSnapshot, Flusher
    <2>. QED BY <1>1, <2>1 DEF CountersInv
  <1>7. CASE \/ TakeEvents \/ TakeDropped
             \/ \E ok, lands \in BOOLEAN : ProduceEvents(ok, lands)
             \/ \E ok \in BOOLEAN : ReportDrops(ok)
    <2>1. UNCHANGED Session
      BY <1>7 DEF TakeEvents, TakeDropped, ProduceEvents, ReportDrops
    <2>2. flush.pc # "waiting" \/ running
      BY <1>7 DEF TakeEvents, TakeDropped, ProduceEvents, ReportDrops
    <2>. QED BY <1>1, <2>1, <2>2 DEF CountersInv
  <1>. QED BY <1>2, <1>3, <1>4, <1>5, <1>6, <1>7 DEF SessionMetricsNext

\* Events are only added to the stream, so what the second read misses was
\* missing at the first.
LEMMA ReaderStep == ReaderInv /\ SessionMetricsNext => ReaderInv'
  <1> SUFFICES ASSUME ReaderInv, SessionMetricsNext PROVE ReaderInv'
    OBVIOUS
  <1>1. CASE UNCHANGED reader
    <2>1. storedEvents \subseteq storedEvents'
      BY DEF SessionMetricsNext, RecordAbandoned, RecordCleared, RecordClaimed, StartSession,
             StopSession, TakeEvents, TakeDropped, ProduceEvents, ReportDrops, FlushCounters,
             EventTimestamps, toAbandonedRoutineSnapshot, Flusher
    <2>2. RoutinesOf("cleared") \subseteq RoutinesOf("cleared")'
      BY <2>1 DEF RoutinesOf
    <2>. QED BY <1>1, <2>2 DEF ReaderInv, OutstandingIsReal
  <1>2. CASE EventTimestamps
    BY <1>2 DEF EventTimestamps, ReaderInv, OutstandingIsReal, FirstRead, OpenRoutines, RoutinesOf,
                Flusher
  <1>3. CASE toAbandonedRoutineSnapshot
    <2>1. reader.pc = "half" /\ reader.type = "abandoned"
          /\ reader' = [pc |-> "done", outstanding |-> reader.seen \ RoutinesOf("cleared"),
                        open |-> reader.open \cup OpenRoutines]
      BY <1>3 DEF toAbandonedRoutineSnapshot, ReaderInv, SecondRead, FirstRead
    <2>2. reader'.pc = "done" /\ reader'.outstanding \subseteq reader'.open
      BY <2>1 DEF ReaderInv
    <2>. QED BY <2>2 DEF ReaderInv, OutstandingIsReal
  <1>. QED BY <1>1, <1>2, <1>3 DEF SessionMetricsNext, RecordAbandoned, RecordCleared,
         RecordClaimed, StartSession, StopSession, TakeEvents, TakeDropped, ProduceEvents,
         ReportDrops, FlushCounters

\* A step of another component leaves the producer and its snapshot alone.
LEMMA SessionRests ==
  EventsInv /\ CountersInv /\ ReaderInv /\ UNCHANGED sessionVars
    => EventsInv' /\ CountersInv' /\ ReaderInv'
  <1> SUFFICES ASSUME EventsInv, CountersInv, ReaderInv, UNCHANGED sessionVars
               PROVE  EventsInv' /\ CountersInv' /\ ReaderInv'
    OBVIOUS
  <1>1. UNCHANGED <<routine, queue, dropped, flush, flushes, storedEvents, reported, unreported,
                    metricSession, running, claimed, lastFlushed, series, earned, reader>>
    BY DEF sessionVars
  <1>2. EventsInv'
    <2>1. Known' = Known /\ RecordedEvents' = RecordedEvents
      BY <1>1 DEF Known, EventsOf, RecordedEvents
    <2>. QED BY <1>1, <2>1 DEF EventsInv, SessionType, FlushInv, KnownInv
  <1>3. CountersInv'
    BY <1>1 DEF CountersInv, SeriesIsOwn
  <1>4. ReaderInv'
    BY <1>1 DEF ReaderInv, OutstandingIsReal, RoutinesOf
  <1>. QED BY <1>2, <1>3, <1>4

\* Whatever a handler, the flusher and the next session do to what they share,
\* and whichever batches fail: no event vanishes without being counted, a series
\* is of its own session's work and rises, and a handler the snapshot calls
\* outstanding was so at one of its two reads (MetricProducer,
\* AbandonedRoutineSnapshot).
THEOREM SessionCounted ==
  ServicesSpec => [](part = "session" => EventsAccountedFor /\ SeriesIsOwn /\ OutstandingIsReal)
  <1> DEFINE I == part = "session" => EventsInv /\ CountersInv /\ ReaderInv
  <1>1. ServicesInit => I
    <2> SUFFICES ASSUME SessionMetricsInit PROVE ReaderInv
      BY EventsStart, CountersStart DEF ServicesInit
    <2>. QED BY DEF SessionMetricsInit, ReaderInv, OutstandingIsReal
  <1>2. I /\ [ServicesNext]_servicesVars => I'
    <2> SUFFICES ASSUME I, [ServicesNext]_servicesVars, part' = "session"
                 PROVE  EventsInv' /\ CountersInv' /\ ReaderInv'
      OBVIOUS
    <2>1. part = "session"
      BY DEF ServicesNext, servicesVars
    <2>2. SessionMetricsNext \/ UNCHANGED sessionVars
      BY <2>1 DEF ServicesNext, servicesVars
    <2>. QED BY <2>1, <2>2, EventsStep, CountersStep, ReaderStep, SessionRests
  <1>3. I => (part = "session" => EventsAccountedFor /\ SeriesIsOwn /\ OutstandingIsReal)
    BY EventsAreCounted DEF CountersInv, ReaderInv
  <1>. QED BY <1>1, <1>2, <1>3, PTL DEF ServicesSpec

-----------------------------------------------------------------------------
(* The log pipeline's ring of held records. *)

\* Where the i-th oldest of n held records lies, start being the oldest's place.
Place(start, n, i) == IF start + i <= n THEN start + i ELSE start + i - n

\* A ring holds the newest records said of its operation, the oldest at start.
RingHolds(kept, said) ==
    LET n == Len(kept.records) IN
    /\ kept = [records |-> kept.records, start |-> kept.start, dropped |-> kept.dropped]
    /\ kept.records \in Seq(Nat) /\ kept.start \in Nat /\ kept.start < LogBufferMaxRecords
    /\ n = IF Len(said) < LogBufferMaxRecords THEN Len(said) ELSE LogBufferMaxRecords
    /\ n < LogBufferMaxRecords => kept.start = 0
    /\ kept.dropped = Len(said) - n
    /\ \A i \in 1 .. n : kept.records[Place(kept.start, n, i)] = said[Len(said) - n + i]

RingInv ==
    /\ calls \in Nat
    /\ ring = [o \in Operation |-> ring[o]]
    /\ narrated \in [Operation -> Seq(Nat)]
    /\ \A o \in Operation : RingHolds(ring[o], narrated[o])

\* A place below the size is its own remainder.
LEMMA BelowSize ==
  ASSUME NEW n \in Nat \ {0}, NEW x \in Nat, x < n
  PROVE  x % n = x
  OBVIOUS

\* The remainder is taken of less than twice the size.
LEMMA WrapsOnce ==
  ASSUME NEW n \in Nat \ {0}, NEW x \in Nat, x < 2 * n
  PROVE  x % n = IF x < n THEN x ELSE x - n
  <1>1. CASE x < n
    BY <1>1
  <1>2. CASE x >= n
    BY <1>2
  <1>. QED BY <1>1, <1>2

\* An empty ring of an operation nothing was said of.
LEMMA EmptyHolds == RingHolds(Empty, <<>>)
  <1>1. Empty.records = <<>> /\ Empty.start = 0 /\ Empty.dropped = 0
        /\ Empty = [records |-> Empty.records, start |-> Empty.start, dropped |-> Empty.dropped]
    BY DEF Empty
  <1>2. Len(<<>>) = 0 /\ <<>> \in Seq(Nat)
    OBVIOUS
  <1>. QED BY <1>1, <1>2, PipelineBoundsAreValid DEF RingHolds

\* A ring's fields written one after the other.
LEMMA RingRewritten ==
  ASSUME NEW R, NEW Q, NEW s, NEW t, NEW d, NEW e
  PROVE  [[records |-> R, start |-> s, dropped |-> d]
            EXCEPT !.records = Q, !.start = t, !.dropped = e]
           = [records |-> Q, start |-> t, dropped |-> e]
  <1>1. [[records |-> R, start |-> s, dropped |-> d] EXCEPT !.records = Q]
          = [records |-> Q, start |-> s, dropped |-> d]
    OBVIOUS
  <1>2. [[records |-> Q, start |-> s, dropped |-> d] EXCEPT !.start = t]
          = [records |-> Q, start |-> t, dropped |-> d]
    OBVIOUS
  <1>3. [[records |-> Q, start |-> t, dropped |-> d] EXCEPT !.dropped = e]
          = [records |-> Q, start |-> t, dropped |-> e]
    OBVIOUS
  <1>. QED BY <1>1, <1>2, <1>3

\* One record more: the ring grows, or its oldest makes room.
LEMMA AppendedHolds ==
  ASSUME NEW kept, NEW said \in Seq(Nat), RingHolds(kept, said), NEW x \in Nat
  PROVE  RingHolds(Appended(kept, x), Append(said, x))
  <1>1. PICK M \in Nat \ {0} : M = LogBufferMaxRecords
    BY PipelineBoundsAreValid
  <1>2. PICK R \in Seq(Nat), s \in Nat, d \in Int :
          kept = [records |-> R, start |-> s, dropped |-> d]
    <2>1. kept.dropped \in Int
      BY LenProperties DEF RingHolds
    <2>. QED BY <2>1 DEF RingHolds
  <1>3. kept.records = R /\ kept.start = s /\ kept.dropped = d
    BY <1>2
  <1>4. PICK n \in Nat, N \in Nat : n = Len(R) /\ N = Len(said)
    BY LenProperties
  <1>5. /\ s < M
        /\ n = IF N < M THEN N ELSE M
        /\ n < M => s = 0
        /\ d = N - n
        /\ \A i \in 1 .. n : R[Place(s, n, i)] = said[N - n + i]
    BY <1>1, <1>3, <1>4 DEF RingHolds
  <1>6. PICK more \in Seq(Nat) : more = Append(said, x)
    BY AppendProperties
  <1>7. /\ Len(more) = N + 1
        /\ \A i \in 1 .. N : more[i] = said[i]
        /\ more[N + 1] = x
    BY <1>4, <1>6, AppendProperties
  <1>8. CASE n < M
    <2>1. PICK Q \in Seq(Nat) : Q = Append(R, x)
      BY AppendProperties
    <2>2. /\ Len(Q) = n + 1 /\ Q[n + 1] = x
          /\ \A i \in 1 .. n : Q[i] = R[i]
      BY <1>4, <2>1, AppendProperties
    <2>3. PICK c : c = [records |-> Q, start |-> s, dropped |-> d]
      OBVIOUS
    <2>4. Appended(kept, x) = c
      <3>1. Appended(kept, x) = [kept EXCEPT !.records = Append(kept.records, x)]
        BY <1>1, <1>3, <1>4, <1>8 DEF Appended
      <3>. QED BY <1>2, <1>3, <2>1, <2>3, <3>1
    <2>5. /\ c.records = Q /\ c.start = s /\ c.dropped = d
          /\ c = [records |-> c.records, start |-> c.start, dropped |-> c.dropped]
      BY <2>3
    <2>6. n = N /\ s = 0 /\ d = 0
      BY <1>5, <1>8
    <2>7. \A i \in 1 .. n : R[i] = said[i]
      <3> SUFFICES ASSUME NEW i \in 1 .. n PROVE R[i] = said[i]
        OBVIOUS
      <3>1. Place(s, n, i) = i /\ N - n + i = i
        BY <2>6 DEF Place
      <3>2. R[Place(s, n, i)] = said[N - n + i]
        BY <1>5
      <3>. QED BY <3>1, <3>2
    <2>8. ASSUME NEW i \in 1 .. (n + 1)
          PROVE  Q[Place(s, n + 1, i)] = more[Len(more) - (n + 1) + i]
      <3>1. Place(s, n + 1, i) = i /\ Len(more) - (n + 1) + i = i
        BY <1>7, <2>6 DEF Place
      <3>2. CASE i \in 1 .. n
        BY <1>7, <2>2, <2>6, <2>7, <3>1, <3>2
      <3>3. CASE i = n + 1
        BY <1>7, <2>2, <2>6, <3>1, <3>3
      <3>. QED BY <3>2, <3>3
    <2>9. n + 1 = (IF Len(more) < M THEN Len(more) ELSE M) /\ d = Len(more) - (n + 1)
      BY <1>7, <1>8, <2>6
    <2>10. RingHolds(c, more)
      BY <1>1, <1>5, <2>2, <2>5, <2>6, <2>8, <2>9 DEF RingHolds
    <2>. QED BY <1>6, <2>4, <2>10
  <1>9. CASE n = M
    <2>1. PICK t \in Nat : t = (IF s + 1 < M THEN s + 1 ELSE 0) /\ t < M
      BY <1>5
    <2>2. (s + 1) % M = t
      <3>1. CASE s + 1 < M
        <4>1. t = s + 1
          BY <2>1, <3>1
        <4>2. PICK y \in Nat : y = s + 1
          OBVIOUS
        <4>3. y % M = y
          BY <3>1, <4>2, BelowSize
        <4>. QED BY <4>1, <4>2, <4>3
      <3>2. CASE s + 1 = M
        <4>1. t = 0
          BY <2>1, <3>2
        <4>2. M % M = 0
          OBVIOUS
        <4>. QED BY <3>2, <4>1, <4>2
      <3>. QED BY <1>5, <3>1, <3>2
    <2>3. R \in [1 .. M -> Nat] /\ s + 1 \in 1 .. M
      <3>1. R \in [1 .. Len(R) -> Nat]
        BY LenProperties
      <3>. QED BY <1>4, <1>5, <1>9, <3>1
    <2>4. PICK Q : Q = [R EXCEPT ![s + 1] = x]
      OBVIOUS
    <2>5. Q \in [1 .. M -> Nat] /\ \A j \in 1 .. M : Q[j] = IF j = s + 1 THEN x ELSE R[j]
      BY <2>3, <2>4
    <2>6. Q \in Seq(Nat) /\ Len(Q) = M
      BY <2>5
    <2>7. PICK c : c = [records |-> Q, start |-> t, dropped |-> d + 1]
      OBVIOUS
    <2>8. Appended(kept, x) = c
      <3>1. Appended(kept, x) = [kept EXCEPT !.records[s + 1] = x, !.start = (@ + 1) % M,
                                             !.dropped = @ + 1]
        BY <1>1, <1>3, <1>4, <1>9 DEF Appended
      <3>2. [kept EXCEPT !.records[s + 1] = x, !.start = (@ + 1) % M, !.dropped = @ + 1]
             = [kept EXCEPT !.records = Q, !.start = t, !.dropped = d + 1]
        BY <1>3, <2>2, <2>4
      <3>3. [kept EXCEPT !.records = Q, !.start = t, !.dropped = d + 1] = c
        <4>1. PICK e : e = d + 1
          OBVIOUS
        <4>2. [[records |-> R, start |-> s, dropped |-> d]
                 EXCEPT !.records = Q, !.start = t, !.dropped = e]
                = [records |-> Q, start |-> t, dropped |-> e]
          BY RingRewritten
        <4>. QED BY <1>2, <2>7, <4>1, <4>2
      <3>. QED BY <3>1, <3>2, <3>3
    <2>9. /\ c.records = Q /\ c.start = t /\ c.dropped = d + 1
          /\ c = [records |-> c.records, start |-> c.start, dropped |-> c.dropped]
      BY <2>7
    <2>10. N >= M /\ d \in Nat
      BY <1>5, <1>9
    <2>11. ASSUME NEW i \in 1 .. M PROVE Q[Place(t, M, i)] = more[Len(more) - M + i]
      <3>1. CASE i = M
        <4>1. Place(t, M, i) = s + 1
          BY <1>5, <2>1, <3>1 DEF Place
        <4>2. Len(more) - M + i = N + 1
          BY <1>7, <3>1
        <4>. QED BY <1>7, <2>3, <2>5, <4>1, <4>2
      <3>2. CASE i < M
        <4>1. Place(t, M, i) = Place(s, M, i + 1) /\ Place(s, M, i + 1) \in 1 .. M
              /\ Place(s, M, i + 1) # s + 1
          BY <1>5, <2>1, <3>2 DEF Place
        <4>2. i + 1 \in 1 .. n
          BY <1>9, <3>2
        <4>3. R[Place(s, M, i + 1)] = said[N - n + (i + 1)]
          BY <1>5, <1>9, <4>2
        <4>4. N - n + (i + 1) = Len(more) - M + i /\ Len(more) - M + i \in 1 .. N
          BY <1>7, <1>9, <2>10, <3>2
        <4>. QED BY <1>7, <2>5, <4>1, <4>3, <4>4
      <3>. QED BY <3>1, <3>2
    <2>12. ~(Len(more) < M) /\ d + 1 = Len(more) - M
      BY <1>5, <1>7, <1>9, <2>10
    <2>13. RingHolds(c, more)
      <3>1. /\ Len(c.records) = M /\ c.records \in Seq(Nat) /\ c.start \in Nat /\ c.start < M
            /\ c.dropped = Len(more) - M
            /\ \A i \in 1 .. M : c.records[Place(c.start, M, i)] = more[Len(more) - M + i]
        BY <2>1, <2>6, <2>9, <2>11, <2>12
      <3>2. M = (IF Len(more) < M THEN Len(more) ELSE M) /\ ~(M < M)
        BY <2>12
      <3>. QED BY <1>1, <2>9, <3>1, <3>2 DEF RingHolds
    <2>. QED BY <1>6, <2>8, <2>13
  <1>. QED BY <1>5, <1>8, <1>9

\* What drain renders of it is the newest that was said.
LEMMA RenderedIsNewest ==
  ASSUME NEW kept, NEW said \in Seq(Nat), RingHolds(kept, said)
  PROVE  /\ Rendered(kept) = Newest(said)
         /\ kept.dropped = Len(said) - Len(kept.records)
  <1>1. PICK M \in Nat \ {0} : M = LogBufferMaxRecords
    BY PipelineBoundsAreValid
  <1>2. PICK R \in Seq(Nat), s \in Nat : R = kept.records /\ s = kept.start
    BY DEF RingHolds
  <1>3. PICK n \in Nat, N \in Nat : n = Len(R) /\ N = Len(said)
    BY LenProperties
  <1>4. /\ s < M
        /\ n = IF N < M THEN N ELSE M
        /\ n < M => s = 0
        /\ \A i \in 1 .. n : R[Place(s, n, i)] = said[N - n + i]
        /\ kept.dropped = N - n
    BY <1>1, <1>2, <1>3 DEF RingHolds
  <1>5. DOMAIN R = 1 .. n
    BY <1>3, LenProperties
  <1>6. Newest(said) = SubSeq(said, N - n + 1, N)
    <2>1. (IF N > M THEN N - M ELSE 0) = N - n
      BY <1>4
    <2>. QED BY <1>1, <1>3, <2>1 DEF Newest
  <1>7. PICK Q : Q = SubSeq(said, N - n + 1, N)
    OBVIOUS
  <1>8. /\ Q \in Seq(Nat) /\ Len(Q) = n
        /\ \A i \in 1 .. n : Q[i] = said[N - n + i]
    <2>1. N - n + 1 \in 1 .. N + 1
      BY <1>4
    <2>2. \A i \in N - n + 1 .. N : said[i] \in Nat
      BY <1>3, <2>1
    <2>3. PICK from \in Int : from = N - n + 1
      OBVIOUS
    <2>4. /\ Q \in Seq(Nat)
          /\ Len(Q) = IF from <= N THEN N - from + 1 ELSE 0
          /\ \A i \in 1 .. N - from + 1 : Q[i] = said[from + i - 1]
      BY <1>7, <2>2, <2>3, SubSeqProperties
    <2>5. Len(Q) = n
      BY <2>1, <2>3, <2>4
    <2>6. ASSUME NEW i \in 1 .. n PROVE Q[i] = said[N - n + i]
      <3>1. i \in 1 .. N - from + 1 /\ from + i - 1 = N - n + i
        BY <2>3
      <3>. QED BY <2>4, <3>1
    <2>. QED BY <2>4, <2>5, <2>6
  <1>9. ASSUME NEW i \in 1 .. n PROVE ((s + i - 1) % n) + 1 = Place(s, n, i)
    <2>1. n \in Nat \ {0} /\ s < n
      BY <1>4
    <2>2. PICK y \in Nat : y = s + i - 1
      OBVIOUS
    <2>3. y < 2 * n
      BY <2>1, <2>2
    <2>4. y % n = IF y < n THEN y ELSE y - n
      BY <2>1, <2>3, WrapsOnce
    <2>5. PICK z : z = y % n
      OBVIOUS
    <2>6. (s + i - 1) % n = z /\ z = (IF y < n THEN y ELSE y - n)
      BY <2>2, <2>4, <2>5
    <2>7. z + 1 = Place(s, n, i)
      BY <2>1, <2>2, <2>6 DEF Place
    <2>. QED BY <2>6, <2>7
  <1>10. PICK P : P = Rendered(kept)
    OBVIOUS
  <1>11. P = [i \in 1 .. n |-> R[((s + i - 1) % n) + 1]]
    BY <1>2, <1>3, <1>5, <1>10 DEF Rendered
  <1>12. \A i \in 1 .. n : P[i] = Q[i]
    BY <1>4, <1>8, <1>9, <1>11
  <1>13. Q = [i \in 1 .. n |-> Q[i]]
    BY <1>8, LenProperties
  <1>14. P = Q
    BY <1>11, <1>12, <1>13
  <1>. QED BY <1>2, <1>3, <1>4, <1>6, <1>7, <1>10, <1>14

\* One operation's ring and what was said of it, replaced together.
LEMMA RingWritten ==
  ASSUME RingInv, NEW o \in Operation, NEW kept, NEW said \in Seq(Nat), RingHolds(kept, said),
         calls' \in Nat, ring' = [ring EXCEPT ![o] = kept], narrated' = [narrated EXCEPT ![o] = said]
  PROVE  RingInv'
  <1>1. /\ ring' = [p \in Operation |-> ring'[p]]
        /\ \A p \in Operation : ring'[p] = IF p = o THEN kept ELSE ring[p]
    BY DEF RingInv
  <1>2. /\ narrated' \in [Operation -> Seq(Nat)]
        /\ \A p \in Operation : narrated'[p] = IF p = o THEN said ELSE narrated[p]
    BY DEF RingInv
  <1>3. ASSUME NEW p \in Operation PROVE RingHolds(ring'[p], narrated'[p])
    BY <1>1, <1>2 DEF RingInv
  <1>. QED BY <1>1, <1>2, <1>3 DEF RingInv

\* At the start the ring holds nothing.
LEMMA RingStart == LogPipelineInit => RingInv
  <1> SUFFICES ASSUME LogPipelineInit PROVE RingInv
    OBVIOUS
  <1>1. calls = 0 /\ ring = [o \in Operation |-> Empty] /\ narrated = [o \in Operation |-> <<>>]
    BY DEF LogPipelineInit
  <1>2. narrated \in [Operation -> Seq(Nat)] /\ ring = [o \in Operation |-> ring[o]]
    BY <1>1
  <1>3. \A o \in Operation : RingHolds(ring[o], narrated[o])
    BY <1>1, EmptyHolds
  <1>. QED BY <1>1, <1>2, <1>3 DEF RingInv

\* Every step of the pipeline keeps the ring.
LEMMA RingStep == RingInv /\ LogPipelineNext => RingInv'
  <1> SUFFICES ASSUME RingInv, LogPipelineNext PROVE RingInv'
    OBVIOUS
  <1>1. CASE calls' \in Nat /\ UNCHANGED <<ring, narrated>>
    BY <1>1 DEF RingInv
  <1>2. ASSUME NEW caller \in LogCaller, Log(caller) PROVE RingInv'
    <2>1. PICK x \in Nat : x = calls + 1
      BY DEF RingInv
    <2>2. PICK o \in Operation : o = OperationOf[caller]
      BY PipelineBoundsAreValid
    <2>3. calls' = x
      BY <1>2, <2>1 DEF Log
    <2>4. \/ UNCHANGED <<ring, narrated>>
          \/ /\ ring' = [ring EXCEPT ![o] = Appended(ring[o], x)]
             /\ narrated' = [narrated EXCEPT ![o] = Append(narrated[o], x)]
      BY <1>2, <2>1, <2>2 DEF Log
    <2>5. CASE UNCHANGED <<ring, narrated>>
      BY <1>1, <2>3, <2>5
    <2>6. CASE /\ ring' = [ring EXCEPT ![o] = Appended(ring[o], x)]
               /\ narrated' = [narrated EXCEPT ![o] = Append(narrated[o], x)]
      <3>1. narrated[o] \in Seq(Nat) /\ RingHolds(ring[o], narrated[o])
        BY DEF RingInv
      <3>2. PICK more : more = Append(narrated[o], x)
        OBVIOUS
      <3>3. PICK kept : kept = Appended(ring[o], x)
        OBVIOUS
      <3>4. more \in Seq(Nat) /\ RingHolds(kept, more)
        BY <3>1, <3>2, <3>3, AppendProperties, AppendedHolds
      <3>5. ring' = [ring EXCEPT ![o] = kept] /\ narrated' = [narrated EXCEPT ![o] = more]
        BY <2>6, <3>2, <3>3
      <3>. QED BY <2>3, <3>4, <3>5, RingWritten
    <2>. QED BY <2>4, <2>5, <2>6
  <1>3. ASSUME NEW caller \in LogCaller, Drain(caller) PROVE RingInv'
    <2>1. PICK o \in Operation : o = OperationOf[caller]
      BY PipelineBoundsAreValid
    <2>2. /\ calls' = calls
          /\ \/ UNCHANGED <<ring, narrated>>
             \/ /\ ring' = [ring EXCEPT ![o] = Empty]
                /\ narrated' = [narrated EXCEPT ![o] = <<>>]
      BY <1>3, <2>1 DEF Drain
    <2>3. calls' \in Nat
      BY <2>2 DEF RingInv
    <2>4. CASE UNCHANGED <<ring, narrated>>
      BY <1>1, <2>3, <2>4
    <2>5. CASE ring' = [ring EXCEPT ![o] = Empty] /\ narrated' = [narrated EXCEPT ![o] = <<>>]
      <3>1. PICK kept, more : kept = Empty /\ more = <<>>
        OBVIOUS
      <3>2. more \in Seq(Nat) /\ RingHolds(kept, more)
        BY <3>1, EmptyHolds
      <3>3. ring' = [ring EXCEPT ![o] = kept] /\ narrated' = [narrated EXCEPT ![o] = more]
        BY <2>5, <3>1
      <3>. QED BY <2>3, <3>2, <3>3, RingWritten
    <2>. QED BY <2>2, <2>4, <2>5
  <1>4. CASE \/ Compose \/ PassMoment
             \/ \E caller \in LogCaller : Suppress(caller) \/ Sink(caller)
    <2>1. UNCHANGED <<ring, narrated, calls>>
      BY <1>4 DEF Compose, PassMoment, Suppress, Sink
    <2>2. calls' \in Nat
      BY <2>1 DEF RingInv
    <2>. QED BY <1>1, <2>1, <2>2
  <1>. QED BY <1>2, <1>3, <1>4 DEF LogPipelineNext

-----------------------------------------------------------------------------
(* The log pipeline's counts of suppressed records. *)

Record ==
    [pc : {"suppress", "drain", "sink"},
     pipeline : [buffer : BOOLEAN, stage : 0 .. MaxPipelines], level : Level, carried : Nat]
Line == [level : Level, stage : 0 .. MaxPipelines, suppressed : Nat]

CountsType ==
    /\ moment \in Int
    /\ pipelines \in Seq([buffer : BOOLEAN, stage : 0 .. MaxPipelines])
    /\ seen \in [Stage -> [Level -> [start : Int, count : Nat]]]
    /\ logCall \in [LogCaller -> {NoCall} \cup Record]
    /\ \A c \in LogCaller : logCall[c].pc = "suppress" => logCall[c].carried = 0
    /\ lines \in Seq(Line)
    /\ suppressed \in [Stage -> [Level -> Nat]]

CountsInv ==
    /\ CountsType
    /\ \A s \in Stage, l \in Level :
          suppressed[s][l] = Emitted(s, l) + Carried(s, l) + seen[s][l].count

\* Whether a record, or a line, belongs to a stage's window of a level.
Walks(r, s, l) == r # NoCall /\ r.pipeline.stage = s /\ r.level = l
Tells(x, s, l) == x.stage = s /\ x.level = l

\* What a record carries of a stage's window of a level.
Owed(r, s, l) == IF Walks(r, s, l) THEN r.carried ELSE 0

EmittedBy(given, s, l) ==
    MapThenSumSet(LAMBDA i : given[i].suppressed,
                  {i \in DOMAIN given : given[i].stage = s /\ given[i].level = l})
CarriedBy(walked, s, l) ==
    MapThenSumSet(LAMBDA c : walked[c].carried,
                  {c \in LogCaller : walked[c] # NoCall /\ walked[c].pipeline.stage = s /\ walked[c].level = l})

\* The counts as sums of a function.
LEMMA EmittedIsTotal ==
  ASSUME NEW given, NEW s, NEW l, IsFiniteSet(DOMAIN given)
  PROVE  EmittedBy(given, s, l) =
           Total([i \in DOMAIN given |-> given[i].suppressed], {i \in DOMAIN given : Tells(given[i], s, l)})
  <1> DEFINE S == {i \in DOMAIN given : given[i].stage = s /\ given[i].level = l}
             g == [i \in DOMAIN given |-> given[i].suppressed]
  <1>1. S = {i \in DOMAIN given : Tells(given[i], s, l)}
    BY DEF Tells
  <1>2. IsFiniteSet(S)
    BY FS_Subset
  <1>3. \A t \in SUBSET S : t # {} => g[CHOOSE x \in t : TRUE] = given[CHOOSE x \in t : TRUE].suppressed
    <2> SUFFICES ASSUME NEW t \in SUBSET S, t # {} PROVE (CHOOSE x \in t : TRUE) \in DOMAIN given
      OBVIOUS
    <2>1. (CHOOSE x \in t : TRUE) \in t
      OBVIOUS
    <2>. QED BY <2>1
  <1> HIDE DEF S, g
  <1>4. \A h : IsSum(S, g, h) <=>
                 h = [t \in SUBSET S |-> IF t = {} THEN 0
                        ELSE given[CHOOSE x \in t : TRUE].suppressed + h[t \ {CHOOSE x \in t : TRUE}]]
    BY <1>3 DEF IsSum, SumStep, Chosen
  <1>5. (CHOOSE h : IsSum(S, g, h)) =
          CHOOSE h : h = [t \in SUBSET S |-> IF t = {} THEN 0
                        ELSE given[CHOOSE x \in t : TRUE].suppressed + h[t \ {CHOOSE x \in t : TRUE}]]
    BY <1>4, Zenon
  <1>6. EmittedBy(given, s, l) = (CHOOSE h : h = [t \in SUBSET S |-> IF t = {} THEN 0
                        ELSE given[CHOOSE x \in t : TRUE].suppressed + h[t \ {CHOOSE x \in t : TRUE}]])[S]
    BY Zenon DEF EmittedBy, MapThenSumSet, MapThenFoldSet, S
  <1>7. EmittedBy(given, s, l) = Total(g, S)
    BY <1>5, <1>6 DEF Total
  <1>. QED BY <1>1, <1>7 DEF g

LEMMA CarriedIsTotal ==
  ASSUME NEW walked, NEW s, NEW l
  PROVE  CarriedBy(walked, s, l) =
           Total([c \in LogCaller |-> walked[c].carried], {c \in LogCaller : Walks(walked[c], s, l)})
  <1> DEFINE S == {c \in LogCaller : walked[c] # NoCall /\ walked[c].pipeline.stage = s /\ walked[c].level = l}
             g == [c \in LogCaller |-> walked[c].carried]
  <1>1. S = {c \in LogCaller : Walks(walked[c], s, l)}
    BY DEF Walks
  <1>2. IsFiniteSet(S)
    BY FS_Subset, PipelineBoundsAreValid
  <1>3. \A t \in SUBSET S : t # {} => g[CHOOSE x \in t : TRUE] = walked[CHOOSE x \in t : TRUE].carried
    <2> SUFFICES ASSUME NEW t \in SUBSET S, t # {} PROVE (CHOOSE x \in t : TRUE) \in LogCaller
      OBVIOUS
    <2>1. (CHOOSE x \in t : TRUE) \in t
      OBVIOUS
    <2>. QED BY <2>1
  <1> HIDE DEF S, g
  <1>4. \A h : IsSum(S, g, h) <=>
                 h = [t \in SUBSET S |-> IF t = {} THEN 0
                        ELSE walked[CHOOSE x \in t : TRUE].carried + h[t \ {CHOOSE x \in t : TRUE}]]
    BY <1>3 DEF IsSum, SumStep, Chosen
  <1>5. (CHOOSE h : IsSum(S, g, h)) =
          CHOOSE h : h = [t \in SUBSET S |-> IF t = {} THEN 0
                        ELSE walked[CHOOSE x \in t : TRUE].carried + h[t \ {CHOOSE x \in t : TRUE}]]
    BY <1>4, Zenon
  <1>6. CarriedBy(walked, s, l) = (CHOOSE h : h = [t \in SUBSET S |-> IF t = {} THEN 0
                        ELSE walked[CHOOSE x \in t : TRUE].carried + h[t \ {CHOOSE x \in t : TRUE}]])[S]
    BY Zenon DEF CarriedBy, MapThenSumSet, MapThenFoldSet, S
  <1>7. CarriedBy(walked, s, l) = Total(g, S)
    BY <1>5, <1>6 DEF Total
  <1>. QED BY <1>1, <1>7 DEF g

\* A line adds its count to those of its stage and level.
LEMMA EmittedGrows ==
  ASSUME NEW given \in Seq(Line), NEW x \in Line, NEW s, NEW l
  PROVE  /\ EmittedBy(given, s, l) \in Nat
         /\ EmittedBy(Append(given, x), s, l) =
              EmittedBy(given, s, l) + (IF Tells(x, s, l) THEN x.suppressed ELSE 0)
  <1> DEFINE more == Append(given, x)
             n == Len(given) + 1
             S == {i \in DOMAIN given : Tells(given[i], s, l)}
             T == {i \in DOMAIN more : Tells(more[i], s, l)}
             f == [i \in DOMAIN given |-> given[i].suppressed]
             g == [i \in DOMAIN more |-> more[i].suppressed]
  <1>1. /\ Len(given) \in Nat /\ DOMAIN given = 1 .. Len(given) /\ DOMAIN more = 1 .. n
        /\ \A i \in DOMAIN given : more[i] = given[i]
        /\ more[n] = x /\ \A i \in DOMAIN given : given[i] \in Line
    BY LenProperties, AppendProperties, ElementOfSeq
  <1>2. n \notin DOMAIN given /\ DOMAIN more = DOMAIN given \cup {n}
    BY <1>1
  <1>3. IsFiniteSet(DOMAIN given) /\ IsFiniteSet(DOMAIN more)
    BY <1>1, FS_Interval
  <1>4. IsFiniteSet(S) /\ IsFiniteSet(T)
    BY <1>3, FS_Subset
  <1> HIDE DEF more, n
  <1>5. /\ n \notin S /\ S \ {n} = T \ {n}
        /\ n \in T <=> Tells(x, s, l)
    BY <1>1, <1>2
  <1>6. /\ \A i \in S : f[i] \in Nat
        /\ \A i \in S \ {n} : f[i] = g[i]
        /\ \A i \in T : g[i] \in Nat
    <2>1. \A i \in DOMAIN given : f[i] = given[i].suppressed /\ f[i] \in Nat /\ g[i] = f[i]
      BY <1>1, <1>2 DEF Line
    <2>2. g[n] = x.suppressed /\ g[n] \in Nat
      BY <1>1, <1>2 DEF Line
    <2>. QED BY <1>2, <2>1, <2>2
  <1>7. g[n] = x.suppressed
    BY <1>1, <1>2
  <1> HIDE DEF S, T, f, g
  <1>8. /\ Total(f, S) \in Nat /\ Total(g, T) \in Nat
        /\ Total(g, T) + (IF n \in S THEN f[n] ELSE 0) = Total(f, S) + (IF n \in T THEN g[n] ELSE 0)
    <2>1. S \ {n} = T \ {n} /\ \A i \in S \ {n} : f[i] = g[i]
      BY <1>5, <1>6
    <2>2. (\A i \in S : f[i] \in Nat) /\ \A i \in T : g[i] \in Nat
      BY <1>6
    <2>. QED BY <1>4, <2>1, <2>2, TotalMoves
  <1>9. EmittedBy(given, s, l) = Total(f, S) /\ EmittedBy(more, s, l) = Total(g, T)
    BY <1>3, EmittedIsTotal DEF S, T, f, g
  <1>10. Total(g, T) = Total(f, S) + (IF n \in T THEN g[n] ELSE 0)
    BY <1>5, <1>8
  <1>. QED BY <1>5, <1>7, <1>8, <1>9, <1>10 DEF more

\* What one record carries changes, and with it the sum of its stage and level.
LEMMA CarriedMoves ==
  ASSUME NEW walked \in [LogCaller -> {NoCall} \cup Record],
         NEW moved \in [LogCaller -> {NoCall} \cup Record], NEW caller \in LogCaller,
         \A c \in LogCaller \ {caller} : moved[c] = walked[c], NEW s, NEW l
  PROVE  /\ CarriedBy(walked, s, l) \in Nat /\ CarriedBy(moved, s, l) \in Nat
         /\ CarriedBy(moved, s, l) + Owed(walked[caller], s, l)
              = CarriedBy(walked, s, l) + Owed(moved[caller], s, l)
  <1> DEFINE S == {c \in LogCaller : Walks(walked[c], s, l)}
             T == {c \in LogCaller : Walks(moved[c], s, l)}
             f == [c \in LogCaller |-> walked[c].carried]
             g == [c \in LogCaller |-> moved[c].carried]
  <1>1. IsFiniteSet(S) /\ IsFiniteSet(T)
    BY FS_Subset, PipelineBoundsAreValid
  <1>2. \A rec \in {NoCall} \cup Record : Walks(rec, s, l) => rec.carried \in Nat
    BY DEF Walks, Record
  <1>3. /\ S \ {caller} = T \ {caller}
        /\ caller \in S <=> Walks(walked[caller], s, l)
        /\ caller \in T <=> Walks(moved[caller], s, l)
    OBVIOUS
  <1>4. /\ \A c \in S : f[c] \in Nat
        /\ \A c \in T : g[c] \in Nat
        /\ \A c \in S \ {caller} : f[c] = g[c]
        /\ f[caller] = walked[caller].carried /\ g[caller] = moved[caller].carried
    BY <1>2
  <1>5. CarriedBy(walked, s, l) = Total(f, S) /\ CarriedBy(moved, s, l) = Total(g, T)
    BY CarriedIsTotal
  <1> HIDE DEF S, T, f, g
  <1>6. /\ Total(f, S) \in Nat /\ Total(g, T) \in Nat
        /\ Total(g, T) + (IF caller \in S THEN f[caller] ELSE 0)
             = Total(f, S) + (IF caller \in T THEN g[caller] ELSE 0)
    <2>1. S \ {caller} = T \ {caller} /\ \A c \in S \ {caller} : f[c] = g[c]
      BY <1>3, <1>4
    <2>2. (\A c \in S : f[c] \in Nat) /\ \A c \in T : g[c] \in Nat
      BY <1>4
    <2>. QED BY <1>1, <2>1, <2>2, TotalMoves
  <1>. QED BY <1>3, <1>4, <1>5, <1>6 DEF Owed

\* At the start nothing was suppressed.
LEMMA CountsStart == LogPipelineInit => CountsInv
  <1> SUFFICES ASSUME LogPipelineInit PROVE CountsInv
    OBVIOUS
  <1>1. lines = <<>> /\ logCall = [c \in LogCaller |-> NoCall]
    BY DEF LogPipelineInit
  <1>2. CountsType
    <2>1. Unseen \in [start : Int, count : Nat] /\ NoCall.pc # "suppress"
      BY DEF Unseen, NoCall
    <2>2. moment = 0 /\ pipelines = <<>> /\ lines = <<>>
      BY DEF LogPipelineInit
    <2>3. seen = [s \in Stage |-> [l \in Level |-> Unseen]]
      BY DEF LogPipelineInit
    <2>4. suppressed = [s \in Stage |-> [l \in Level |-> 0]]
      BY DEF LogPipelineInit
    <2>5. seen \in [Stage -> [Level -> [start : Int, count : Nat]]]
      BY <2>1, <2>3
    <2>6. suppressed \in [Stage -> [Level -> Nat]]
      BY <2>4
    <2>7. pipelines \in Seq([buffer : BOOLEAN, stage : 0 .. MaxPipelines]) /\ lines \in Seq(Line)
      BY <2>2, EmptySeq
    <2>. QED BY <1>1, <2>1, <2>2, <2>5, <2>6, <2>7 DEF CountsType
  <1>3. ASSUME NEW s \in Stage, NEW l \in Level
        PROVE  suppressed[s][l] = Emitted(s, l) + Carried(s, l) + seen[s][l].count
    <2>1. suppressed[s][l] = 0 /\ seen[s][l].count = 0
      BY DEF LogPipelineInit, Unseen
    <2>2. Emitted(s, l) = 0
      <3>1. DOMAIN lines = {}
        BY <1>1
      <3>2. IsFiniteSet(DOMAIN lines) /\ {i \in DOMAIN lines : Tells(lines[i], s, l)} = {}
        BY <3>1, FS_EmptySet
      <3>3. EmittedBy(lines, s, l) = 0
        BY <3>2, EmittedIsTotal, TotalEmpty
      <3>. QED BY <3>3 DEF Emitted, EmittedBy
    <2>3. Carried(s, l) = 0
      <3>1. {c \in LogCaller : Walks(logCall[c], s, l)} = {}
        BY <1>1 DEF Walks
      <3>2. CarriedBy(logCall, s, l) = 0
        BY <3>1, CarriedIsTotal, TotalEmpty
      <3>. QED BY <3>2 DEF Carried, CarriedBy
    <2>. QED BY <2>1, <2>2, <2>3
  <1>. QED BY <1>2, <1>3 DEF CountsInv

\* What is dropped in this step is counted: by the window, or by what the caller
\* carries in its place.
DropsCounted(caller, r) ==
    \A s \in Stage, l \in Level :
       suppressed'[s][l] - seen'[s][l].count - Owed(r, s, l)
         = suppressed[s][l] - seen[s][l].count - Owed(logCall[caller], s, l)

\* A step that moves one record down the chain and writes no line.
LEMMA RecordMoves ==
  ASSUME CountsInv, CountsType', NEW caller \in LogCaller, NEW r \in {NoCall} \cup Record,
         logCall' = [logCall EXCEPT ![caller] = r], lines' = lines,
         DropsCounted(caller, r)
  PROVE  CountsInv'
  <1>1. ASSUME NEW s \in Stage, NEW l \in Level
        PROVE  suppressed'[s][l] = EmittedBy(lines', s, l) + CarriedBy(logCall', s, l) + seen'[s][l].count
    <2>1. logCall \in [LogCaller -> {NoCall} \cup Record] /\ lines \in Seq(Line)
      BY DEF CountsInv, CountsType
    <2>m. PICK moved \in [LogCaller -> {NoCall} \cup Record] : moved = logCall'
      BY <2>1
    <2>r. moved[caller] = r /\ \A c \in LogCaller \ {caller} : moved[c] = logCall[c]
      BY <2>1, <2>m
    <2>2. /\ CarriedBy(logCall, s, l) \in Nat /\ CarriedBy(moved, s, l) \in Nat
          /\ CarriedBy(moved, s, l) + Owed(logCall[caller], s, l) = CarriedBy(logCall, s, l) + Owed(r, s, l)
      BY <2>1, <2>r, CarriedMoves
    <2>3. EmittedBy(lines, s, l) \in Nat
      <3>1. PICK x : x \in Line
        <4>1. [level |-> "info", stage |-> 0, suppressed |-> 0] \in Line
          BY PipelineBoundsAreValid DEF Line, Level
        <4>. QED BY <4>1
      <3>. QED BY <2>1, <3>1, EmittedGrows
    <2>4. suppressed[s][l] = EmittedBy(lines, s, l) + CarriedBy(logCall, s, l) + seen[s][l].count
      BY DEF CountsInv, Emitted, Carried, EmittedBy, CarriedBy
    <2>5. /\ suppressed[s][l] \in Nat /\ suppressed'[s][l] \in Nat
          /\ seen[s][l].count \in Nat /\ seen'[s][l].count \in Nat
      BY DEF CountsInv, CountsType
    <2>6. Owed(r, s, l) \in Nat /\ Owed(logCall[caller], s, l) \in Nat
      <3>1. \A rec \in {NoCall} \cup Record : Owed(rec, s, l) \in Nat
        BY DEF Walks, Record, Owed
      <3>2. logCall[caller] \in {NoCall} \cup Record
        BY <2>1
      <3>. QED BY <3>1, <3>2
    <2>7. suppressed'[s][l] - seen'[s][l].count - Owed(r, s, l)
            = suppressed[s][l] - seen[s][l].count - Owed(logCall[caller], s, l)
      BY DEF DropsCounted
    <2>8. suppressed'[s][l] = EmittedBy(lines, s, l) + CarriedBy(moved, s, l) + seen'[s][l].count
      BY <2>2, <2>3, <2>4, <2>5, <2>6, <2>7
    <2>. QED BY <2>8, <2>m
  <1>2. \A s, l : Emitted(s, l)' = EmittedBy(lines', s, l) /\ Carried(s, l)' = CarriedBy(logCall', s, l)
    BY DEF Emitted, Carried, EmittedBy, CarriedBy, MapThenSumSet, MapThenFoldSet
  <1>. QED BY <1>1, <1>2 DEF CountsInv

\* A step that leaves records, windows and lines alone.
LEMMA CountsRest ==
  ASSUME CountsInv, CountsType', UNCHANGED <<seen, logCall, lines, suppressed>>
  PROVE  CountsInv'
  <1>1. ASSUME NEW s, NEW l PROVE Emitted(s, l)' = Emitted(s, l) /\ Carried(s, l)' = Carried(s, l)
    <2>1. lines' = lines /\ logCall' = logCall
      OBVIOUS
    <2>2. EmittedBy(lines', s, l) = EmittedBy(lines, s, l) /\ CarriedBy(logCall', s, l) = CarriedBy(logCall, s, l)
      BY <2>1
    <2>3. Emitted(s, l)' = EmittedBy(lines', s, l) /\ Carried(s, l)' = CarriedBy(logCall', s, l)
      BY DEF Emitted, Carried, EmittedBy, CarriedBy, MapThenSumSet, MapThenFoldSet
    <2>4. Emitted(s, l) = EmittedBy(lines, s, l) /\ Carried(s, l) = CarriedBy(logCall, s, l)
      BY DEF Emitted, Carried, EmittedBy, CarriedBy, MapThenSumSet, MapThenFoldSet
    <2>. QED BY <2>2, <2>3, <2>4
  <1>. QED BY <1>1 DEF CountsInv

\* A record that moves down the chain keeps the types.
LEMMA RecordTyped ==
  ASSUME CountsType, NEW caller \in LogCaller, NEW r \in {NoCall} \cup Record,
         r.pc = "suppress" => r.carried = 0,
         logCall' = [logCall EXCEPT ![caller] = r],
         moment' = moment, pipelines' = pipelines, lines' = lines,
         seen' \in [Stage -> [Level -> [start : Int, count : Nat]]],
         suppressed' \in [Stage -> [Level -> Nat]]
  PROVE  CountsType'
  BY DEF CountsType

\* A window's rewrite keeps the windows' type.
LEMMA WindowTyped ==
  ASSUME CountsType, NEW s \in Stage, NEW l \in Level, NEW w \in [start : Int, count : Nat]
  PROVE  [seen EXCEPT ![s][l] = w] \in [Stage -> [Level -> [start : Int, count : Nat]]]
  BY DEF CountsType

LEMMA LogCounts ==
  ASSUME CountsInv, NEW caller \in LogCaller, Log(caller)
  PROVE  CountsInv'
  <1>1. PICK i \in DOMAIN pipelines, level \in Level :
          logCall' = [logCall EXCEPT ![caller] = [pc |-> "suppress", pipeline |-> pipelines[i],
                                                  level |-> level, carried |-> 0]]
    BY DEF Log
  <1>2. logCall[caller] = NoCall /\ UNCHANGED <<moment, pipelines, seen, lines, suppressed>>
    BY DEF Log
  <1>3. PICK r : r = [pc |-> "suppress", pipeline |-> pipelines[i], level |-> level, carried |-> 0]
    OBVIOUS
  <1>4. pipelines[i] \in [buffer : BOOLEAN, stage : 0 .. MaxPipelines]
    <2>1. pipelines \in Seq([buffer : BOOLEAN, stage : 0 .. MaxPipelines])
      BY DEF CountsInv, CountsType
    <2>2. i \in 1 .. Len(pipelines)
      BY <2>1, LenProperties
    <2>. QED BY <2>1, <2>2, ElementOfSeq
  <1>5. r \in Record /\ r.carried = 0
    BY <1>3, <1>4 DEF Record
  <1>6. CountsType'
    <2>1. /\ seen' \in [Stage -> [Level -> [start : Int, count : Nat]]]
          /\ suppressed' \in [Stage -> [Level -> Nat]]
      BY <1>2 DEF CountsInv, CountsType
    <2>2. CountsType /\ moment' = moment /\ pipelines' = pipelines /\ lines' = lines
      BY <1>2 DEF CountsInv
    <2>3. logCall' = [logCall EXCEPT ![caller] = r]
      BY <1>1, <1>3
    <2>. QED BY <1>5, <2>1, <2>2, <2>3, RecordTyped
  <1>7. \A s \in Stage, l \in Level : Owed(r, s, l) = 0 /\ Owed(logCall[caller], s, l) = 0
    BY <1>2, <1>5 DEF Owed, Walks
  <1>8. DropsCounted(caller, r)
    BY <1>2, <1>7 DEF DropsCounted
  <1>9. logCall' = [logCall EXCEPT ![caller] = r] /\ lines' = lines
    BY <1>1, <1>2, <1>3
  <1>. QED BY <1>5, <1>6, <1>8, <1>9, RecordMoves

LEMMA DrainCounts ==
  ASSUME CountsInv, NEW caller \in LogCaller, Drain(caller)
  PROVE  CountsInv'
  <1>1. /\ logCall[caller].pc = "drain" /\ logCall' = [logCall EXCEPT ![caller].pc = "sink"]
        /\ UNCHANGED <<moment, pipelines, seen, lines, suppressed>>
    BY DEF Drain
  <1>2. logCall[caller] \in Record
    BY <1>1 DEF CountsInv, CountsType, NoCall
  <1>3. PICK r : r = [logCall[caller] EXCEPT !.pc = "sink"]
    OBVIOUS
  <1>4. /\ r \in Record /\ r.pc = "sink" /\ r.carried = logCall[caller].carried
        /\ r.pipeline = logCall[caller].pipeline /\ r.level = logCall[caller].level
    BY <1>2, <1>3 DEF Record
  <1>5. logCall' = [logCall EXCEPT ![caller] = r]
    BY <1>1, <1>3
  <1>6. CountsType'
    <2>1. /\ seen' \in [Stage -> [Level -> [start : Int, count : Nat]]]
          /\ suppressed' \in [Stage -> [Level -> Nat]]
      BY <1>1 DEF CountsInv, CountsType
    <2>2. CountsType /\ moment' = moment /\ pipelines' = pipelines /\ lines' = lines
      BY <1>1 DEF CountsInv
    <2>3. r.pc # "suppress"
      BY <1>4
    <2>. QED BY <1>4, <1>5, <2>1, <2>2, <2>3, RecordTyped
  <1>7. \A s \in Stage, l \in Level : Owed(r, s, l) = Owed(logCall[caller], s, l)
    <2>1. r # NoCall /\ logCall[caller] # NoCall
      BY <1>1, <1>4 DEF NoCall
    <2>. QED BY <1>4, <2>1 DEF Owed, Walks
  <1>8. DropsCounted(caller, r)
    BY <1>1, <1>7 DEF DropsCounted
  <1>9. lines' = lines
    BY <1>1
  <1>. QED BY <1>4, <1>5, <1>6, <1>8, <1>9, RecordMoves

LEMMA SuppressCounts ==
  ASSUME CountsInv, NEW caller \in LogCaller, Suppress(caller)
  PROVE  CountsInv'
  <1>1. logCall[caller].pc = "suppress" /\ UNCHANGED <<moment, pipelines, lines>>
    BY DEF Suppress
  <1>2. CountsType /\ logCall[caller] \in Record /\ logCall[caller].carried = 0
    BY <1>1 DEF CountsInv, CountsType, NoCall
  <1>3. PICK given \in Record : given = logCall[caller]
    BY <1>2
  <1>4. PICK drained : drained = [given EXCEPT !.pc = "drain"]
    OBVIOUS
  <1>5. /\ drained \in Record /\ drained.pc = "drain" /\ drained.carried = 0
        /\ drained.pipeline = given.pipeline /\ drained.level = given.level
    BY <1>2, <1>3, <1>4 DEF Record
  <1>6. \A s \in Stage, l \in Level : Owed(given, s, l) = 0 /\ Owed(drained, s, l) = 0
    BY <1>2, <1>3, <1>5 DEF Owed
  <1>7. /\ seen \in [Stage -> [Level -> [start : Int, count : Nat]]]
        /\ suppressed \in [Stage -> [Level -> Nat]]
        /\ moment' = moment /\ pipelines' = pipelines /\ lines' = lines
    BY <1>1, <1>2 DEF CountsType
  <1>8. CASE /\ logCall' = [logCall EXCEPT ![caller] = drained]
             /\ seen' = seen /\ suppressed' = suppressed
    <2>1. CountsType'
      BY <1>2, <1>5, <1>7, <1>8, RecordTyped
    <2>2. DropsCounted(caller, drained)
      BY <1>3, <1>6, <1>8 DEF DropsCounted
    <2>. QED BY <1>5, <1>7, <1>8, <2>1, <2>2, RecordMoves
  <1> DEFINE ofStage == given.pipeline.stage
             ofLevel == given.level
  <1>9. ASSUME ofStage # 0, ofLevel # "info"
        PROVE  ofStage \in Stage /\ ofLevel \in Level
    BY <1>9, PipelineBoundsAreValid DEF Record, Stage, Level
  <1> HIDE DEF ofStage, ofLevel
  <1>10. ASSUME NEW w \in [start : Int, count : Nat], ofStage \in Stage, ofLevel \in Level, w.count = 0,
               seen' = [seen EXCEPT ![ofStage][ofLevel] = w], suppressed' = suppressed,
               NEW r \in Record, r.pc = "drain", r.carried = seen[ofStage][ofLevel].count,
               r.pipeline = given.pipeline, r.level = given.level,
               logCall' = [logCall EXCEPT ![caller] = r]
        PROVE  CountsInv'
    <2>1. seen' \in [Stage -> [Level -> [start : Int, count : Nat]]]
      BY <1>2, <1>10, WindowTyped
    <2>2. CountsType'
      BY <1>2, <1>7, <1>10, <2>1, RecordTyped
    <2>3. ASSUME NEW s \in Stage, NEW l \in Level
          PROVE  suppressed'[s][l] - seen'[s][l].count - Owed(r, s, l)
                   = suppressed[s][l] - seen[s][l].count - Owed(logCall[caller], s, l)
      <3>1. r # NoCall
        BY <1>10 DEF NoCall
      <3>2. CASE s = ofStage /\ l = ofLevel
        <4>1. seen'[s][l].count = 0 /\ seen[s][l].count \in Nat /\ suppressed[s][l] \in Nat
          BY <1>7, <1>10, <3>2
        <4>2. Owed(r, s, l) = seen[s][l].count
          BY <1>10, <3>1, <3>2 DEF Owed, Walks, ofStage, ofLevel
        <4>. QED BY <1>3, <1>6, <1>10, <4>1, <4>2
      <3>3. CASE ~(s = ofStage /\ l = ofLevel)
        <4>1. seen'[s][l] = seen[s][l]
          BY <1>7, <1>10, <3>3
        <4>2. Owed(r, s, l) = 0
          BY <1>10, <3>3 DEF Owed, Walks, ofStage, ofLevel
        <4>. QED BY <1>3, <1>6, <1>10, <4>1, <4>2
      <3>. QED BY <3>2, <3>3
    <2>4. DropsCounted(caller, r)
      BY <2>3 DEF DropsCounted
    <2>. QED BY <1>7, <1>10, <2>2, <2>4, RecordMoves
  <1>11. CASE /\ ofStage \in Stage /\ ofLevel \in Level
              /\ seen' = [seen EXCEPT ![ofStage][ofLevel].count = @ + 1]
              /\ suppressed' = [suppressed EXCEPT ![ofStage][ofLevel] = @ + 1]
              /\ logCall' = [logCall EXCEPT ![caller] = NoCall]
    <2>1. PICK w : w = [seen[ofStage][ofLevel] EXCEPT !.count = @ + 1]
      OBVIOUS
    <2>2. /\ w \in [start : Int, count : Nat] /\ w.count = seen[ofStage][ofLevel].count + 1
          /\ seen[ofStage][ofLevel].count \in Nat /\ suppressed[ofStage][ofLevel] \in Nat
      <3>1. seen[ofStage][ofLevel] \in [start : Int, count : Nat] /\ suppressed[ofStage][ofLevel] \in Nat
        BY <1>7, <1>11
      <3>. QED BY <2>1, <3>1
    <2>3. seen' = [seen EXCEPT ![ofStage][ofLevel] = w]
      BY <1>11, <2>1
    <2>4. seen' \in [Stage -> [Level -> [start : Int, count : Nat]]]
      BY <1>2, <1>11, <2>2, <2>3, WindowTyped
    <2>5. suppressed' \in [Stage -> [Level -> Nat]]
      BY <1>7, <1>11, <2>2
    <2>6. CountsType'
      <3>1. NoCall.pc # "suppress"
        BY DEF NoCall
      <3>. QED BY <1>2, <1>7, <1>11, <2>4, <2>5, <3>1, RecordTyped
    <2>7. ASSUME NEW s \in Stage, NEW l \in Level
          PROVE  suppressed'[s][l] - seen'[s][l].count - Owed(NoCall, s, l)
                   = suppressed[s][l] - seen[s][l].count - Owed(logCall[caller], s, l)
      <3>1. Owed(NoCall, s, l) = 0 /\ Owed(logCall[caller], s, l) = 0
        BY <1>3, <1>6 DEF Owed, Walks
      <3>2. CASE s = ofStage /\ l = ofLevel
        <4>1. /\ seen'[s][l].count = seen[s][l].count + 1 /\ seen[s][l].count \in Nat
              /\ suppressed'[s][l] = suppressed[s][l] + 1 /\ suppressed[s][l] \in Nat
          BY <1>7, <1>11, <2>2, <2>3, <3>2
        <4>. QED BY <3>1, <4>1
      <3>3. CASE ~(s = ofStage /\ l = ofLevel)
        <4>1. seen'[s][l] = seen[s][l] /\ suppressed'[s][l] = suppressed[s][l]
          BY <1>7, <1>11, <3>3
        <4>. QED BY <3>1, <4>1
      <3>. QED BY <3>2, <3>3
    <2>8. DropsCounted(caller, NoCall)
      BY <2>7 DEF DropsCounted
    <2>. QED BY <1>7, <1>11, <2>6, <2>8, RecordMoves
  <1>12. CASE ofStage = 0 \/ ofLevel = "info"
    <2>1. logCall' = [logCall EXCEPT ![caller] = drained] /\ seen' = seen /\ suppressed' = suppressed
      BY <1>3, <1>4, <1>12 DEF Suppress, ofStage, ofLevel
    <2>. QED BY <1>8, <2>1
  <1>13. CASE ofStage # 0 /\ ofLevel # "info"
    <2>1. ofStage \in Stage /\ ofLevel \in Level
      BY <1>9, <1>13
    <2>2. /\ seen[ofStage][ofLevel] \in [start : Int, count : Nat]
          /\ [start |-> moment, count |-> 0] \in [start : Int, count : Nat]
      BY <1>2, <1>7, <2>1 DEF CountsType
    <2>3. CASE seen[ofStage][ofLevel] = Unseen
      <3>1. /\ seen' = [seen EXCEPT ![ofStage][ofLevel] = [start |-> moment, count |-> 0]]
            /\ logCall' = [logCall EXCEPT ![caller] = drained] /\ suppressed' = suppressed
        BY <1>3, <1>4, <1>13, <2>3 DEF Suppress, ofStage, ofLevel
      <3>2. seen[ofStage][ofLevel].count = 0
        BY <2>3 DEF Unseen
      <3>. QED BY <1>5, <1>10, <2>1, <2>2, <3>1, <3>2
    <2>4. CASE seen[ofStage][ofLevel] # Unseen /\ WindowOpen(seen[ofStage][ofLevel])
      <3>1. /\ seen' = [seen EXCEPT ![ofStage][ofLevel].count = @ + 1]
            /\ suppressed' = [suppressed EXCEPT ![ofStage][ofLevel] = @ + 1]
            /\ logCall' = [logCall EXCEPT ![caller] = NoCall]
        BY <1>3, <1>13, <2>4 DEF Suppress, ofStage, ofLevel
      <3>. QED BY <1>11, <2>1, <3>1
    <2>5. CASE seen[ofStage][ofLevel] # Unseen /\ ~WindowOpen(seen[ofStage][ofLevel])
      <3>1. PICK r : r = [drained EXCEPT !.carried = seen[ofStage][ofLevel].count]
        OBVIOUS
      <3>2. /\ r \in Record /\ r.pc = "drain" /\ r.carried = seen[ofStage][ofLevel].count
            /\ r.pipeline = given.pipeline /\ r.level = given.level
        BY <1>5, <2>2, <3>1 DEF Record
      <3>3. /\ seen' = [seen EXCEPT ![ofStage][ofLevel] = [start |-> moment, count |-> 0]]
            /\ suppressed' = suppressed
            /\ logCall' = [logCall EXCEPT ![caller].pc = "drain", ![caller].carried = seen[ofStage][ofLevel].count]
        BY <1>3, <1>13, <2>5 DEF Suppress, ofStage, ofLevel
      <3>4. logCall' = [logCall EXCEPT ![caller] = r]
        BY <1>2, <1>3, <1>4, <3>1, <3>3 DEF CountsType
      <3>. QED BY <1>10, <2>1, <2>2, <3>2, <3>3, <3>4
    <2>. QED BY <2>3, <2>4, <2>5
  <1>. QED BY <1>12, <1>13

LEMMA SinkCounts ==
  ASSUME CountsInv, NEW caller \in LogCaller, Sink(caller)
  PROVE  CountsInv'
  <1>1. /\ logCall[caller].pc = "sink" /\ logCall' = [logCall EXCEPT ![caller] = NoCall]
        /\ UNCHANGED <<moment, pipelines, seen, suppressed>>
    BY DEF Sink
  <1>2. CountsType /\ logCall[caller] \in Record /\ lines \in Seq(Line)
    BY <1>1 DEF CountsInv, CountsType, NoCall
  <1>3. PICK x : x = [level |-> logCall[caller].level, stage |-> logCall[caller].pipeline.stage,
                      suppressed |-> logCall[caller].carried]
    OBVIOUS
  <1>4. x \in Line
    BY <1>2, <1>3 DEF Line, Record
  <1>5. lines' = Append(lines, x)
    BY <1>3 DEF Sink
  <1>6. CountsType'
    <2>1. lines' \in Seq(Line)
      BY <1>2, <1>4, <1>5, AppendProperties
    <2>2. NoCall.pc # "suppress"
      BY DEF NoCall
    <2>. QED BY <1>1, <1>2, <2>1, <2>2 DEF CountsType
  <1>7. ASSUME NEW s \in Stage, NEW l \in Level
        PROVE  suppressed'[s][l] = Emitted(s, l)' + Carried(s, l)' + seen'[s][l].count
    <2>1. PICK moved \in [LogCaller -> {NoCall} \cup Record] : moved = logCall'
      BY <1>6 DEF CountsType
    <2>2. /\ logCall \in [LogCaller -> {NoCall} \cup Record]
          /\ moved[caller] = NoCall /\ \A c \in LogCaller \ {caller} : moved[c] = logCall[c]
      BY <1>1, <1>2, <2>1 DEF CountsType
    <2>3. /\ CarriedBy(logCall, s, l) \in Nat /\ CarriedBy(moved, s, l) \in Nat
          /\ CarriedBy(moved, s, l) + Owed(logCall[caller], s, l)
               = CarriedBy(logCall, s, l) + Owed(moved[caller], s, l)
      BY <2>2, CarriedMoves
    <2>4. /\ EmittedBy(lines, s, l) \in Nat
          /\ EmittedBy(Append(lines, x), s, l)
               = EmittedBy(lines, s, l) + (IF Tells(x, s, l) THEN x.suppressed ELSE 0)
      BY <1>2, <1>4, EmittedGrows
    <2>5. Owed(moved[caller], s, l) = 0
      BY <2>2 DEF Owed, Walks
    <2>6. Owed(logCall[caller], s, l) = (IF Tells(x, s, l) THEN x.suppressed ELSE 0)
      <3>1. logCall[caller] # NoCall
        BY <1>1 DEF NoCall
      <3>. QED BY <1>3, <3>1 DEF Owed, Walks, Tells
    <2>7. Owed(logCall[caller], s, l) \in Nat
      BY <1>2 DEF Owed, Record
    <2>8. suppressed[s][l] = EmittedBy(lines, s, l) + CarriedBy(logCall, s, l) + seen[s][l].count
      BY DEF CountsInv, Emitted, Carried, EmittedBy, CarriedBy
    <2>9. seen[s][l].count \in Nat
      BY <1>2 DEF CountsType
    <2>10. suppressed[s][l] = EmittedBy(Append(lines, x), s, l) + CarriedBy(moved, s, l) + seen[s][l].count
      BY <2>3, <2>4, <2>5, <2>6, <2>7, <2>8, <2>9
    <2>11. Emitted(s, l)' = EmittedBy(lines', s, l) /\ Carried(s, l)' = CarriedBy(logCall', s, l)
      BY DEF Emitted, Carried, EmittedBy, CarriedBy, MapThenSumSet, MapThenFoldSet
    <2>12. /\ EmittedBy(lines', s, l) = EmittedBy(Append(lines, x), s, l)
           /\ CarriedBy(logCall', s, l) = CarriedBy(moved, s, l)
      BY <1>5, <2>1
    <2>. QED BY <1>1, <2>10, <2>11, <2>12
  <1>. QED BY <1>6, <1>7 DEF CountsInv

\* Every step of the pipeline keeps the counts.
LEMMA CountsStep == CountsInv /\ LogPipelineNext => CountsInv'
  <1> SUFFICES ASSUME CountsInv, LogPipelineNext PROVE CountsInv'
    OBVIOUS
  <1>1. CASE PassMoment
    <2>1. CountsType'
      BY <1>1 DEF PassMoment, CountsInv, CountsType
    <2>2. UNCHANGED <<seen, logCall, lines, suppressed>>
      BY <1>1 DEF PassMoment
    <2>. QED BY <2>1, <2>2, CountsRest
  <1>2. CASE Compose
    <2>1. PICK cfg \in Config, existing \in {Plain} \cup {pipelines[i] : i \in DOMAIN pipelines} :
            pipelines' = Append(pipelines, Merged(existing, cfg, Len(pipelines) + 1))
      BY <1>2 DEF Compose
    <2>2. /\ Len(pipelines) < MaxPipelines
          /\ UNCHANGED <<moment, seen, logCall, lines, suppressed>>
      BY <1>2 DEF Compose
    <2> DEFINE Kind == [buffer : BOOLEAN, stage : 0 .. MaxPipelines]
    <2>3. pipelines \in Seq(Kind) /\ Len(pipelines) \in Nat
      BY LenProperties DEF CountsInv, CountsType
    <2>4. existing \in Kind
      <3>1. Plain \in Kind
        BY PipelineBoundsAreValid DEF Plain
      <3>2. \A i \in DOMAIN pipelines : pipelines[i] \in Kind
        BY <2>3, ElementOfSeq, LenProperties
      <3>. QED BY <3>1, <3>2
    <2>5. Len(pipelines) + 1 \in 0 .. MaxPipelines
      BY <2>2, <2>3, PipelineBoundsAreValid
    <2>6. Merged(existing, cfg, Len(pipelines) + 1) \in Kind
      <3>1. 0 \in 0 .. MaxPipelines
        BY PipelineBoundsAreValid
      <3>2. existing.buffer \in BOOLEAN /\ existing.stage \in 0 .. MaxPipelines /\ cfg.buffer \in BOOLEAN
        BY <2>4 DEF Config
      <3>. QED BY <2>5, <3>1, <3>2 DEF Merged
    <2>7. pipelines' \in Seq(Kind)
      BY <2>1, <2>3, <2>6, AppendProperties
    <2>8. CountsType'
      BY <2>2, <2>7 DEF CountsInv, CountsType
    <2>. QED BY <2>2, <2>8, CountsRest
  <1>3. ASSUME NEW c \in LogCaller, Log(c) \/ Suppress(c) \/ Drain(c) \/ Sink(c) PROVE CountsInv'
    BY <1>3, LogCounts, SuppressCounts, DrainCounts, SinkCounts
  <1>. QED BY <1>1, <1>2, <1>3 DEF LogPipelineNext

\* However the goroutines of an operation and the pipelines that share a window
\* interleave: a dropped repeat is counted by the window, by one record on its way
\* or by one line (admit), and a ring that wrapped shows with the operation's error
\* its newest records in their order and the number it overwrote (drain).
THEOREM NothingUnsaid == ServicesSpec => [](part = "log" => NothingLostUnsaid)
  <1> DEFINE I == part = "log" => RingInv /\ CountsInv
  <1>1. ServicesInit => I
    BY RingStart, CountsStart DEF ServicesInit
  <1>2. I /\ [ServicesNext]_servicesVars => I'
    <2> SUFFICES ASSUME I, [ServicesNext]_servicesVars, part' = "log" PROVE RingInv' /\ CountsInv'
      OBVIOUS
    <2>1. part = "log"
      BY DEF ServicesNext, servicesVars
    <2>2. LogPipelineNext \/ UNCHANGED pipelineVars
      BY <2>1 DEF ServicesNext, servicesVars
    <2>3. CASE UNCHANGED pipelineVars
      <3>1. RingInv'
        BY <2>1, <2>3 DEF RingInv, pipelineVars
      <3>2. CountsType'
        BY <2>1, <2>3 DEF CountsInv, CountsType, pipelineVars
      <3>3. UNCHANGED <<seen, logCall, lines, suppressed>>
        BY <2>3 DEF pipelineVars
      <3>. QED BY <2>1, <3>1, <3>2, <3>3, CountsRest
    <2>. QED BY <2>1, <2>2, <2>3, RingStep, CountsStep
  <1>3. I => (part = "log" => NothingLostUnsaid)
    BY RenderedIsNewest DEF RingInv, CountsInv, NothingLostUnsaid
  <1>. QED BY <1>1, <1>2, <1>3, PTL DEF ServicesSpec

\* What watches the library tells the truth: passes, sessions and logs.
THEOREM TelemetryRight == ServicesSpec => []TelemetrySound
  <1>1. (part = "pass" => CompletedPassIsWhole)
        /\ (part = "session" => EventsAccountedFor /\ SeriesIsOwn /\ OutstandingIsReal)
        /\ (part = "log" => NothingLostUnsaid) => TelemetrySound
    BY DEF TelemetrySound
  <1>. QED BY <1>1, PassesComplete, SessionCounted, NothingUnsaid, PTL

-----------------------------------------------------------------------------
(* Cron: the calendar. *)

\* What the assumption on the calendar gives the provers.
LEMMA CalendarIs ==
  /\ Months \in Nat \ {0} /\ DOMAIN DaysInMonth = 1 .. Months
  /\ HoursPerDay \in Nat \ {0} /\ MinutesPerHour \in Nat \ {0} /\ SecondsPerMinute \in Nat \ {0}
  /\ DaysPerWeek \in Nat \ {0}
  /\ \A y \in Nat, m \in 1 .. Months : DaysIn(y, m) \in Nat \ {0} /\ DaysIn(y, m) <= DaysIn(0, m)
  <1>1. DOMAIN DaysInMonth = 1 .. Len(DaysInMonth) /\ Len(DaysInMonth) \in Nat
    BY CronCalendar
  <1>2. Months = Len(DaysInMonth)
    <2>1. Cardinality(1 .. Len(DaysInMonth)) = Len(DaysInMonth)
      <3>1. 1 \in Int /\ Len(DaysInMonth) \in Int /\ (1 > Len(DaysInMonth) => Len(DaysInMonth) = 0)
        BY <1>1
      <3>2. Cardinality(1 .. Len(DaysInMonth)) =
              IF 1 > Len(DaysInMonth) THEN 0 ELSE Len(DaysInMonth) - 1 + 1
        BY <3>1, FS_Interval
      <3>. QED BY <3>1, <3>2
    <2>2. Months = Cardinality(1 .. Len(DaysInMonth))
      BY <1>1 DEF Months
    <2>. QED BY <2>1, <2>2
  <1>3. Months # 0
    <2>1. LeapMonth \in 1 .. Months
      BY <1>1, <1>2, CronCalendar
    <2>. QED BY <1>1, <1>2, <2>1
  <1>4. ASSUME NEW y \in Nat, NEW m \in 1 .. Months
        PROVE  DaysIn(y, m) \in Nat \ {0} /\ DaysIn(y, m) <= DaysIn(0, m)
    <2>1. DaysInMonth[m] \in Nat \ {0}
      BY <1>1, <1>2, CronCalendar
    <2>2. 0 % LeapEvery = 0
      BY CronCalendar
    <2>. QED BY <2>1, <2>2 DEF DaysIn
  <1>. QED BY <1>1, <1>2, <1>3, <1>4, CronCalendar

(* The order of times, unit by unit. *)
SameMonth(t, u) == t.y = u.y /\ t.mo = u.mo
SameDay(t, u) == SameMonth(t, u) /\ t.d = u.d
SameHour(t, u) == SameDay(t, u) /\ t.h = u.h
SameMinute(t, u) == SameHour(t, u) /\ t.mi = u.mi

MonthBefore(t, u) == t.y < u.y \/ (t.y = u.y /\ t.mo < u.mo)
DayBefore(t, u) == MonthBefore(t, u) \/ (SameMonth(t, u) /\ t.d < u.d)
HourBefore(t, u) == DayBefore(t, u) \/ (SameDay(t, u) /\ t.h < u.h)
MinuteBefore(t, u) == HourBefore(t, u) \/ (SameHour(t, u) /\ t.mi < u.mi)
Earlier(t, u) == MinuteBefore(t, u) \/ (SameMinute(t, u) /\ t.s < u.s)

FromDay(t) == t.h = 0 /\ t.mi = 0 /\ t.s = 0
FromHour(t) == t.mi = 0 /\ t.s = 0

\* What the provers need of a time.
LEMMA TimeIs ==
  ASSUME NEW t, IsTime(t)
  PROVE  /\ t = [y |-> t.y, mo |-> t.mo, d |-> t.d, h |-> t.h, mi |-> t.mi, s |-> t.s]
         /\ t.y \in Nat /\ t.mo \in 1 .. Months /\ t.d \in Nat \ {0} /\ t.d <= DaysIn(t.y, t.mo)
         /\ DaysIn(t.y, t.mo) \in Nat
         /\ t.h \in 0 .. HoursPerDay - 1 /\ t.mi \in 0 .. MinutesPerHour - 1
         /\ t.s \in 0 .. SecondsPerMinute - 1
  BY CalendarIs DEF IsTime

\* What makes a time.
LEMMA TimeOf ==
  ASSUME NEW y \in Nat, NEW mo \in 1 .. Months, NEW d \in Nat \ {0}, d <= DaysIn(y, mo),
         NEW h \in 0 .. HoursPerDay - 1, NEW mi \in 0 .. MinutesPerHour - 1,
         NEW s \in 0 .. SecondsPerMinute - 1
  PROVE  IsTime([y |-> y, mo |-> mo, d |-> d, h |-> h, mi |-> mi, s |-> s])
  BY DEF IsTime

\* The month after: no month lies between.
LEMMA NextMonthIs ==
  ASSUME NEW t, IsTime(t), NEW v, v = NextMonth(t)
  PROVE  /\ v = [y |-> v.y, mo |-> v.mo, d |-> t.d, h |-> t.h, mi |-> t.mi, s |-> t.s]
         /\ v.y \in Nat /\ v.mo \in 1 .. Months
         /\ MonthBefore(t, v)
         /\ v.mo # 1 => v.y = t.y
         /\ \A u : IsTime(u) /\ MonthBefore(t, u) => ~MonthBefore(u, v)
  <1>1. Months \in Nat \ {0}
    BY CalendarIs
  <1>2. t.y \in Nat /\ t.mo \in 1 .. Months
        /\ t = [y |-> t.y, mo |-> t.mo, d |-> t.d, h |-> t.h, mi |-> t.mi, s |-> t.s]
    BY TimeIs
  <1>3. \A u : IsTime(u) => u.y \in Nat /\ u.mo \in 1 .. Months
    BY TimeIs
  <1>4. CASE t.mo = Months
    <2>1. v = [y |-> t.y + 1, mo |-> 1, d |-> t.d, h |-> t.h, mi |-> t.mi, s |-> t.s]
      BY <1>2, <1>4 DEF NextMonth
    <2>. QED BY <1>1, <1>2, <1>3, <1>4, <2>1 DEF MonthBefore
  <1>5. CASE t.mo # Months
    <2>1. v = [y |-> t.y, mo |-> t.mo + 1, d |-> t.d, h |-> t.h, mi |-> t.mi, s |-> t.s]
      BY <1>2, <1>5 DEF NextMonth
    <2>. QED BY <1>1, <1>2, <1>3, <1>5, <2>1 DEF MonthBefore
  <1>. QED BY <1>4, <1>5

\* AddDate(0, 1, 0) on the first of a month.
LEMMA AddMonthIs ==
  ASSUME NEW t, IsTime(t), t.d = 1, NEW v, v = AddMonth(t)
  PROVE  /\ IsTime(v) /\ v.d = 1 /\ v.h = t.h /\ v.mi = t.mi /\ v.s = t.s
         /\ MonthBefore(t, v)
         /\ v.mo # 1 => v.y = t.y
         /\ \A u : IsTime(u) /\ MonthBefore(t, u) => ~MonthBefore(u, v)
  <1> DEFINE w == NextMonth(t)
  <1>1. /\ w = [y |-> w.y, mo |-> w.mo, d |-> t.d, h |-> t.h, mi |-> t.mi, s |-> t.s]
        /\ w.y \in Nat /\ w.mo \in 1 .. Months
        /\ MonthBefore(t, w)
        /\ w.mo # 1 => w.y = t.y
        /\ \A u : IsTime(u) /\ MonthBefore(t, u) => ~MonthBefore(u, w)
    BY NextMonthIs
  <1> HIDE DEF w
  <1>2. DaysIn(w.y, w.mo) \in Nat \ {0} /\ w.d = 1
    BY <1>1, CalendarIs
  <1>3. v = w
    BY <1>2 DEF AddMonth, w
  <1>4. IsTime(w)
    <2>1. t.h \in 0 .. HoursPerDay - 1 /\ t.mi \in 0 .. MinutesPerHour - 1 /\ t.s \in 0 .. SecondsPerMinute - 1
      BY TimeIs
    <2>2. 1 <= DaysIn(w.y, w.mo)
      BY <1>2
    <2>3. IsTime([y |-> w.y, mo |-> w.mo, d |-> 1, h |-> t.h, mi |-> t.mi, s |-> t.s])
      BY <1>1, <2>1, <2>2, TimeOf
    <2>. QED BY <1>1, <2>3
  <1>. QED BY <1>1, <1>3, <1>4

\* The day after.
LEMMA AddDayIs ==
  ASSUME NEW t, IsTime(t), NEW v, v = AddDay(t)
  PROVE  /\ IsTime(v) /\ v.h = t.h /\ v.mi = t.mi /\ v.s = t.s
         /\ DayBefore(t, v)
         /\ v.d # 1 => SameMonth(v, t)
         /\ \A u : IsTime(u) /\ DayBefore(t, u) => ~DayBefore(u, v)
  <1>1. /\ t = [y |-> t.y, mo |-> t.mo, d |-> t.d, h |-> t.h, mi |-> t.mi, s |-> t.s]
        /\ t.y \in Nat /\ t.mo \in 1 .. Months /\ t.d \in Nat \ {0} /\ t.d <= DaysIn(t.y, t.mo)
        /\ DaysIn(t.y, t.mo) \in Nat
        /\ t.h \in 0 .. HoursPerDay - 1 /\ t.mi \in 0 .. MinutesPerHour - 1
        /\ t.s \in 0 .. SecondsPerMinute - 1
    BY TimeIs
  <1>2. \A u : IsTime(u) => /\ u.y \in Nat /\ u.mo \in 1 .. Months /\ u.d \in Nat \ {0}
                            /\ u.d <= DaysIn(u.y, u.mo)
    BY TimeIs
  <1>3. CASE t.d < DaysIn(t.y, t.mo)
    <2>1. v = [y |-> t.y, mo |-> t.mo, d |-> t.d + 1, h |-> t.h, mi |-> t.mi, s |-> t.s]
      BY <1>1, <1>3 DEF AddDay
    <2>2. t.d + 1 \in Nat \ {0} /\ t.d + 1 <= DaysIn(t.y, t.mo)
      BY <1>1, <1>3
    <2>3. IsTime(v)
      BY <1>1, <2>1, <2>2, TimeOf
    <2>4. DayBefore(t, v) /\ SameMonth(v, t)
      BY <1>1, <2>1 DEF DayBefore, SameMonth
    <2>5. ASSUME NEW u, IsTime(u), DayBefore(t, u) PROVE ~DayBefore(u, v)
      BY <1>1, <1>2, <2>1, <2>5 DEF DayBefore, SameMonth, MonthBefore
    <2>. QED BY <2>1, <2>3, <2>4, <2>5
  <1>4. CASE ~(t.d < DaysIn(t.y, t.mo))
    <2> DEFINE w == NextMonth(t)
    <2>1. /\ w = [y |-> w.y, mo |-> w.mo, d |-> t.d, h |-> t.h, mi |-> t.mi, s |-> t.s]
          /\ w.y \in Nat /\ w.mo \in 1 .. Months
          /\ MonthBefore(t, w)
          /\ \A u : IsTime(u) /\ MonthBefore(t, u) => ~MonthBefore(u, w)
      BY NextMonthIs
    <2>2. v = [w EXCEPT !.d = 1]
      BY <1>4 DEF AddDay
    <2> HIDE DEF w
    <2>3. v = [y |-> w.y, mo |-> w.mo, d |-> 1, h |-> t.h, mi |-> t.mi, s |-> t.s]
      BY <2>1, <2>2
    <2>4. 1 <= DaysIn(w.y, w.mo)
      BY <2>1, CalendarIs
    <2>5. IsTime(v)
      BY <1>1, <2>1, <2>3, <2>4, TimeOf
    <2>6. DayBefore(t, v)
      BY <2>1, <2>3 DEF DayBefore, MonthBefore
    <2>7. ASSUME NEW u, IsTime(u), DayBefore(t, u) PROVE ~DayBefore(u, v)
      <3>1. MonthBefore(t, u)
        <4>1. SUFFICES ASSUME SameMonth(t, u), t.d < u.d PROVE FALSE
          BY <2>7 DEF DayBefore
        <4>2. u.d <= DaysIn(t.y, t.mo)
          BY <1>2, <2>7, <4>1 DEF SameMonth
        <4>. QED BY <1>1, <1>2, <1>4, <2>7, <4>1, <4>2
      <3>2. ~MonthBefore(u, w)
        BY <2>1, <2>7, <3>1
      <3>. QED BY <1>2, <2>1, <2>3, <2>7, <3>2 DEF DayBefore, MonthBefore, SameMonth
    <2>. QED BY <2>3, <2>5, <2>6, <2>7
  <1>. QED BY <1>3, <1>4

\* The hour after.
LEMMA AddHourIs ==
  ASSUME NEW t, IsTime(t), NEW v, v = AddHour(t)
  PROVE  /\ IsTime(v) /\ v.mi = t.mi /\ v.s = t.s
         /\ HourBefore(t, v)
         /\ (v.h # 0 => SameDay(v, t)) /\ (v.d # 1 => SameMonth(v, t))
         /\ \A u : IsTime(u) /\ HourBefore(t, u) => ~HourBefore(u, v)
  <1>0. HoursPerDay \in Nat \ {0}
    BY CalendarIs
  <1>1. /\ t = [y |-> t.y, mo |-> t.mo, d |-> t.d, h |-> t.h, mi |-> t.mi, s |-> t.s]
        /\ t.y \in Nat /\ t.mo \in 1 .. Months /\ t.d \in Nat \ {0} /\ t.d <= DaysIn(t.y, t.mo)
        /\ t.h \in 0 .. HoursPerDay - 1 /\ t.mi \in 0 .. MinutesPerHour - 1
        /\ t.s \in 0 .. SecondsPerMinute - 1
    BY TimeIs
  <1>2. \A u : IsTime(u) => u.y \in Nat /\ u.mo \in Nat /\ u.d \in Nat /\ u.h \in 0 .. HoursPerDay - 1
    BY TimeIs
  <1>3. CASE t.h + 1 < HoursPerDay
    <2>1. v = [y |-> t.y, mo |-> t.mo, d |-> t.d, h |-> t.h + 1, mi |-> t.mi, s |-> t.s]
      BY <1>1, <1>3 DEF AddHour
    <2>2. t.h + 1 \in 0 .. HoursPerDay - 1
      BY <1>0, <1>1, <1>3
    <2>3. IsTime(v)
      BY <1>1, <2>1, <2>2, TimeOf
    <2>4. HourBefore(t, v) /\ SameDay(v, t)
      BY <1>1, <2>1 DEF HourBefore, SameDay, SameMonth
    <2>5. ASSUME NEW u, IsTime(u), HourBefore(t, u) PROVE ~HourBefore(u, v)
      BY <1>1, <1>2, <2>1, <2>5 DEF HourBefore, DayBefore, SameDay, SameMonth, MonthBefore
    <2>. QED BY <2>1, <2>3, <2>4, <2>5 DEF SameDay
  <1>4. CASE ~(t.h + 1 < HoursPerDay)
    <2> DEFINE w == AddDay(t)
    <2>1. /\ IsTime(w) /\ w.h = t.h /\ w.mi = t.mi /\ w.s = t.s
          /\ DayBefore(t, w)
          /\ w.d # 1 => SameMonth(w, t)
          /\ \A u : IsTime(u) /\ DayBefore(t, u) => ~DayBefore(u, w)
      BY AddDayIs
    <2>2. v = [w EXCEPT !.h = 0]
      BY <1>4 DEF AddHour
    <2> HIDE DEF w
    <2>3. /\ w = [y |-> w.y, mo |-> w.mo, d |-> w.d, h |-> w.h, mi |-> w.mi, s |-> w.s]
          /\ w.y \in Nat /\ w.mo \in 1 .. Months /\ w.d \in Nat \ {0} /\ w.d <= DaysIn(w.y, w.mo)
      BY <2>1, TimeIs
    <2>4. v = [y |-> w.y, mo |-> w.mo, d |-> w.d, h |-> 0, mi |-> t.mi, s |-> t.s]
      BY <2>1, <2>2, <2>3
    <2>5. 0 \in 0 .. HoursPerDay - 1
      BY <1>0
    <2>6. IsTime(v)
      BY <1>1, <2>3, <2>4, <2>5, TimeOf
    <2>7. HourBefore(t, v)
      BY <2>1, <2>4 DEF HourBefore, DayBefore, MonthBefore, SameMonth
    <2>8. ASSUME NEW u, IsTime(u), HourBefore(t, u) PROVE ~HourBefore(u, v)
      <3>1. DayBefore(t, u)
        BY <1>0, <1>1, <1>2, <1>4, <2>8 DEF HourBefore
      <3>2. ~DayBefore(u, w)
        BY <2>1, <2>8, <3>1
      <3>3. ~DayBefore(u, v) /\ ~(u.h < v.h)
        BY <1>2, <2>4, <2>8, <3>2 DEF DayBefore, MonthBefore, SameMonth
      <3>. QED BY <3>3 DEF HourBefore
    <2>. QED BY <2>1, <2>4, <2>6, <2>7, <2>8 DEF SameMonth
  <1>. QED BY <1>3, <1>4

\* The minute after.
LEMMA AddMinuteIs ==
  ASSUME NEW t, IsTime(t), NEW v, v = AddMinute(t)
  PROVE  /\ IsTime(v) /\ v.s = t.s
         /\ MinuteBefore(t, v)
         /\ v.mi # 0 => SameHour(v, t)
         /\ (v.h # 0 => SameDay(v, t)) /\ (v.d # 1 => SameMonth(v, t))
         /\ \A u : IsTime(u) /\ MinuteBefore(t, u) => ~MinuteBefore(u, v)
  <1>0. MinutesPerHour \in Nat \ {0}
    BY CalendarIs
  <1>1. /\ t = [y |-> t.y, mo |-> t.mo, d |-> t.d, h |-> t.h, mi |-> t.mi, s |-> t.s]
        /\ t.y \in Nat /\ t.mo \in 1 .. Months /\ t.d \in Nat \ {0} /\ t.d <= DaysIn(t.y, t.mo)
        /\ t.h \in 0 .. HoursPerDay - 1 /\ t.mi \in 0 .. MinutesPerHour - 1
        /\ t.s \in 0 .. SecondsPerMinute - 1
    BY TimeIs
  <1>2. \A u : IsTime(u) => /\ u.y \in Nat /\ u.mo \in Nat /\ u.d \in Nat /\ u.h \in Nat
                            /\ u.mi \in 0 .. MinutesPerHour - 1
    BY TimeIs
  <1>3. CASE t.mi + 1 < MinutesPerHour
    <2>1. v = [y |-> t.y, mo |-> t.mo, d |-> t.d, h |-> t.h, mi |-> t.mi + 1, s |-> t.s]
      BY <1>1, <1>3 DEF AddMinute
    <2>2. t.mi + 1 \in 0 .. MinutesPerHour - 1
      BY <1>0, <1>1, <1>3
    <2>3. IsTime(v)
      BY <1>1, <2>1, <2>2, TimeOf
    <2>4. MinuteBefore(t, v) /\ SameHour(v, t)
      BY <1>1, <2>1 DEF MinuteBefore, SameHour, SameDay, SameMonth
    <2>5. ASSUME NEW u, IsTime(u), MinuteBefore(t, u) PROVE ~MinuteBefore(u, v)
      BY <1>1, <1>2, <2>1, <2>5
      DEF MinuteBefore, HourBefore, DayBefore, SameHour, SameDay, SameMonth, MonthBefore
    <2>. QED BY <2>1, <2>3, <2>4, <2>5 DEF SameHour, SameDay
  <1>4. CASE ~(t.mi + 1 < MinutesPerHour)
    <2> DEFINE w == AddHour(t)
    <2>1. /\ IsTime(w) /\ w.mi = t.mi /\ w.s = t.s
          /\ HourBefore(t, w)
          /\ (w.h # 0 => SameDay(w, t)) /\ (w.d # 1 => SameMonth(w, t))
          /\ \A u : IsTime(u) /\ HourBefore(t, u) => ~HourBefore(u, w)
      BY AddHourIs
    <2>2. v = [w EXCEPT !.mi = 0]
      BY <1>4 DEF AddMinute
    <2> HIDE DEF w
    <2>3. /\ w = [y |-> w.y, mo |-> w.mo, d |-> w.d, h |-> w.h, mi |-> w.mi, s |-> w.s]
          /\ w.y \in Nat /\ w.mo \in 1 .. Months /\ w.d \in Nat \ {0} /\ w.d <= DaysIn(w.y, w.mo)
          /\ w.h \in 0 .. HoursPerDay - 1
      BY <2>1, TimeIs
    <2>4. v = [y |-> w.y, mo |-> w.mo, d |-> w.d, h |-> w.h, mi |-> 0, s |-> t.s]
      BY <2>1, <2>2, <2>3
    <2>5. 0 \in 0 .. MinutesPerHour - 1
      BY <1>0
    <2>6. IsTime(v)
      BY <1>1, <2>3, <2>4, <2>5, TimeOf
    <2>7. MinuteBefore(t, v)
      BY <2>1, <2>4 DEF MinuteBefore, HourBefore, DayBefore, MonthBefore, SameDay, SameMonth
    <2>8. ASSUME NEW u, IsTime(u), MinuteBefore(t, u) PROVE ~MinuteBefore(u, v)
      <3>1. HourBefore(t, u)
        BY <1>0, <1>1, <1>2, <1>4, <2>8 DEF MinuteBefore
      <3>2. ~HourBefore(u, w)
        BY <2>1, <2>8, <3>1
      <3>3. ~HourBefore(u, v) /\ ~(u.mi < v.mi)
        BY <1>2, <2>4, <2>8, <3>2 DEF HourBefore, DayBefore, MonthBefore, SameDay, SameMonth
      <3>. QED BY <3>3 DEF MinuteBefore
    <2>. QED BY <2>1, <2>4, <2>6, <2>7, <2>8 DEF SameDay, SameMonth
  <1>. QED BY <1>3, <1>4

\* The second after.
LEMMA AddSecondIs ==
  ASSUME NEW t, IsTime(t), NEW v, v = AddSecond(t)
  PROVE  /\ IsTime(v)
         /\ Earlier(t, v)
         /\ (v.s # 0 => SameMinute(v, t)) /\ (v.mi # 0 => SameHour(v, t))
         /\ (v.h # 0 => SameDay(v, t)) /\ (v.d # 1 => SameMonth(v, t))
         /\ \A u : IsTime(u) /\ Earlier(t, u) => ~Earlier(u, v)
  <1>0. SecondsPerMinute \in Nat \ {0}
    BY CalendarIs
  <1>1. /\ t = [y |-> t.y, mo |-> t.mo, d |-> t.d, h |-> t.h, mi |-> t.mi, s |-> t.s]
        /\ t.y \in Nat /\ t.mo \in 1 .. Months /\ t.d \in Nat \ {0} /\ t.d <= DaysIn(t.y, t.mo)
        /\ t.h \in 0 .. HoursPerDay - 1 /\ t.mi \in 0 .. MinutesPerHour - 1
        /\ t.s \in 0 .. SecondsPerMinute - 1
    BY TimeIs
  <1>2. \A u : IsTime(u) => /\ u.y \in Nat /\ u.mo \in Nat /\ u.d \in Nat /\ u.h \in Nat /\ u.mi \in Nat
                            /\ u.s \in 0 .. SecondsPerMinute - 1
    BY TimeIs
  <1>3. CASE t.s + 1 < SecondsPerMinute
    <2>1. v = [y |-> t.y, mo |-> t.mo, d |-> t.d, h |-> t.h, mi |-> t.mi, s |-> t.s + 1]
      BY <1>1, <1>3 DEF AddSecond
    <2>2. t.s + 1 \in 0 .. SecondsPerMinute - 1
      BY <1>0, <1>1, <1>3
    <2>3. IsTime(v)
      BY <1>1, <2>1, <2>2, TimeOf
    <2>4. Earlier(t, v) /\ SameMinute(v, t)
      BY <1>1, <2>1 DEF Earlier, SameMinute, SameHour, SameDay, SameMonth
    <2>5. ASSUME NEW u, IsTime(u), Earlier(t, u) PROVE ~Earlier(u, v)
      BY <1>1, <1>2, <2>1, <2>5
      DEF Earlier, MinuteBefore, HourBefore, DayBefore, SameMinute, SameHour, SameDay, SameMonth, MonthBefore
    <2>. QED BY <2>1, <2>3, <2>4, <2>5 DEF SameMinute, SameHour, SameDay
  <1>4. CASE ~(t.s + 1 < SecondsPerMinute)
    <2> DEFINE w == AddMinute(t)
    <2>1. /\ IsTime(w) /\ w.s = t.s
          /\ MinuteBefore(t, w)
          /\ w.mi # 0 => SameHour(w, t)
          /\ (w.h # 0 => SameDay(w, t)) /\ (w.d # 1 => SameMonth(w, t))
          /\ \A u : IsTime(u) /\ MinuteBefore(t, u) => ~MinuteBefore(u, w)
      BY AddMinuteIs
    <2>2. v = [w EXCEPT !.s = 0]
      BY <1>4 DEF AddSecond
    <2> HIDE DEF w
    <2>3. /\ w = [y |-> w.y, mo |-> w.mo, d |-> w.d, h |-> w.h, mi |-> w.mi, s |-> w.s]
          /\ w.y \in Nat /\ w.mo \in 1 .. Months /\ w.d \in Nat \ {0} /\ w.d <= DaysIn(w.y, w.mo)
          /\ w.h \in 0 .. HoursPerDay - 1 /\ w.mi \in 0 .. MinutesPerHour - 1
      BY <2>1, TimeIs
    <2>4. v = [y |-> w.y, mo |-> w.mo, d |-> w.d, h |-> w.h, mi |-> w.mi, s |-> 0]
      BY <2>1, <2>2, <2>3
    <2>5. 0 \in 0 .. SecondsPerMinute - 1
      BY <1>0
    <2>6. IsTime(v)
      BY <1>1, <2>3, <2>4, <2>5, TimeOf
    <2>7. Earlier(t, v)
      BY <2>1, <2>4 DEF Earlier, MinuteBefore, HourBefore, DayBefore, MonthBefore, SameHour, SameDay, SameMonth
    <2>8. ASSUME NEW u, IsTime(u), Earlier(t, u) PROVE ~Earlier(u, v)
      <3>1. MinuteBefore(t, u)
        BY <1>0, <1>1, <1>2, <1>4, <2>8 DEF Earlier
      <3>2. ~MinuteBefore(u, w)
        BY <2>1, <2>8, <3>1
      <3>3. ~MinuteBefore(u, v) /\ ~(u.s < v.s)
        BY <1>2, <2>4, <2>8, <3>2 DEF MinuteBefore, HourBefore, DayBefore, MonthBefore, SameHour, SameDay, SameMonth
      <3>. QED BY <3>3 DEF Earlier
    <2>. QED BY <2>1, <2>4, <2>6, <2>7, <2>8 DEF SameHour, SameDay, SameMonth
  <1>. QED BY <1>3, <1>4

\* The calendar has months.
LEMMA MonthsAre == Months \in Nat \ {0} /\ Months \in 0 .. Months
  <1>1. Months \in Nat \ {0}
    BY CalendarIs
  <1>. QED BY <1>1

(* Days as sums, which the calendar takes by MapThenSumSet. *)
DaysOf(y) == [m \in 1 .. Months |-> DaysIn(y, m)]
YearsOf == [y \in Nat |-> DaysInYear(y)]
MonthSum(y, n) == Total(DaysOf(y), 1 .. n)
YearSum(y) == Total(YearsOf, 0 .. y - 1)

\* The days of a year's first months are such a sum.
LEMMA MonthSumIs ==
  ASSUME NEW y \in Nat, NEW n \in 0 .. Months
  PROVE  MapThenSumSet(LAMBDA m : DaysIn(y, m), 1 .. n) = MonthSum(y, n)
  <1> DEFINE S == 1 .. n
             g == DaysOf(y)
  <1>1. \A t \in SUBSET S : t # {} =>
          g[CHOOSE x \in t : TRUE] = DaysIn(y, CHOOSE x \in t : TRUE)
    <2> SUFFICES ASSUME NEW t \in SUBSET S, t # {} PROVE (CHOOSE x \in t : TRUE) \in 1 .. Months
      BY DEF DaysOf
    <2>1. (CHOOSE x \in t : TRUE) \in t
      OBVIOUS
    <2>2. t \subseteq 1 .. Months
      BY CalendarIs
    <2>. QED BY <2>1, <2>2
  <1> HIDE DEF S, g
  <1>2. \A h : IsSum(S, g, h) <=>
                 h = [t \in SUBSET S |-> IF t = {} THEN 0
                        ELSE DaysIn(y, CHOOSE x \in t : TRUE) + h[t \ {CHOOSE x \in t : TRUE}]]
    BY <1>1 DEF IsSum, SumStep, Chosen
  <1>3. (CHOOSE h : IsSum(S, g, h)) =
          CHOOSE h : h = [t \in SUBSET S |-> IF t = {} THEN 0
                        ELSE DaysIn(y, CHOOSE x \in t : TRUE) + h[t \ {CHOOSE x \in t : TRUE}]]
    BY <1>2, Zenon
  <1>4. MapThenSumSet(LAMBDA m : DaysIn(y, m), S) =
          (CHOOSE h : h = [t \in SUBSET S |-> IF t = {} THEN 0
                        ELSE DaysIn(y, CHOOSE x \in t : TRUE) + h[t \ {CHOOSE x \in t : TRUE}]])[S]
    BY Zenon DEF MapThenSumSet, MapThenFoldSet
  <1>. QED BY <1>3, <1>4 DEF Total, MonthSum, S, g

\* So are the days of the years before one.
LEMMA YearSumIs ==
  ASSUME NEW y \in Nat
  PROVE  MapThenSumSet(DaysInYear, 0 .. y - 1) = YearSum(y)
  <1> DEFINE S == 0 .. y - 1
             g == YearsOf
  <1>1. \A t \in SUBSET S : t # {} =>
          g[CHOOSE x \in t : TRUE] = DaysInYear(CHOOSE x \in t : TRUE)
    <2> SUFFICES ASSUME NEW t \in SUBSET S, t # {} PROVE (CHOOSE x \in t : TRUE) \in Nat
      BY DEF YearsOf
    <2>1. (CHOOSE x \in t : TRUE) \in t
      OBVIOUS
    <2>2. t \subseteq Nat
      OBVIOUS
    <2>. QED BY <2>1, <2>2
  <1> HIDE DEF S, g
  <1>2. \A h : IsSum(S, g, h) <=>
                 h = [t \in SUBSET S |-> IF t = {} THEN 0
                        ELSE DaysInYear(CHOOSE x \in t : TRUE) + h[t \ {CHOOSE x \in t : TRUE}]]
    BY <1>1 DEF IsSum, SumStep, Chosen
  <1>3. (CHOOSE h : IsSum(S, g, h)) =
          CHOOSE h : h = [t \in SUBSET S |-> IF t = {} THEN 0
                        ELSE DaysInYear(CHOOSE x \in t : TRUE) + h[t \ {CHOOSE x \in t : TRUE}]]
    BY <1>2, Zenon
  <1>4. MapThenSumSet(DaysInYear, S) =
          (CHOOSE h : h = [t \in SUBSET S |-> IF t = {} THEN 0
                        ELSE DaysInYear(CHOOSE x \in t : TRUE) + h[t \ {CHOOSE x \in t : TRUE}]])[S]
    BY Zenon DEF MapThenSumSet, MapThenFoldSet
  <1>. QED BY <1>3, <1>4 DEF Total, YearSum, S, g

\* A month more, and a year more.
LEMMA MonthSumGrows ==
  ASSUME NEW y \in Nat
  PROVE  /\ \A n \in 0 .. Months : MonthSum(y, n) \in Nat
         /\ \A n \in 1 .. Months : MonthSum(y, n) = MonthSum(y, n - 1) + DaysIn(y, n)
         /\ \A n, k \in 0 .. Months : n <= k => MonthSum(y, n) <= MonthSum(y, k)
  <1>1. \A m \in 1 .. Months : DaysOf(y)[m] = DaysIn(y, m) /\ DaysOf(y)[m] \in Nat
    BY CalendarIs DEF DaysOf
  <1>2. \A n \in 0 .. Months : n \in Nat /\ IsFiniteSet(1 .. n) /\ 1 .. n \subseteq 1 .. Months
    <2> SUFFICES ASSUME NEW n \in 0 .. Months
                 PROVE  n \in Nat /\ IsFiniteSet(1 .. n) /\ 1 .. n \subseteq 1 .. Months
      OBVIOUS
    <2>1. n \in Nat
      BY MonthsAre
    <2>2. IsFiniteSet(1 .. n)
      BY <2>1, FS_Interval
    <2>. QED BY <2>1, <2>2, MonthsAre
  <1>3. ASSUME NEW n \in 0 .. Months PROVE MonthSum(y, n) \in Nat
    <2>1. \A x \in 1 .. n : DaysOf(y)[x] \in Nat
      BY <1>1, <1>2
    <2>. QED BY <1>2, <2>1, TotalIsNatural DEF MonthSum
  <1>4. ASSUME NEW n \in 1 .. Months PROVE MonthSum(y, n) = MonthSum(y, n - 1) + DaysIn(y, n)
    <2>1. n - 1 \in 0 .. Months /\ n \in 0 .. Months /\ n \notin 1 .. n - 1 /\ 1 .. n = (1 .. n - 1) \cup {n}
      BY MonthsAre
    <2>2. \A x \in (1 .. n - 1) \cup {n} : DaysOf(y)[x] \in Nat
      BY <1>1, <1>2, <2>1
    <2>3. Total(DaysOf(y), (1 .. n - 1) \cup {n}) = Total(DaysOf(y), 1 .. n - 1) + DaysOf(y)[n]
      BY <1>2, <2>1, <2>2, TotalGrows
    <2>. QED BY <1>1, <2>1, <2>3 DEF MonthSum
  <1>5. ASSUME NEW n \in 0 .. Months, NEW k \in 0 .. Months, n <= k
        PROVE  MonthSum(y, n) <= MonthSum(y, k)
    <2>1. 1 .. n \in SUBSET (1 .. k)
      BY <1>2, <1>5
    <2>2. \A x \in 1 .. k : DaysOf(y)[x] \in Nat
      BY <1>1, <1>2
    <2>. QED BY <1>2, <2>1, <2>2, TotalOfSome DEF MonthSum
  <1>. QED BY <1>3, <1>4, <1>5

\* A year more has its months' days more.
LEMMA YearSumGrows ==
  /\ \A y \in Nat : YearSum(y) \in Nat
  /\ \A y \in Nat : YearSum(y + 1) = YearSum(y) + MonthSum(y, Months)
  /\ \A y, z \in Nat : y <= z => YearSum(y) <= YearSum(z)
  <1>1. \A y \in Nat : YearsOf[y] = MonthSum(y, Months) /\ YearsOf[y] \in Nat
    <2> SUFFICES ASSUME NEW y \in Nat PROVE YearsOf[y] = MonthSum(y, Months) /\ YearsOf[y] \in Nat
      OBVIOUS
    <2>1. Months \in 0 .. Months
      BY MonthsAre
    <2>2. DaysInYear(y) = MonthSum(y, Months)
      BY <2>1, MonthSumIs, Zenon DEF DaysInYear
    <2>. QED BY <2>1, <2>2, MonthSumGrows DEF YearsOf
  <1>2. \A y \in Nat : IsFiniteSet(0 .. y - 1) /\ 0 .. y - 1 \subseteq Nat
    BY FS_Interval
  <1>3. ASSUME NEW y \in Nat PROVE YearSum(y) \in Nat
    <2>1. \A x \in 0 .. y - 1 : YearsOf[x] \in Nat
      BY <1>1
    <2>. QED BY <1>2, <2>1, TotalIsNatural DEF YearSum
  <1>4. ASSUME NEW y \in Nat PROVE YearSum(y + 1) = YearSum(y) + MonthSum(y, Months)
    <2>1. y \notin 0 .. y - 1 /\ 0 .. (y + 1) - 1 = (0 .. y - 1) \cup {y}
      OBVIOUS
    <2>2. \A x \in (0 .. y - 1) \cup {y} : YearsOf[x] \in Nat
      BY <1>1
    <2>3. Total(YearsOf, (0 .. y - 1) \cup {y}) = Total(YearsOf, 0 .. y - 1) + YearsOf[y]
      BY <1>2, <2>1, <2>2, TotalGrows
    <2>. QED BY <1>1, <2>1, <2>3 DEF YearSum
  <1>5. ASSUME NEW y \in Nat, NEW z \in Nat, y <= z PROVE YearSum(y) <= YearSum(z)
    <2>1. 0 .. y - 1 \in SUBSET (0 .. z - 1)
      BY <1>5
    <2>2. \A x \in 0 .. z - 1 : YearsOf[x] \in Nat
      BY <1>1
    <2>. QED BY <1>2, <2>1, <2>2, TotalOfSome DEF YearSum
  <1>. QED BY <1>3, <1>4, <1>5

\* The number of a day.
LEMMA DayNumberIs ==
  ASSUME NEW t, IsTime(t)
  PROVE  /\ DayNumber(t) = YearSum(t.y) + MonthSum(t.y, t.mo - 1) + t.d
         /\ DayNumber(t) \in Nat
  <1>1. /\ t.y \in Nat /\ t.mo \in 1 .. Months /\ t.d \in Nat \ {0}
    BY TimeIs
  <1>2. t.mo - 1 \in 0 .. Months
    BY <1>1, MonthsAre
  <1>3. MapThenSumSet(LAMBDA m : DaysIn(t.y, m), 1 .. t.mo - 1) = MonthSum(t.y, t.mo - 1)
    BY <1>1, <1>2, MonthSumIs, Zenon
  <1>4. DayNumber(t) = YearSum(t.y) + MonthSum(t.y, t.mo - 1) + t.d
    BY <1>1, <1>3, YearSumIs, Zenon DEF DayNumber
  <1>5. YearSum(t.y) \in Nat /\ MonthSum(t.y, t.mo - 1) \in Nat
    BY <1>1, <1>2, YearSumGrows, MonthSumGrows
  <1>. QED BY <1>1, <1>4, <1>5

\* And so the numbers of days tell the order of days.
LEMMA DaysInOrder ==
  ASSUME NEW t, IsTime(t), NEW u, IsTime(u)
  PROVE  /\ DayBefore(t, u) => DayNumber(t) + 1 <= DayNumber(u)
         /\ SameDay(t, u) => DayNumber(t) = DayNumber(u)
  <1>1. /\ t.y \in Nat /\ t.mo \in 1 .. Months /\ t.d \in Nat \ {0} /\ t.d <= DaysIn(t.y, t.mo)
        /\ u.y \in Nat /\ u.mo \in 1 .. Months /\ u.d \in Nat \ {0} /\ DaysIn(t.y, t.mo) \in Nat
    BY TimeIs
  <1>2. /\ DayNumber(t) = YearSum(t.y) + MonthSum(t.y, t.mo - 1) + t.d
        /\ DayNumber(u) = YearSum(u.y) + MonthSum(u.y, u.mo - 1) + u.d
        /\ DayNumber(t) \in Nat /\ DayNumber(u) \in Nat
    BY DayNumberIs
  <1>3. /\ Months \in 0 .. Months /\ t.mo \in 0 .. Months /\ t.mo - 1 \in 0 .. Months /\ u.mo - 1 \in 0 .. Months
    BY <1>1, MonthsAre
  <1>4. /\ YearSum(t.y) \in Nat /\ YearSum(u.y) \in Nat /\ MonthSum(t.y, t.mo - 1) \in Nat
        /\ MonthSum(u.y, u.mo - 1) \in Nat /\ MonthSum(t.y, t.mo) \in Nat /\ MonthSum(t.y, Months) \in Nat
    BY <1>1, <1>3, YearSumGrows, MonthSumGrows
  <1>5. MonthSum(t.y, t.mo) = MonthSum(t.y, t.mo - 1) + DaysIn(t.y, t.mo)
    BY <1>1, MonthSumGrows
  <1>6. CASE t.y < u.y
    <2>1. YearSum(t.y + 1) = YearSum(t.y) + MonthSum(t.y, Months) /\ YearSum(t.y + 1) <= YearSum(u.y)
      <3>1. t.y + 1 \in Nat /\ t.y + 1 <= u.y
        BY <1>1, <1>6
      <3>. QED BY <1>1, <3>1, YearSumGrows
    <2>2. MonthSum(t.y, t.mo) <= MonthSum(t.y, Months)
      <3>1. t.mo <= Months
        BY <1>1
      <3>. QED BY <1>1, <1>3, <3>1, MonthSumGrows
    <2>. QED BY <1>1, <1>2, <1>4, <1>5, <1>6, <2>1, <2>2 DEF SameDay, SameMonth
  <1>7. CASE t.y = u.y /\ t.mo < u.mo
    <2>1. MonthSum(t.y, t.mo) <= MonthSum(t.y, u.mo - 1)
      <3>1. t.mo <= u.mo - 1
        BY <1>1, <1>7
      <3>. QED BY <1>1, <1>3, <3>1, MonthSumGrows
    <2>. QED BY <1>1, <1>2, <1>4, <1>5, <1>7, <2>1 DEF SameDay, SameMonth
  <1>8. CASE t.y = u.y /\ t.mo = u.mo
    BY <1>1, <1>2, <1>4, <1>8 DEF DayBefore, MonthBefore, SameDay, SameMonth
  <1>9. CASE ~(t.y < u.y) /\ ~(t.y = u.y /\ t.mo < u.mo) /\ ~(t.y = u.y /\ t.mo = u.mo)
    BY <1>9 DEF DayBefore, MonthBefore, SameDay, SameMonth
  <1>. QED BY <1>6, <1>7, <1>8, <1>9

\* Counting in a larger unit and then in a smaller one keeps the order.
LEMMA UnitsInOrder ==
  ASSUME NEW p \in Nat, NEW q \in Nat, NEW n \in Nat \ {0}, NEW i \in 0 .. n - 1, NEW j \in 0 .. n - 1
  PROVE  /\ p * n + i \in Nat
         /\ p + 1 <= q => p * n + i + 1 <= q * n + j
  <1>1. p * n \in Nat /\ q * n \in Nat
    OBVIOUS
  <1>2. ASSUME p + 1 <= q PROVE p * n + n <= q * n
    <2> DEFINE k == q - p - 1
    <2>1. k \in Nat /\ q = p + 1 + k
      BY <1>2
    <2> HIDE DEF k
    <2>2. q * n = p * n + n + k * n
      BY <2>1
    <2>3. k * n \in Nat
      BY <2>1
    <2>. QED BY <1>1, <2>2, <2>3
  <1>. QED BY <1>1, <1>2

\* So seconds tell the order of times.
LEMMA SecondsInOrder ==
  ASSUME NEW t, IsTime(t), NEW u, IsTime(u)
  PROVE  /\ Seconds(t) \in Nat /\ Seconds(u) \in Nat
         /\ Earlier(t, u) <=> Seconds(t) < Seconds(u)
         /\ Seconds(t) = Seconds(u) => t = u
  <1> DEFINE H(x) == DayNumber(x) * HoursPerDay + x.h
             M(x) == H(x) * MinutesPerHour + x.mi
  <1>1. ASSUME NEW x, IsTime(x), NEW z, IsTime(z)
        PROVE  /\ Seconds(x) \in Nat
               /\ Earlier(x, z) => Seconds(x) + 1 <= Seconds(z)
    <2>1. /\ x.h \in 0 .. HoursPerDay - 1 /\ x.mi \in 0 .. MinutesPerHour - 1 /\ x.s \in 0 .. SecondsPerMinute - 1
          /\ z.h \in 0 .. HoursPerDay - 1 /\ z.mi \in 0 .. MinutesPerHour - 1 /\ z.s \in 0 .. SecondsPerMinute - 1
      BY <1>1, TimeIs
    <2>2. HoursPerDay \in Nat \ {0} /\ MinutesPerHour \in Nat \ {0} /\ SecondsPerMinute \in Nat \ {0}
      BY CalendarIs
    <2>3. DayNumber(x) \in Nat /\ DayNumber(z) \in Nat
      BY <1>1, DayNumberIs
    <2>4. H(x) \in Nat /\ H(z) \in Nat /\ (HourBefore(x, z) => H(x) + 1 <= H(z)) /\ (SameHour(x, z) => H(x) = H(z))
      <3>1. H(x) \in Nat /\ H(z) \in Nat /\ (DayNumber(x) + 1 <= DayNumber(z) => H(x) + 1 <= H(z))
        BY <2>1, <2>2, <2>3, UnitsInOrder
      <3>2. (DayBefore(x, z) => DayNumber(x) + 1 <= DayNumber(z)) /\ (SameDay(x, z) => DayNumber(x) = DayNumber(z))
        BY <1>1, DaysInOrder
      <3>3. SameDay(x, z) /\ x.h < z.h => H(x) + 1 <= H(z)
        <4>1. SUFFICES ASSUME DayNumber(x) = DayNumber(z), x.h < z.h PROVE H(x) + 1 <= H(z)
          BY <3>2
        <4>2. DayNumber(x) * HoursPerDay \in Nat
          BY <2>2, <2>3
        <4>. QED BY <2>1, <2>2, <4>1, <4>2
      <3> HIDE DEF H
      <3>4. HourBefore(x, z) => H(x) + 1 <= H(z)
        BY <3>1, <3>2, <3>3 DEF HourBefore
      <3>5. SameHour(x, z) => H(x) = H(z)
        BY <3>2 DEF SameHour, H
      <3>. QED BY <3>1, <3>4, <3>5
    <2>5. M(x) \in Nat /\ M(z) \in Nat /\ (MinuteBefore(x, z) => M(x) + 1 <= M(z)) /\ (SameMinute(x, z) => M(x) = M(z))
      <3> HIDE DEF H
      <3>1. M(x) \in Nat /\ M(z) \in Nat /\ (H(x) + 1 <= H(z) => M(x) + 1 <= M(z))
        BY <2>1, <2>2, <2>4, UnitsInOrder
      <3>2. SameHour(x, z) /\ x.mi < z.mi => M(x) + 1 <= M(z)
        <4>1. SUFFICES ASSUME H(x) = H(z), x.mi < z.mi PROVE M(x) + 1 <= M(z)
          BY <2>4
        <4>2. H(x) * MinutesPerHour \in Nat
          BY <2>2, <2>4
        <4>. QED BY <2>1, <2>2, <4>1, <4>2
      <3> HIDE DEF M
      <3>3. MinuteBefore(x, z) => M(x) + 1 <= M(z)
        BY <2>4, <3>1, <3>2 DEF MinuteBefore
      <3>4. SameMinute(x, z) => M(x) = M(z)
        BY <2>4 DEF SameMinute, M
      <3>. QED BY <3>1, <3>3, <3>4
    <2> HIDE DEF H
    <2>6. Seconds(x) = M(x) * SecondsPerMinute + x.s /\ Seconds(z) = M(z) * SecondsPerMinute + z.s
      BY DEF Seconds, H
    <2> HIDE DEF M
    <2>7. Seconds(x) \in Nat /\ (M(x) + 1 <= M(z) => Seconds(x) + 1 <= Seconds(z))
      BY <2>1, <2>2, <2>5, <2>6, UnitsInOrder
    <2>8. SameMinute(x, z) /\ x.s < z.s => Seconds(x) + 1 <= Seconds(z)
      <3>1. SUFFICES ASSUME M(x) = M(z), x.s < z.s PROVE Seconds(x) + 1 <= Seconds(z)
        BY <2>5
      <3>2. M(x) * SecondsPerMinute \in Nat
        BY <2>2, <2>5
      <3>. QED BY <2>1, <2>2, <2>6, <3>1, <3>2
    <2>. QED BY <2>5, <2>7, <2>8 DEF Earlier
  <1>2. Earlier(t, u) \/ Earlier(u, t) \/ t = u
    <2>1. /\ t = [y |-> t.y, mo |-> t.mo, d |-> t.d, h |-> t.h, mi |-> t.mi, s |-> t.s]
          /\ u = [y |-> u.y, mo |-> u.mo, d |-> u.d, h |-> u.h, mi |-> u.mi, s |-> u.s]
      BY TimeIs
    <2>2. /\ t.y \in Int /\ t.mo \in Int /\ t.d \in Int /\ t.h \in Int /\ t.mi \in Int /\ t.s \in Int
          /\ u.y \in Int /\ u.mo \in Int /\ u.d \in Int /\ u.h \in Int /\ u.mi \in Int /\ u.s \in Int
      BY TimeIs
    <2>3. \/ Earlier(t, u) \/ Earlier(u, t)
          \/ t.y = u.y /\ t.mo = u.mo /\ t.d = u.d /\ t.h = u.h /\ t.mi = u.mi /\ t.s = u.s
      BY <2>2 DEF Earlier, MinuteBefore, HourBefore, DayBefore, MonthBefore,
                  SameMinute, SameHour, SameDay, SameMonth
    <2>. QED BY <2>1, <2>3
  <1>3. Seconds(t) \in Nat /\ Seconds(u) \in Nat
    BY <1>1
  <1>4. (Earlier(t, u) => Seconds(t) + 1 <= Seconds(u)) /\ (Earlier(u, t) => Seconds(u) + 1 <= Seconds(t))
    BY <1>1
  <1>5. ASSUME t = u PROVE Seconds(t) = Seconds(u)
    BY <1>5
  <1>. QED BY <1>2, <1>3, <1>4, <1>5

(* The parser: a spec's fields are numbers of their units. *)
SpecFits(spec) ==
    /\ spec.month.bits \subseteq 1 .. Months
    /\ spec.hour.bits \subseteq 0 .. HoursPerDay - 1
    /\ spec.minute.bits \subseteq 0 .. MinutesPerHour - 1

\* The numbers of a unit are an interval that begins and ends where its bounds say.
LEMMA UnitBounds ==
  ASSUME NEW f \in {"minute", "hour", "month"}
  PROVE  /\ f \in DOMAIN Bounds
         /\ Min(Bounds[f]) \in Bounds[f] /\ Max(Bounds[f]) \in Bounds[f] /\ Bounds[f] \subseteq Nat
         /\ \A i \in Nat : Min(Bounds[f]) <= i /\ i <= Max(Bounds[f]) => i \in Bounds[f]
  <1>1. PICK first \in Nat, last \in Nat : first <= last /\ Bounds[f] = first .. last
    <2>1. /\ Months \in Nat \ {0} /\ HoursPerDay \in Nat \ {0} /\ MinutesPerHour \in Nat \ {0}
      BY CalendarIs
    <2>2. CASE f = "minute"
      BY <2>1, <2>2 DEF Bounds
    <2>3. CASE f = "hour"
      BY <2>1, <2>3 DEF Bounds
    <2>4. CASE f = "month"
      BY <2>1, <2>4 DEF Bounds
    <2>. QED BY <2>2, <2>3, <2>4
  <1>2. first .. last \in SUBSET Nat /\ first .. last # {} /\ \A x \in first .. last : x <= last
    BY <1>1
  <1>3. Min(first .. last) \in first .. last /\ \A x \in first .. last : Min(first .. last) <= x
    BY <1>2, MinOfNaturals
  <1>4. Max(first .. last) \in first .. last /\ \A x \in first .. last : x <= Max(first .. last)
    BY <1>2, MaxOfNaturals
  <1>5. first \in first .. last /\ last \in first .. last
    BY <1>1
  <1>6. Min(first .. last) = first /\ Max(first .. last) = last
    BY <1>3, <1>4, <1>5
  <1>7. f \in DOMAIN Bounds
    BY DEF Bounds
  <1>. QED BY <1>1, <1>2, <1>5, <1>6, <1>7

FieldRange == [star : BOOLEAN, low : Nat, high : Nat, single : BOOLEAN, step : Nat]

\* A valid list of ranges names only numbers of its unit.
LEMMA FieldFits ==
  ASSUME NEW f \in {"minute", "hour", "month"}, NEW list \in Seq(FieldRange),
         \A i \in DOMAIN list : InBounds(list[i], f)
  PROVE  getField(list, f).bits \subseteq Bounds[f]
  <1>1. /\ Min(Bounds[f]) \in Bounds[f] /\ Max(Bounds[f]) \in Bounds[f] /\ Bounds[f] \subseteq Nat
        /\ \A i \in Nat : Min(Bounds[f]) <= i /\ i <= Max(Bounds[f]) => i \in Bounds[f]
    BY UnitBounds
  <1>2. ASSUME NEW i \in DOMAIN list PROVE getRange(list[i], f).bits \subseteq Bounds[f]
    <2> DEFINE r == list[i]
    <2>1. r \in FieldRange
      <3>1. i \in 1 .. Len(list)
        OBVIOUS
      <3>. QED BY <3>1, ElementOfSeq
    <2>2. Low(r, f) \in Nat /\ High(r, f) \in Nat
      BY <1>1, <2>1 DEF Low, High, FieldRange
    <2>3. Low(r, f) >= Min(Bounds[f]) /\ High(r, f) <= Max(Bounds[f])
      BY <1>2 DEF InBounds
    <2>4. getRange(r, f).bits \subseteq Low(r, f) .. High(r, f)
      BY DEF getRange, getBits
    <2>5. Low(r, f) .. High(r, f) \subseteq Bounds[f]
      <3>1. SUFFICES ASSUME NEW k \in Low(r, f) .. High(r, f) PROVE k \in Bounds[f]
        OBVIOUS
      <3>2. Min(Bounds[f]) \in Nat /\ Max(Bounds[f]) \in Nat
        BY <1>1
      <3>3. k \in Nat /\ Min(Bounds[f]) <= k /\ k <= Max(Bounds[f])
        BY <2>2, <2>3, <3>2
      <3>. QED BY <1>1, <3>3
    <2>. QED BY <2>4, <2>5
  <1>3. getField(list, f).bits = UNION {getRange(list[i], f).bits : i \in DOMAIN list}
    BY DEF getField
  <1>. QED BY <1>2, <1>3

\* What the parser accepts, and a descriptor, fits (parseField, parseDescriptor).
LEMMA ParsedFits ==
  ASSUME NEW spec \in Parsed(FieldLists)
  PROVE  SpecFits(spec)
  <1>1. \A f \in {"minute", "hour", "month"} : spec[f].bits \subseteq Bounds[f]
    <2>1. CASE spec \in {Parse(fields) : fields \in {list \in FieldLists : Valid(list)}}
      <3>1. PICK fields \in FieldLists : Valid(fields) /\ spec = Parse(fields)
        BY <2>1
      <3>2. fields \in [{"minute", "hour", "dom", "month", "dow"} -> Seq(FieldRange)]
        BY CronInputs DEF FieldRange
      <3>3. TAKE f \in {"minute", "hour", "month"}
      <3>4. f \in DOMAIN fields /\ fields[f] \in Seq(FieldRange)
        BY <3>2
      <3>5. \A i \in DOMAIN fields[f] : InBounds(fields[f][i], f)
        BY <3>1, <3>4 DEF Valid
      <3>6. getField(fields[f], f).bits \subseteq Bounds[f]
        BY <3>4, <3>5, FieldFits
      <3>7. spec[f] = getField(fields[f], f)
        BY <3>1, <3>4 DEF Parse
      <3>. QED BY <3>6, <3>7
    <2>2. CASE spec \in {parseDescriptor(name) : name \in DOMAIN LowestFields}
      <3>1. PICK name \in DOMAIN LowestFields : spec = parseDescriptor(name)
        BY <2>2
      <3>2. TAKE f \in {"minute", "hour", "month"}
      <3>3. f \in DOMAIN Bounds /\ Min(Bounds[f]) \in Bounds[f]
        BY UnitBounds
      <3>4. spec[f].bits = IF f \in LowestFields[name] THEN {Min(Bounds[f])} ELSE Bounds[f]
        BY <3>1, <3>3 DEF parseDescriptor
      <3>. QED BY <3>3, <3>4
    <2>. QED BY <2>1, <2>2 DEF Parsed
  <1>2. /\ Bounds["month"] = 1 .. Months /\ Bounds["hour"] = 0 .. HoursPerDay - 1
        /\ Bounds["minute"] = 0 .. MinutesPerHour - 1
    BY DEF Bounds
  <1>3. /\ spec["month"].bits \subseteq Bounds["month"] /\ spec["hour"].bits \subseteq Bounds["hour"]
        /\ spec["minute"].bits \subseteq Bounds["minute"]
    BY <1>1
  <1>. QED BY <1>2, <1>3 DEF SpecFits

(* The scheduled times. *)
Scheduled(spec, u) ==
    /\ IsTime(u)
    /\ u.mo \in spec.month.bits /\ dayMatches(spec, u)
    /\ u.h \in spec.hour.bits /\ u.mi \in spec.minute.bits /\ u.s \in SecondBits

\* No day is beyond the longest month's.
LEMMA LongestMonth ==
  ASSUME NEW t, IsTime(t)
  PROVE  t.d \in 1 .. Max(Bounds.dom)
  <1> DEFINE D == {DaysIn(0, m) : m \in 1 .. Months}
  <1>1. Months \in Nat \ {0} /\ Months \in 0 .. Months
    BY MonthsAre
  <1>2. \A y \in Nat, m \in 1 .. Months : DaysIn(y, m) \in Nat \ {0} /\ DaysIn(y, m) <= DaysIn(0, m)
    BY CalendarIs
  <1>3. ASSUME NEW m \in 1 .. Months
        PROVE  DaysIn(0, m) \in Nat /\ DaysIn(0, m) <= MonthSum(0, Months)
    <2>1. m \in 0 .. Months /\ m - 1 \in 0 .. Months /\ m <= Months /\ 0 \in Nat
      BY <1>1
    <2>2. /\ MonthSum(0, m) \in Nat /\ MonthSum(0, m - 1) \in Nat /\ MonthSum(0, Months) \in Nat
          /\ MonthSum(0, m) = MonthSum(0, m - 1) + DaysIn(0, m)
          /\ MonthSum(0, m) <= MonthSum(0, Months)
      BY <1>1, <2>1, MonthSumGrows
    <2>3. DaysIn(0, m) \in Nat
      BY <1>2
    <2>. QED BY <2>2, <2>3
  <1>4. MonthSum(0, Months) \in Nat
    BY <1>1, MonthSumGrows
  <1>5. D \in SUBSET Nat /\ D # {} /\ \A x \in D : x <= MonthSum(0, Months)
    BY <1>1, <1>3
  <1>6. Max(D) \in D /\ \A x \in D : x <= Max(D)
    BY <1>4, <1>5, MaxOfNaturals
  <1>7. /\ t.y \in Nat /\ t.mo \in 1 .. Months /\ t.d \in Nat \ {0} /\ t.d <= DaysIn(t.y, t.mo)
    BY TimeIs
  <1>8. t.d <= Max(D) /\ Max(D) \in Nat \ {0}
    <2>1. DaysIn(t.y, t.mo) \in Nat /\ DaysIn(t.y, t.mo) <= DaysIn(0, t.mo) /\ DaysIn(0, t.mo) \in D
      BY <1>2, <1>7
    <2>2. DaysIn(0, t.mo) <= Max(D) /\ DaysIn(0, t.mo) \in Nat /\ Max(D) \in Nat
      BY <1>5, <1>6, <2>1
    <2>. QED BY <1>7, <2>1, <2>2
  <1>9. Bounds.dom = 1 .. Max(D)
    BY DEF Bounds
  <1> HIDE DEF D
  <1>10. Max(1 .. Max(D)) \in 1 .. Max(D) /\ Max(D) <= Max(1 .. Max(D))
    <2>1. 1 .. Max(D) \in SUBSET Nat /\ 1 .. Max(D) # {} /\ \A x \in 1 .. Max(D) : x <= Max(D)
      BY <1>8
    <2>2. Max(1 .. Max(D)) \in 1 .. Max(D) /\ \A x \in 1 .. Max(D) : x <= Max(1 .. Max(D))
      BY <1>8, <2>1, MaxOfNaturals
    <2>3. Max(D) \in 1 .. Max(D)
      BY <1>8
    <2>. QED BY <2>2, <2>3
  <1>. QED BY <1>7, <1>8, <1>9, <1>10

\* The scheduled times of a year are those in it.
LEMMA TimesOfIs ==
  ASSUME SpecFits(cronSpec), NEW y \in Nat, NEW t
  PROVE  t \in TimesOf(y) <=> Scheduled(cronSpec, t) /\ t.y = y
  <1>1. ASSUME t \in TimesOf(y) PROVE Scheduled(cronSpec, t) /\ t.y = y
    <2>1. /\ t \in [y : {y}, mo : cronSpec.month.bits, d : 1 .. Max(Bounds.dom),
                    h : cronSpec.hour.bits, mi : cronSpec.minute.bits, s : {0}]
          /\ t.d <= DaysIn(y, t.mo) /\ ScheduledDay(t)
      BY <1>1 DEF TimesOf
    <2>2. 0 \in 0 .. SecondsPerMinute - 1
      BY CalendarIs
    <2>3. IsTime(t)
      <3>1. /\ t = [y |-> t.y, mo |-> t.mo, d |-> t.d, h |-> t.h, mi |-> t.mi, s |-> t.s]
            /\ t.y = y /\ t.mo \in 1 .. Months /\ t.d \in 1 .. Max(Bounds.dom)
            /\ t.h \in 0 .. HoursPerDay - 1 /\ t.mi \in 0 .. MinutesPerHour - 1 /\ t.s = 0
        BY <2>1 DEF SpecFits
      <3>2. t.d \in Nat \ {0}
        BY <3>1
      <3>. QED BY <2>1, <2>2, <3>1, <3>2, TimeOf
    <2>4. dayMatches(cronSpec, t)
      BY <2>1 DEF dayMatches, ScheduledDay
    <2>. QED BY <2>1, <2>3, <2>4 DEF Scheduled, SecondBits
  <1>2. ASSUME Scheduled(cronSpec, t), t.y = y PROVE t \in TimesOf(y)
    <2>1. t.d \in 1 .. Max(Bounds.dom)
      BY <1>2, LongestMonth DEF Scheduled
    <2>2. /\ t = [y |-> t.y, mo |-> t.mo, d |-> t.d, h |-> t.h, mi |-> t.mi, s |-> t.s]
          /\ t.d <= DaysIn(t.y, t.mo)
      BY <1>2, TimeIs DEF Scheduled
    <2>3. ScheduledDay(t)
      BY <1>2 DEF dayMatches, ScheduledDay, Scheduled
    <2>4. t \in [y : {y}, mo : cronSpec.month.bits, d : 1 .. Max(Bounds.dom),
                    h : cronSpec.hour.bits, mi : cronSpec.minute.bits, s : {0}]
      BY <1>2, <2>1, <2>2 DEF Scheduled, SecondBits
    <2>. QED BY <1>2, <2>2, <2>3, <2>4 DEF TimesOf
  <1>. QED BY <1>1, <1>2

(* The walk. *)

\* Nothing scheduled lies between the time Next was asked about and t.
PastNone(spec, from, t) ==
    /\ IsTime(from) /\ IsTime(t) /\ Earlier(from, t)
    /\ \A u : Scheduled(spec, u) /\ Earlier(from, u) => ~Earlier(u, t)

InMonth(spec, t) == t.mo \in spec.month.bits
InHour(spec, t) == t.h \in spec.hour.bits
InMinute(spec, t) == t.mi \in spec.minute.bits

\* What the fields below one that does not match are, once one was incremented:
\* at their first values.
AtUnit(spec, t) ==
    \/ t.d = 1 /\ FromDay(t)
    \/ InMonth(spec, t) /\ FromDay(t)
    \/ InMonth(spec, t) /\ dayMatches(spec, t) /\ FromHour(t)
    \/ InMonth(spec, t) /\ dayMatches(spec, t) /\ InHour(spec, t) /\ t.s = 0
    \/ InMonth(spec, t) /\ dayMatches(spec, t) /\ InHour(spec, t) /\ InMinute(spec, t)

\* The same unit matches alike.
LEMMA SameDayMatches ==
  ASSUME NEW spec, NEW t, NEW u, IsTime(t), IsTime(u), SameDay(t, u)
  PROVE  dayMatches(spec, t) <=> dayMatches(spec, u)
  <1>1. DayNumber(t) = DayNumber(u)
    BY DaysInOrder
  <1>2. t.d = u.d
    BY DEF SameDay
  <1>. QED BY <1>1, <1>2 DEF dayMatches, Weekday

\* The order is one.
LEMMA TimesAreOrdered ==
  /\ \A t, u : IsTime(t) /\ IsTime(u) => (Earlier(t, u) \/ Earlier(u, t) \/ t = u)
  /\ \A t, u, v : IsTime(t) /\ IsTime(u) /\ IsTime(v) /\ Earlier(t, u) /\ Earlier(u, v) => Earlier(t, v)
  /\ \A t, u : IsTime(t) /\ IsTime(u) /\ Earlier(t, u) => ~Earlier(u, t)
  <1>1. ASSUME NEW t, NEW u, IsTime(t), IsTime(u)
        PROVE  /\ Earlier(t, u) \/ Earlier(u, t) \/ t = u
               /\ Earlier(t, u) => ~Earlier(u, t)
    <2>1. /\ Seconds(t) \in Nat /\ Seconds(u) \in Nat
          /\ Earlier(t, u) <=> Seconds(t) < Seconds(u)
          /\ Seconds(t) = Seconds(u) => t = u
          /\ Earlier(u, t) <=> Seconds(u) < Seconds(t)
      BY <1>1, SecondsInOrder
    <2>2. Seconds(t) < Seconds(u) \/ Seconds(u) < Seconds(t) \/ Seconds(t) = Seconds(u)
      BY <2>1
    <2>. QED BY <2>1, <2>2
  <1>2. ASSUME NEW t, NEW u, NEW v, IsTime(t), IsTime(u), IsTime(v), Earlier(t, u), Earlier(u, v)
        PROVE  Earlier(t, v)
    <2>1. /\ Seconds(t) \in Nat /\ Seconds(u) \in Nat /\ Seconds(v) \in Nat
          /\ Earlier(t, u) <=> Seconds(t) < Seconds(u)
          /\ Earlier(u, v) <=> Seconds(u) < Seconds(v)
          /\ Earlier(t, v) <=> Seconds(t) < Seconds(v)
      BY <1>2, SecondsInOrder
    <2>. QED BY <1>2, <2>1
  <1>3. \A t, u : IsTime(t) /\ IsTime(u) => (Earlier(t, u) \/ Earlier(u, t) \/ t = u) /\ (Earlier(t, u) => ~Earlier(u, t))
    BY <1>1
  <1>4. \A t, u, v : IsTime(t) /\ IsTime(u) /\ IsTime(v) /\ Earlier(t, u) /\ Earlier(u, v) => Earlier(t, v)
    BY <1>2
  <1>5. \A t, u : IsTime(t) /\ IsTime(u) => (Earlier(t, u) \/ Earlier(u, t) \/ t = u)
    BY <1>3
  <1>6. \A t, u : IsTime(t) /\ IsTime(u) /\ Earlier(t, u) => ~Earlier(u, t)
    BY <1>3
  <1>. QED BY <1>4, <1>5, <1>6, Zenon

\* The first of the next month, when no time of this month is scheduled.
LEMMA MonthSkipped ==
  ASSUME NEW spec, NEW from, NEW c, PastNone(spec, from, c), ~InMonth(spec, c),
         NEW t, t = StartOfMonth(c), NEW v, v = AddMonth(t)
  PROVE  PastNone(spec, from, v) /\ AtUnit(spec, v) /\ (v.mo # 1 => v.y = c.y)
  <1>1. IsTime(c) /\ IsTime(from) /\ Earlier(from, c)
    BY DEF PastNone
  <1>2. /\ t = [y |-> c.y, mo |-> c.mo, d |-> 1, h |-> 0, mi |-> 0, s |-> 0]
        /\ IsTime(t)
    <2>1. /\ c = [y |-> c.y, mo |-> c.mo, d |-> c.d, h |-> c.h, mi |-> c.mi, s |-> c.s]
          /\ c.y \in Nat /\ c.mo \in 1 .. Months
      BY <1>1, TimeIs
    <2>2. t = [y |-> c.y, mo |-> c.mo, d |-> 1, h |-> 0, mi |-> 0, s |-> 0]
      BY <2>1 DEF StartOfMonth
    <2>3. DaysIn(c.y, c.mo) \in Nat \ {0}
      BY <2>1, CalendarIs
    <2>4. 1 \in Nat \ {0} /\ 1 <= DaysIn(c.y, c.mo)
      BY <2>3
    <2>5. 0 \in 0 .. HoursPerDay - 1 /\ 0 \in 0 .. MinutesPerHour - 1 /\ 0 \in 0 .. SecondsPerMinute - 1
      BY CalendarIs
    <2>6. IsTime([y |-> c.y, mo |-> c.mo, d |-> 1, h |-> 0, mi |-> 0, s |-> 0])
      BY <2>1, <2>4, <2>5, TimeOf
    <2>. QED BY <2>2, <2>6
  <1>3. t.d = 1 /\ t.y = c.y /\ t.mo = c.mo /\ t.h = 0 /\ t.mi = 0 /\ t.s = 0
    BY <1>2
  <1>4. /\ IsTime(v) /\ v.d = 1 /\ v.h = t.h /\ v.mi = t.mi /\ v.s = t.s
        /\ MonthBefore(t, v)
        /\ v.mo # 1 => v.y = t.y
        /\ \A u : IsTime(u) /\ MonthBefore(t, u) => ~MonthBefore(u, v)
    BY <1>2, <1>3, AddMonthIs
  <1>5. AtUnit(spec, v)
    BY <1>3, <1>4 DEF AtUnit, FromDay
  <1>6. MonthBefore(c, v)
    BY <1>3, <1>4 DEF MonthBefore
  <1>7. Earlier(from, v)
    BY <1>1, <1>4, <1>6, TimesAreOrdered DEF Earlier, MinuteBefore, HourBefore, DayBefore
  <1>8. ASSUME NEW u, Scheduled(spec, u), Earlier(from, u), Earlier(u, v) PROVE FALSE
    <2>1. IsTime(u) /\ InMonth(spec, u)
      BY <1>8 DEF Scheduled, InMonth
    <2>2. MonthBefore(u, v)
      <3>1. /\ u.y \in Nat /\ u.mo \in Nat /\ u.d \in Nat \ {0} /\ u.h \in Nat /\ u.mi \in Nat /\ u.s \in Nat
        BY <2>1, TimeIs
      <3>. QED BY <1>3, <1>4, <1>8, <3>1
             DEF Earlier, MinuteBefore, HourBefore, DayBefore, SameMinute, SameHour, SameDay, SameMonth
    <2>3. ~MonthBefore(t, u)
      BY <1>4, <2>1, <2>2
    <2>4. ~Earlier(u, c)
      BY <1>8 DEF PastNone
    <2>5. ~MonthBefore(u, c)
      BY <2>4 DEF Earlier, MinuteBefore, HourBefore, DayBefore
    <2>6. u.y = c.y /\ u.mo = c.mo
      <3>1. u.y \in Nat /\ u.mo \in Nat /\ c.y \in Nat /\ c.mo \in Nat
        BY <1>1, <2>1, TimeIs
      <3>. QED BY <1>3, <2>3, <2>5, <3>1 DEF MonthBefore
    <2>. QED BY <2>1, <2>6 DEF InMonth
  <1>. QED BY <1>1, <1>3, <1>4, <1>5, <1>7, <1>8 DEF PastNone

\* The start of the next day, when no time of this day is scheduled.
LEMMA DaySkipped ==
  ASSUME NEW spec, NEW from, NEW c, PastNone(spec, from, c), InMonth(spec, c), ~dayMatches(spec, c),
         NEW t, t = StartOfDay(c), NEW v, v = AddDay(t)
  PROVE  /\ PastNone(spec, from, v) /\ AtUnit(spec, v)
         /\ v.d # 1 => SameMonth(v, c)
  <1>1. IsTime(c) /\ IsTime(from) /\ Earlier(from, c)
    BY DEF PastNone
  <1>2. /\ t = [y |-> c.y, mo |-> c.mo, d |-> c.d, h |-> 0, mi |-> 0, s |-> 0]
        /\ IsTime(t)
    <2>1. /\ c = [y |-> c.y, mo |-> c.mo, d |-> c.d, h |-> c.h, mi |-> c.mi, s |-> c.s]
          /\ c.y \in Nat /\ c.mo \in 1 .. Months /\ c.d \in Nat \ {0} /\ c.d <= DaysIn(c.y, c.mo)
      BY <1>1, TimeIs
    <2>2. t = [y |-> c.y, mo |-> c.mo, d |-> c.d, h |-> 0, mi |-> 0, s |-> 0]
      BY <2>1 DEF StartOfDay
    <2>5. 0 \in 0 .. HoursPerDay - 1 /\ 0 \in 0 .. MinutesPerHour - 1 /\ 0 \in 0 .. SecondsPerMinute - 1
      BY CalendarIs
    <2>6. IsTime([y |-> c.y, mo |-> c.mo, d |-> c.d, h |-> 0, mi |-> 0, s |-> 0])
      BY <2>1, <2>5, TimeOf
    <2>. QED BY <2>2, <2>6
  <1>3. t.d = c.d /\ t.y = c.y /\ t.mo = c.mo /\ t.h = 0 /\ t.mi = 0 /\ t.s = 0
    BY <1>2
  <1>4. /\ IsTime(v) /\ v.h = t.h /\ v.mi = t.mi /\ v.s = t.s
        /\ DayBefore(t, v)
        /\ v.d # 1 => SameMonth(v, t)
        /\ \A u : IsTime(u) /\ DayBefore(t, u) => ~DayBefore(u, v)
    BY <1>2, AddDayIs
  <1>5. AtUnit(spec, v)
    BY <1>3, <1>4 DEF AtUnit, FromDay, SameMonth, InMonth
  <1>6. DayBefore(c, v)
    BY <1>3, <1>4 DEF DayBefore, MonthBefore, SameMonth
  <1>7. Earlier(from, v)
    BY <1>1, <1>4, <1>6, TimesAreOrdered DEF Earlier, MinuteBefore, HourBefore
  <1>8. ASSUME NEW u, Scheduled(spec, u), Earlier(from, u), Earlier(u, v) PROVE FALSE
    <2>1. IsTime(u) /\ dayMatches(spec, u)
      BY <1>8 DEF Scheduled
    <2>2. DayBefore(u, v)
      <3>1. u.h \in Nat /\ u.mi \in Nat /\ u.s \in Nat
        BY <2>1, TimeIs
      <3>. QED BY <1>3, <1>4, <1>8, <3>1
             DEF Earlier, MinuteBefore, HourBefore, SameMinute, SameHour
    <2>3. ~DayBefore(t, u)
      BY <1>4, <2>1, <2>2
    <2>4. ~Earlier(u, c)
      BY <1>8 DEF PastNone
    <2>5. ~DayBefore(u, c)
      BY <2>4 DEF Earlier, MinuteBefore, HourBefore
    <2>6. SameDay(u, c)
      <3>1. u.y \in Nat /\ u.mo \in Nat /\ c.y \in Nat /\ c.mo \in Nat /\ u.d \in Nat /\ c.d \in Nat
        BY <1>1, <2>1, TimeIs
      <3>. QED BY <1>3, <2>3, <2>5, <3>1 DEF DayBefore, MonthBefore, SameMonth, SameDay
    <2>. QED BY <1>1, <2>1, <2>6, SameDayMatches
  <1>9. v.d # 1 => SameMonth(v, c)
    BY <1>3, <1>4 DEF SameMonth
  <1>. QED BY <1>1, <1>4, <1>5, <1>7, <1>8, <1>9 DEF PastNone

\* The start of the next hour, when no time of this hour is scheduled.
LEMMA HourSkipped ==
  ASSUME NEW spec, NEW from, NEW c, PastNone(spec, from, c),
         InMonth(spec, c), dayMatches(spec, c), ~InHour(spec, c),
         NEW t, t = StartOfHour(c), NEW v, v = AddHour(t)
  PROVE  /\ PastNone(spec, from, v) /\ AtUnit(spec, v)
         /\ v.h # 0 => SameDay(v, c)
  <1>1. IsTime(c) /\ IsTime(from) /\ Earlier(from, c)
    BY DEF PastNone
  <1>2. /\ t = [y |-> c.y, mo |-> c.mo, d |-> c.d, h |-> c.h, mi |-> 0, s |-> 0]
        /\ IsTime(t)
    <2>1. /\ c = [y |-> c.y, mo |-> c.mo, d |-> c.d, h |-> c.h, mi |-> c.mi, s |-> c.s]
          /\ c.y \in Nat /\ c.mo \in 1 .. Months /\ c.d \in Nat \ {0} /\ c.d <= DaysIn(c.y, c.mo)
          /\ c.h \in 0 .. HoursPerDay - 1
      BY <1>1, TimeIs
    <2>2. t = [y |-> c.y, mo |-> c.mo, d |-> c.d, h |-> c.h, mi |-> 0, s |-> 0]
      BY <2>1 DEF StartOfHour
    <2>5. 0 \in 0 .. MinutesPerHour - 1 /\ 0 \in 0 .. SecondsPerMinute - 1
      BY CalendarIs
    <2>6. IsTime([y |-> c.y, mo |-> c.mo, d |-> c.d, h |-> c.h, mi |-> 0, s |-> 0])
      BY <2>1, <2>5, TimeOf
    <2>. QED BY <2>2, <2>6
  <1>3. t.d = c.d /\ t.y = c.y /\ t.mo = c.mo /\ t.h = c.h /\ t.mi = 0 /\ t.s = 0
    BY <1>2
  <1>4. /\ IsTime(v) /\ v.mi = t.mi /\ v.s = t.s
        /\ HourBefore(t, v)
        /\ (v.h # 0 => SameDay(v, t)) /\ (v.d # 1 => SameMonth(v, t))
        /\ \A u : IsTime(u) /\ HourBefore(t, u) => ~HourBefore(u, v)
    BY <1>2, AddHourIs
  <1>5. (v.h # 0 => SameDay(v, c)) /\ (v.d # 1 => SameMonth(v, c))
    BY <1>3, <1>4 DEF SameDay, SameMonth
  <1>6. HourBefore(c, v)
    BY <1>3, <1>4 DEF HourBefore, DayBefore, MonthBefore, SameDay, SameMonth
  <1>7. Earlier(from, v)
    BY <1>1, <1>4, <1>6, TimesAreOrdered DEF Earlier, MinuteBefore
  <1>8. ASSUME NEW u, Scheduled(spec, u), Earlier(from, u), Earlier(u, v) PROVE FALSE
    <2>1. IsTime(u) /\ InHour(spec, u)
      BY <1>8 DEF Scheduled, InHour
    <2>2. HourBefore(u, v)
      <3>1. u.mi \in Nat /\ u.s \in Nat
        BY <2>1, TimeIs
      <3>. QED BY <1>3, <1>4, <1>8, <3>1 DEF Earlier, MinuteBefore, SameMinute
    <2>3. ~HourBefore(t, u)
      BY <1>4, <2>1, <2>2
    <2>4. ~Earlier(u, c)
      BY <1>8 DEF PastNone
    <2>5. ~HourBefore(u, c)
      BY <2>4 DEF Earlier, MinuteBefore
    <2>6. u.h = c.h
      <3>1. /\ u.y \in Nat /\ u.mo \in Nat /\ c.y \in Nat /\ c.mo \in Nat /\ u.d \in Nat /\ c.d \in Nat
            /\ u.h \in Nat /\ c.h \in Nat
        BY <1>1, <2>1, TimeIs
      <3>. QED BY <1>3, <2>3, <2>5, <3>1 DEF HourBefore, DayBefore, MonthBefore, SameMonth, SameDay
    <2>. QED BY <2>1, <2>6 DEF InHour
  <1>9. AtUnit(spec, v)
    <2>1. CASE v.h # 0
      <3>1. SameDay(v, c) /\ InMonth(spec, v)
        BY <1>5, <2>1 DEF SameDay, SameMonth, InMonth
      <3>2. dayMatches(spec, v)
        BY <1>1, <1>4, <3>1, SameDayMatches
      <3>. QED BY <1>3, <1>4, <3>1, <3>2 DEF AtUnit, FromHour
    <2>2. CASE v.h = 0
      BY <1>3, <1>4, <1>5, <2>2 DEF AtUnit, FromDay, InMonth, SameMonth
    <2>. QED BY <2>1, <2>2
  <1>. QED BY <1>1, <1>4, <1>5, <1>7, <1>8, <1>9 DEF PastNone
\* What a carry leaves.
LEMMA CarriedIsAtUnit ==
  ASSUME NEW spec, NEW c, IsTime(c), NEW v, IsTime(v),
         InMonth(spec, c), dayMatches(spec, c), InHour(spec, c),
         v.s = 0, v.mi # 0 => SameHour(v, c), v.h # 0 => SameDay(v, c), v.d # 1 => SameMonth(v, c)
  PROVE  AtUnit(spec, v)
  <1>1. CASE v.mi # 0
    <2>1. SameDay(v, c) /\ InMonth(spec, v) /\ InHour(spec, v)
      BY <1>1 DEF SameHour, SameDay, SameMonth, InMonth, InHour
    <2>2. dayMatches(spec, v)
      BY <2>1, SameDayMatches
    <2>. QED BY <2>1, <2>2 DEF AtUnit
  <1>2. CASE v.mi = 0 /\ v.h # 0
    <2>1. SameDay(v, c) /\ InMonth(spec, v)
      BY <1>2 DEF SameDay, SameMonth, InMonth
    <2>2. dayMatches(spec, v)
      BY <2>1, SameDayMatches
    <2>. QED BY <1>2, <2>1, <2>2 DEF AtUnit, FromHour
  <1>3. CASE v.mi = 0 /\ v.h = 0
    BY <1>3 DEF AtUnit, FromDay, InMonth, SameMonth
  <1>. QED BY <1>1, <1>2, <1>3

\* The start of the next minute, when no time of this minute is scheduled.
LEMMA MinuteSkipped ==
  ASSUME NEW spec, NEW from, NEW c, PastNone(spec, from, c),
         InMonth(spec, c), dayMatches(spec, c), InHour(spec, c), ~InMinute(spec, c),
         NEW t, t = StartOfMinute(c), NEW v, v = AddMinute(t)
  PROVE  /\ PastNone(spec, from, v) /\ AtUnit(spec, v)
         /\ v.mi # 0 => SameHour(v, c)
  <1>1. IsTime(c) /\ IsTime(from) /\ Earlier(from, c)
    BY DEF PastNone
  <1>2. /\ t = [y |-> c.y, mo |-> c.mo, d |-> c.d, h |-> c.h, mi |-> c.mi, s |-> 0]
        /\ IsTime(t)
    <2>1. /\ c = [y |-> c.y, mo |-> c.mo, d |-> c.d, h |-> c.h, mi |-> c.mi, s |-> c.s]
          /\ c.y \in Nat /\ c.mo \in 1 .. Months /\ c.d \in Nat \ {0} /\ c.d <= DaysIn(c.y, c.mo)
          /\ c.h \in 0 .. HoursPerDay - 1 /\ c.mi \in 0 .. MinutesPerHour - 1
      BY <1>1, TimeIs
    <2>2. t = [y |-> c.y, mo |-> c.mo, d |-> c.d, h |-> c.h, mi |-> c.mi, s |-> 0]
      BY <2>1 DEF StartOfMinute
    <2>3. 0 \in 0 .. SecondsPerMinute - 1
      BY CalendarIs
    <2>4. IsTime([y |-> c.y, mo |-> c.mo, d |-> c.d, h |-> c.h, mi |-> c.mi, s |-> 0])
      BY <2>1, <2>3, TimeOf
    <2>. QED BY <2>2, <2>4
  <1>3. t.d = c.d /\ t.y = c.y /\ t.mo = c.mo /\ t.h = c.h /\ t.mi = c.mi /\ t.s = 0
    BY <1>2
  <1>4. /\ IsTime(v) /\ v.s = t.s
        /\ MinuteBefore(t, v)
        /\ v.mi # 0 => SameHour(v, t)
        /\ (v.h # 0 => SameDay(v, t)) /\ (v.d # 1 => SameMonth(v, t))
        /\ \A u : IsTime(u) /\ MinuteBefore(t, u) => ~MinuteBefore(u, v)
    BY <1>2, AddMinuteIs
  <1>5. (v.mi # 0 => SameHour(v, c)) /\ (v.h # 0 => SameDay(v, c)) /\ (v.d # 1 => SameMonth(v, c))
    BY <1>3, <1>4 DEF SameHour, SameDay, SameMonth
  <1>6. MinuteBefore(c, v)
    BY <1>3, <1>4 DEF MinuteBefore, HourBefore, DayBefore, MonthBefore, SameHour, SameDay, SameMonth
  <1>7. Earlier(from, v)
    BY <1>1, <1>4, <1>6, TimesAreOrdered DEF Earlier
  <1>8. ASSUME NEW u, Scheduled(spec, u), Earlier(from, u), Earlier(u, v) PROVE FALSE
    <2>1. IsTime(u) /\ InMinute(spec, u)
      BY <1>8 DEF Scheduled, InMinute
    <2>2. MinuteBefore(u, v)
      <3>1. u.s \in Nat
        BY <2>1, TimeIs
      <3>. QED BY <1>3, <1>4, <1>8, <3>1 DEF Earlier
    <2>3. ~MinuteBefore(t, u)
      BY <1>4, <2>1, <2>2
    <2>4. ~Earlier(u, c)
      BY <1>8 DEF PastNone
    <2>5. ~MinuteBefore(u, c)
      BY <2>4 DEF Earlier
    <2>6. u.mi = c.mi
      <3>1. /\ u.y \in Nat /\ u.mo \in Nat /\ c.y \in Nat /\ c.mo \in Nat /\ u.d \in Nat /\ c.d \in Nat
            /\ u.h \in Nat /\ c.h \in Nat /\ u.mi \in Nat /\ c.mi \in Nat
        BY <1>1, <2>1, TimeIs
      <3>. QED BY <1>3, <2>3, <2>5, <3>1
             DEF MinuteBefore, HourBefore, DayBefore, MonthBefore, SameMonth, SameDay, SameHour
    <2>. QED BY <2>1, <2>6 DEF InMinute
  <1>9. AtUnit(spec, v)
    BY <1>1, <1>3, <1>4, <1>5, CarriedIsAtUnit
  <1>. QED BY <1>1, <1>4, <1>5, <1>7, <1>8, <1>9 DEF PastNone

\* The next second, when this one is not scheduled.
LEMMA SecondSkipped ==
  ASSUME NEW spec, NEW from, NEW c, PastNone(spec, from, c),
         InMonth(spec, c), dayMatches(spec, c), InHour(spec, c), InMinute(spec, c), c.s \notin SecondBits,
         NEW v, v = AddSecond(c)
  PROVE  /\ PastNone(spec, from, v) /\ AtUnit(spec, v)
         /\ v.s # 0 => SameMinute(v, c)
  <1>1. IsTime(c) /\ IsTime(from) /\ Earlier(from, c)
    BY DEF PastNone
  <1>2. /\ IsTime(v) /\ Earlier(c, v)
        /\ (v.s # 0 => SameMinute(v, c)) /\ (v.mi # 0 => SameHour(v, c))
        /\ (v.h # 0 => SameDay(v, c)) /\ (v.d # 1 => SameMonth(v, c))
        /\ \A u : IsTime(u) /\ Earlier(c, u) => ~Earlier(u, v)
    BY <1>1, AddSecondIs
  <1>3. Earlier(from, v)
    BY <1>1, <1>2, TimesAreOrdered
  <1>4. ASSUME NEW u, Scheduled(spec, u), Earlier(from, u), Earlier(u, v) PROVE FALSE
    <2>1. IsTime(u) /\ u.s \in SecondBits
      BY <1>4 DEF Scheduled
    <2>2. ~Earlier(c, u) /\ ~Earlier(u, c)
      BY <1>2, <1>4, <2>1 DEF PastNone
    <2>3. u = c
      BY <1>1, <2>1, <2>2, TimesAreOrdered
    <2>. QED BY <2>1, <2>3
  <1>5. AtUnit(spec, v)
    <2>1. CASE v.s = 0
      BY <1>1, <1>2, <2>1, CarriedIsAtUnit
    <2>2. CASE v.s # 0
      <3>1. SameDay(v, c) /\ InMonth(spec, v) /\ InHour(spec, v) /\ InMinute(spec, v)
        BY <1>2, <2>2 DEF SameMinute, SameHour, SameDay, SameMonth, InMonth, InHour, InMinute
      <3>2. dayMatches(spec, v)
        BY <1>1, <1>2, <3>1, SameDayMatches
      <3>. QED BY <3>1, <3>2 DEF AtUnit
    <2>. QED BY <2>1, <2>2
  <1>. QED BY <1>1, <1>2, <1>3, <1>4, <1>5 DEF PastNone

\* The fields Next has found to match, by the loop it is in.
Matched(spec, pc, t) ==
    /\ pc \in {"day", "hour", "minute", "second"} => InMonth(spec, t)
    /\ pc \in {"hour", "minute", "second"} => dayMatches(spec, t)
    /\ pc \in {"minute", "second"} => InHour(spec, t)
    /\ pc = "second" => InMinute(spec, t)

WalkLoops == {"wrap", "month", "day", "hour", "minute", "second"}

CronTyped ==
    /\ SpecFits(cronSpec) /\ IsTime(cronFrom) /\ IsTime(cronStart)
    /\ added \in BOOLEAN /\ yearLimit \in Nat
    /\ cronPc \in WalkLoops \cup {"returned", "rated"}
    /\ timesLeft \in 0 .. MinRateTimes

\* The walk has passed nothing that is scheduled, and once a field has been
\* incremented those below the first that does not match are at their lowest.
WalkInv ==
    cronPc \in WalkLoops =>
        /\ PastNone(cronSpec, cronFrom, cronAt)
        /\ added => AtUnit(cronSpec, cronAt)
        /\ Matched(cronSpec, cronPc, cronAt)
        /\ cronPc # "wrap" => cronAt.y <= yearLimit

\* What Next has returned.
FoundFirst(spec, from, limit, result) ==
    IF result = NoTime THEN \A u : Scheduled(spec, u) /\ Earlier(from, u) => u.y > limit
    ELSE Scheduled(spec, result) /\ PastNone(spec, from, result) /\ result.y <= limit

ReturnInv == cronPc = "returned" => FoundFirst(cronSpec, cronFrom, yearLimit, cronResult)

\* The scheduled times minRate has been given.
IsAsked(spec, start, last, u) == Scheduled(spec, u) /\ Earlier(start, u) /\ ~Earlier(last, u)

\* Neighbours among them.
Neighbours(spec, start, last, u, v) ==
    /\ IsAsked(spec, start, last, u) /\ IsAsked(spec, start, last, v) /\ Earlier(u, v)
    /\ \A w : IsAsked(spec, start, last, w) => ~(Earlier(u, w) /\ Earlier(w, v))

\* The shortest gap between two of them.
Rated(spec, start, last, gap) ==
    /\ Scheduled(spec, last) /\ Earlier(start, last)
    /\ IF gap = NoGap THEN \A u : IsAsked(spec, start, last, u) => u = last
       ELSE /\ \E u, v : Neighbours(spec, start, last, u, v) /\ gap = Seconds(v) - Seconds(u)
            /\ \A u, v : IsAsked(spec, start, last, u) /\ IsAsked(spec, start, last, v) =>
                            (Earlier(u, v) => gap <= Seconds(v) - Seconds(u))

LastAsked == IF cronPc = "rated" THEN cronResult ELSE cronFrom

RateInv ==
    IF timesLeft = MinRateTimes
    THEN cronPc # "rated" /\ cronFrom = cronStart /\ minimum = NoGap
    ELSE Rated(cronSpec, cronStart, LastAsked, minimum)

CronInv == CronTyped /\ WalkInv /\ ReturnInv /\ RateInv

\* The next call of Next starts past the time it is asked about.
LEMMA BeginsPast ==
  ASSUME NEW spec, NEW from, IsTime(from), NEW v, v = AddSecond(from)
  PROVE  PastNone(spec, from, v) /\ v.y \in Nat
  <1>1. /\ IsTime(v) /\ Earlier(from, v)
        /\ \A u : IsTime(u) /\ Earlier(from, u) => ~Earlier(u, v)
    BY AddSecondIs
  <1>2. v.y \in Nat
    BY <1>1, TimeIs
  <1>. QED BY <1>1, <1>2 DEF PastNone, Scheduled

\* At first Next is asked about the start.
LEMMA CronStarted ==
  ASSUME CronInit
  PROVE  CronInv
  <1>1. PICK spec \in Parsed(FieldLists), t \in CronStarts :
          /\ cronSpec = spec /\ cronFrom = t /\ cronStart = t
          /\ cronAt = AddSecond(t) /\ added = FALSE /\ yearLimit = AddSecond(t).y + YearsAhead
          /\ cronPc = "wrap" /\ minimum = NoGap /\ timesLeft = MinRateTimes
    BY DEF CronInit
  <1>2. IsTime(t) /\ SpecFits(spec)
    BY CronInputs, ParsedFits
  <1>3. YearsAhead \in Nat /\ MinRateTimes \in Nat
    BY CronCalendar
  <1>4. PastNone(spec, t, AddSecond(t)) /\ AddSecond(t).y \in Nat
    BY <1>2, BeginsPast
  <1>5. CronTyped
    <2>1. yearLimit \in Nat /\ timesLeft \in 0 .. MinRateTimes
      BY <1>1, <1>3, <1>4
    <2>2. SpecFits(cronSpec) /\ IsTime(cronFrom) /\ IsTime(cronStart)
      BY <1>1, <1>2
    <2>. QED BY <1>1, <2>1, <2>2 DEF CronTyped, WalkLoops
  <1>6. WalkInv
    BY <1>1, <1>4 DEF WalkInv, Matched
  <1>7. ReturnInv /\ RateInv
    BY <1>1 DEF ReturnInv, RateInv
  <1>. QED BY <1>5, <1>6, <1>7 DEF CronInv

\* A step of the walk inside one call.
LEMMA WalkMoves ==
  ASSUME CronInv, cronPc \in WalkLoops, Keep, cronPc' \in WalkLoops, added' \in BOOLEAN,
         PastNone(cronSpec, cronFrom, cronAt'), added' => AtUnit(cronSpec, cronAt'),
         Matched(cronSpec, cronPc', cronAt'), cronPc' # "wrap" => cronAt'.y <= yearLimit
  PROVE  CronInv'
  <1>1. CronTyped'
    BY DEF CronInv, CronTyped, Keep
  <1>2. WalkInv'
    BY DEF WalkInv, Keep
  <1>3. ReturnInv'
    BY DEF ReturnInv, WalkLoops
  <1>4. RateInv'
    <2>1. cronPc # "rated" /\ cronPc' # "rated"
      BY DEF WalkLoops
    <2>2. LastAsked' = LastAsked
      BY <2>1 DEF LastAsked, Keep
    <2>3. timesLeft' = timesLeft /\ cronFrom' = cronFrom /\ cronStart' = cronStart /\ minimum' = minimum
          /\ cronSpec' = cronSpec
      BY DEF Keep
    <2>. QED BY <2>1, <2>2, <2>3 DEF CronInv, RateInv
  <1>. QED BY <1>1, <1>2, <1>3, <1>4 DEF CronInv

\* What is at the start of its unit stays when it is cut.
LEMMA CutIsItself ==
  ASSUME NEW c, IsTime(c)
  PROVE  /\ c.d = 1 /\ FromDay(c) => StartOfMonth(c) = c
         /\ FromDay(c) => StartOfDay(c) = c
         /\ FromHour(c) => StartOfHour(c) = c
         /\ c.s = 0 => StartOfMinute(c) = c
  <1>1. PICK y, mo, d, h, mi, s : c = [y |-> y, mo |-> mo, d |-> d, h |-> h, mi |-> mi, s |-> s]
    BY TimeIs
  <1>2. ASSUME c.d = 1, FromDay(c) PROVE StartOfMonth(c) = c
    BY <1>1, <1>2 DEF StartOfMonth, FromDay
  <1>3. ASSUME FromDay(c) PROVE StartOfDay(c) = c
    BY <1>1, <1>3 DEF StartOfDay, FromDay
  <1>4. ASSUME FromHour(c) PROVE StartOfHour(c) = c
    BY <1>1, <1>4 DEF StartOfHour, FromHour
  <1>5. ASSUME c.s = 0 PROVE StartOfMinute(c) = c
    BY <1>1, <1>5 DEF StartOfMinute
  <1>. QED BY <1>2, <1>3, <1>4, <1>5

\* A month that does not match is skipped (Next's month loop).
LEMMA MonthStepKeeps ==
  ASSUME CronInv, MonthStep
  PROVE  CronInv'
  <1> DEFINE t == StartOfMonth(cronAt)
  <1>1. /\ cronPc = "month" /\ cronPc \in WalkLoops /\ ~InMonth(cronSpec, cronAt) /\ Keep
        /\ PastNone(cronSpec, cronFrom, cronAt) /\ (added => AtUnit(cronSpec, cronAt))
        /\ cronAt.y <= yearLimit
    BY DEF MonthStep, CronInv, WalkInv, WalkLoops, InMonth
  <1>2. FirstCut(cronAt, t) = t
    <2>1. ASSUME added PROVE cronAt = t
      <3>1. cronAt.d = 1 /\ FromDay(cronAt)
        BY <1>1, <2>1 DEF AtUnit
      <3>. QED BY <1>1, <3>1, CutIsItself DEF PastNone
    <2>. QED BY <2>1 DEF FirstCut
  <1>3. /\ cronAt' = AddMonth(t) /\ added' = TRUE
        /\ cronPc' = IF cronAt'.mo = 1 THEN "wrap" ELSE "month"
    BY <1>2 DEF MonthStep, Step1
  <1>4. /\ PastNone(cronSpec, cronFrom, cronAt') /\ AtUnit(cronSpec, cronAt')
        /\ cronAt'.mo # 1 => cronAt'.y = cronAt.y
    BY <1>1, <1>3, MonthSkipped
  <1>5. Matched(cronSpec, cronPc', cronAt') /\ cronPc' \in WalkLoops
    BY <1>3 DEF Matched, WalkLoops
  <1>6. cronPc' # "wrap" => cronAt'.y <= yearLimit
    BY <1>1, <1>3, <1>4
  <1>. QED BY <1>1, <1>3, <1>4, <1>5, <1>6, WalkMoves

\* A day that does not match is skipped (the day loop).
LEMMA DayStepKeeps ==
  ASSUME CronInv, DayStep
  PROVE  CronInv'
  <1> DEFINE t == StartOfDay(cronAt)
  <1>1. /\ cronPc = "day" /\ cronPc \in WalkLoops /\ ~dayMatches(cronSpec, cronAt) /\ Keep
        /\ PastNone(cronSpec, cronFrom, cronAt) /\ (added => AtUnit(cronSpec, cronAt))
        /\ cronAt.y <= yearLimit /\ InMonth(cronSpec, cronAt)
    BY DEF DayStep, CronInv, WalkInv, WalkLoops, Matched
  <1>2. FirstCut(cronAt, t) = t
    <2>1. ASSUME added PROVE cronAt = t
      <3>1. FromDay(cronAt)
        BY <1>1, <2>1 DEF AtUnit
      <3>. QED BY <1>1, <3>1, CutIsItself DEF PastNone
    <2>. QED BY <2>1 DEF FirstCut
  <1>3. /\ cronAt' = AddDay(t) /\ added' = TRUE
        /\ cronPc' = IF cronAt'.d = 1 THEN "wrap" ELSE "day"
    BY <1>2 DEF DayStep, Step1
  <1>4. /\ PastNone(cronSpec, cronFrom, cronAt') /\ AtUnit(cronSpec, cronAt')
        /\ cronAt'.d # 1 => SameMonth(cronAt', cronAt)
    BY <1>1, <1>3, DaySkipped
  <1>5. Matched(cronSpec, cronPc', cronAt') /\ cronPc' \in WalkLoops
    BY <1>1, <1>3, <1>4 DEF Matched, WalkLoops, InMonth, SameMonth
  <1>6. cronPc' # "wrap" => cronAt'.y <= yearLimit
    BY <1>1, <1>3, <1>4 DEF SameMonth
  <1>. QED BY <1>1, <1>3, <1>4, <1>5, <1>6, WalkMoves

\* An hour that does not match is skipped (the hour loop).
LEMMA HourStepKeeps ==
  ASSUME CronInv, HourStep
  PROVE  CronInv'
  <1> DEFINE t == StartOfHour(cronAt)
  <1>1. /\ cronPc = "hour" /\ cronPc \in WalkLoops /\ ~InHour(cronSpec, cronAt) /\ Keep
        /\ PastNone(cronSpec, cronFrom, cronAt) /\ (added => AtUnit(cronSpec, cronAt))
        /\ cronAt.y <= yearLimit /\ InMonth(cronSpec, cronAt) /\ dayMatches(cronSpec, cronAt)
    BY DEF HourStep, CronInv, WalkInv, WalkLoops, Matched, InHour
  <1>2. FirstCut(cronAt, t) = t
    <2>1. ASSUME added PROVE cronAt = t
      <3>1. FromHour(cronAt)
        BY <1>1, <2>1 DEF AtUnit, FromDay, FromHour
      <3>. QED BY <1>1, <3>1, CutIsItself DEF PastNone
    <2>. QED BY <2>1 DEF FirstCut
  <1>3. /\ cronAt' = AddHour(t) /\ added' = TRUE
        /\ cronPc' = IF cronAt'.h = 0 THEN "wrap" ELSE "hour"
    BY <1>2 DEF HourStep, Step1
  <1>4. /\ PastNone(cronSpec, cronFrom, cronAt') /\ AtUnit(cronSpec, cronAt')
        /\ cronAt'.h # 0 => SameDay(cronAt', cronAt)
    BY <1>1, <1>3, HourSkipped
  <1>5. Matched(cronSpec, cronPc', cronAt') /\ cronPc' \in WalkLoops
    <2>1. CASE cronAt'.h = 0
      BY <1>3, <2>1 DEF Matched, WalkLoops
    <2>2. CASE cronAt'.h # 0
      <3>1. SameDay(cronAt', cronAt) /\ cronPc' = "hour"
        BY <1>3, <1>4, <2>2
      <3>2. dayMatches(cronSpec, cronAt')
        BY <1>1, <1>4, <3>1, SameDayMatches DEF PastNone
      <3>. QED BY <1>1, <3>1, <3>2 DEF Matched, WalkLoops, InMonth, SameDay, SameMonth
    <2>. QED BY <2>1, <2>2
  <1>6. cronPc' # "wrap" => cronAt'.y <= yearLimit
    BY <1>1, <1>3, <1>4 DEF SameDay, SameMonth
  <1>. QED BY <1>1, <1>3, <1>4, <1>5, <1>6, WalkMoves

\* A minute that does not match is skipped (the minute loop).
LEMMA MinuteStepKeeps ==
  ASSUME CronInv, MinuteStep
  PROVE  CronInv'
  <1> DEFINE t == StartOfMinute(cronAt)
  <1>1. /\ cronPc = "minute" /\ cronPc \in WalkLoops /\ ~InMinute(cronSpec, cronAt) /\ Keep
        /\ PastNone(cronSpec, cronFrom, cronAt) /\ (added => AtUnit(cronSpec, cronAt))
        /\ cronAt.y <= yearLimit /\ InMonth(cronSpec, cronAt) /\ dayMatches(cronSpec, cronAt)
        /\ InHour(cronSpec, cronAt)
    BY DEF MinuteStep, CronInv, WalkInv, WalkLoops, Matched, InMinute
  <1>2. FirstCut(cronAt, t) = t
    <2>1. ASSUME added PROVE cronAt = t
      <3>1. cronAt.s = 0
        BY <1>1, <2>1 DEF AtUnit, FromDay, FromHour
      <3>. QED BY <1>1, <3>1, CutIsItself DEF PastNone
    <2>. QED BY <2>1 DEF FirstCut
  <1>3. /\ cronAt' = AddMinute(t) /\ added' = TRUE
        /\ cronPc' = IF cronAt'.mi = 0 THEN "wrap" ELSE "minute"
    BY <1>2 DEF MinuteStep, Step1
  <1>4. /\ PastNone(cronSpec, cronFrom, cronAt') /\ AtUnit(cronSpec, cronAt')
        /\ cronAt'.mi # 0 => SameHour(cronAt', cronAt)
    BY <1>1, <1>3, MinuteSkipped
  <1>5. Matched(cronSpec, cronPc', cronAt') /\ cronPc' \in WalkLoops
    <2>1. CASE cronAt'.mi = 0
      BY <1>3, <2>1 DEF Matched, WalkLoops
    <2>2. CASE cronAt'.mi # 0
      <3>1. SameHour(cronAt', cronAt) /\ SameDay(cronAt', cronAt) /\ cronPc' = "minute"
        BY <1>3, <1>4, <2>2 DEF SameHour
      <3>2. dayMatches(cronSpec, cronAt')
        BY <1>1, <1>4, <3>1, SameDayMatches DEF PastNone
      <3>. QED BY <1>1, <3>1, <3>2 DEF Matched, WalkLoops, InMonth, InHour, SameHour, SameDay, SameMonth
    <2>. QED BY <2>1, <2>2
  <1>6. cronPc' # "wrap" => cronAt'.y <= yearLimit
    BY <1>1, <1>3, <1>4 DEF SameHour, SameDay, SameMonth
  <1>. QED BY <1>1, <1>3, <1>4, <1>5, <1>6, WalkMoves

\* A second that does not match is skipped (the second loop).
LEMMA SecondStepKeeps ==
  ASSUME CronInv, SecondStep
  PROVE  CronInv'
  <1>1. /\ cronPc = "second" /\ cronPc \in WalkLoops /\ cronAt.s \notin SecondBits /\ Keep
        /\ PastNone(cronSpec, cronFrom, cronAt)
        /\ cronAt.y <= yearLimit /\ InMonth(cronSpec, cronAt) /\ dayMatches(cronSpec, cronAt)
        /\ InHour(cronSpec, cronAt) /\ InMinute(cronSpec, cronAt)
    BY DEF SecondStep, CronInv, WalkInv, WalkLoops, Matched
  <1>2. /\ cronAt' = AddSecond(cronAt) /\ added' = TRUE
        /\ cronPc' = IF cronAt'.s = 0 THEN "wrap" ELSE "second"
    BY DEF SecondStep, Step1
  <1>3. /\ PastNone(cronSpec, cronFrom, cronAt') /\ AtUnit(cronSpec, cronAt')
        /\ cronAt'.s # 0 => SameMinute(cronAt', cronAt)
    BY <1>1, <1>2, SecondSkipped
  <1>4. Matched(cronSpec, cronPc', cronAt') /\ cronPc' \in WalkLoops
    <2>1. CASE cronAt'.s = 0
      BY <1>2, <2>1 DEF Matched, WalkLoops
    <2>2. CASE cronAt'.s # 0
      <3>1. SameMinute(cronAt', cronAt) /\ SameDay(cronAt', cronAt) /\ cronPc' = "second"
        BY <1>2, <1>3, <2>2 DEF SameMinute, SameHour
      <3>2. dayMatches(cronSpec, cronAt')
        BY <1>1, <1>3, <3>1, SameDayMatches DEF PastNone
      <3>. QED BY <1>1, <3>1, <3>2
             DEF Matched, WalkLoops, InMonth, InHour, InMinute, SameMinute, SameHour, SameDay, SameMonth
    <2>. QED BY <2>1, <2>2
  <1>5. cronPc' # "wrap" => cronAt'.y <= yearLimit
    BY <1>1, <1>2, <1>3 DEF SameMinute, SameHour, SameDay, SameMonth
  <1>. QED BY <1>1, <1>2, <1>3, <1>4, <1>5, WalkMoves

\* The label WRAP checks the year and starts over with the month.
LEMMA WrapKeeps ==
  ASSUME CronInv, Wrap
  PROVE  CronInv'
  <1>1. /\ cronPc = "wrap" /\ cronPc \in WalkLoops /\ cronPc' = "month" /\ cronAt' = cronAt /\ added' = added
        /\ Keep /\ cronAt.y <= yearLimit
        /\ PastNone(cronSpec, cronFrom, cronAt) /\ (added => AtUnit(cronSpec, cronAt)) /\ added \in BOOLEAN
    BY DEF Wrap, CronInv, WalkInv, WalkLoops, CronTyped
  <1>2. Matched(cronSpec, cronPc', cronAt') /\ cronPc' \in WalkLoops
    BY <1>1 DEF Matched, WalkLoops
  <1>. QED BY <1>1, <1>2, WalkMoves

\* A field that matches leads to the one below.
LEMMA NextFieldKeeps ==
  ASSUME CronInv, NextField
  PROVE  CronInv'
  <1>1. /\ cronPc \in {"month", "day", "hour", "minute"} /\ cronPc' = Following(cronPc)
        /\ Matches(cronPc) /\ cronAt' = cronAt /\ added' = added /\ Keep
    BY DEF NextField, Matches
  <1>2. /\ cronPc \in WalkLoops /\ cronAt.y <= yearLimit /\ Matched(cronSpec, cronPc, cronAt)
        /\ PastNone(cronSpec, cronFrom, cronAt) /\ (added => AtUnit(cronSpec, cronAt)) /\ added \in BOOLEAN
    BY <1>1 DEF CronInv, WalkInv, WalkLoops, CronTyped
  <1>3. Matched(cronSpec, cronPc', cronAt) /\ cronPc' \in WalkLoops
    <2>1. CASE cronPc = "month"
      BY <1>1, <1>2, <2>1 DEF Matched, Matches, Following, WalkLoops, InMonth
    <2>2. CASE cronPc = "day"
      BY <1>1, <1>2, <2>2 DEF Matched, Matches, Following, WalkLoops
    <2>3. CASE cronPc = "hour"
      BY <1>1, <1>2, <2>3 DEF Matched, Matches, Following, WalkLoops, InHour
    <2>4. CASE cronPc = "minute"
      BY <1>1, <1>2, <2>4 DEF Matched, Matches, Following, WalkLoops, InMinute
    <2>. QED BY <1>1, <2>1, <2>2, <2>3, <2>4
  <1>. QED BY <1>1, <1>2, <1>3, WalkMoves

\* Next returns the time at which all fields match, or none past its years.
LEMMA ReturnKeeps ==
  ASSUME CronInv, Return
  PROVE  CronInv'
  <1>1. /\ cronPc \in {"wrap", "second"} /\ cronPc \in WalkLoops /\ cronPc' = "returned"
        /\ UNCHANGED <<cronSpec, cronFrom, cronStart, cronAt, added, yearLimit, minimum, timesLeft>>
    BY DEF Return, WalkLoops
  <1>2. /\ PastNone(cronSpec, cronFrom, cronAt) /\ Matched(cronSpec, cronPc, cronAt) /\ yearLimit \in Nat
        /\ cronPc # "wrap" => cronAt.y <= yearLimit
    BY <1>1 DEF CronInv, WalkInv, CronTyped
  <1>3. FoundFirst(cronSpec, cronFrom, yearLimit, cronResult')
    <2>1. CASE cronPc = "wrap" /\ cronAt.y > yearLimit /\ cronResult' = NoTime
      <3>1. ASSUME NEW u, Scheduled(cronSpec, u), Earlier(cronFrom, u) PROVE u.y > yearLimit
        <4>1. ~Earlier(u, cronAt)
          BY <1>2, <3>1 DEF PastNone
        <4>2. u.y \in Nat /\ cronAt.y \in Nat
          BY <1>2, <3>1, TimeIs DEF PastNone, Scheduled
        <4>3. ~(u.y < cronAt.y)
          BY <4>1 DEF Earlier, MinuteBefore, HourBefore, DayBefore, MonthBefore
        <4>. QED BY <1>2, <2>1, <4>2, <4>3
      <3>. QED BY <2>1, <3>1 DEF FoundFirst
    <2>2. CASE cronPc = "second" /\ cronAt.s \in SecondBits /\ cronResult' = cronAt
      <3>1. Scheduled(cronSpec, cronAt)
        BY <1>2, <2>2 DEF Matched, Scheduled, PastNone, InMonth, InHour, InMinute
      <3>2. cronAt # NoTime
        <4>1. cronAt.mo \in 1 .. Months
          BY <1>2, TimeIs DEF PastNone
        <4>2. cronAt.mo # 0
          BY <4>1, MonthsAre
        <4>3. NoTime.mo = 0
          BY DEF NoTime
        <4>. QED BY <4>2, <4>3
      <3>3. cronAt.y <= yearLimit
        BY <1>2, <2>2
      <3>. QED BY <1>2, <2>2, <3>1, <3>2, <3>3 DEF FoundFirst
    <2>. QED BY <2>1, <2>2 DEF Return
  <1>4. CronTyped'
    BY <1>1 DEF CronInv, CronTyped
  <1>5. WalkInv'
    BY <1>1 DEF WalkInv, WalkLoops
  <1>6. ReturnInv'
    BY <1>1, <1>3 DEF ReturnInv
  <1>7. RateInv'
    <2>1. LastAsked' = LastAsked /\ cronPc # "rated" /\ cronPc' # "rated"
      BY <1>1 DEF LastAsked
    <2>. QED BY <1>1, <2>1 DEF CronInv, RateInv
  <1>. QED BY <1>4, <1>5, <1>6, <1>7 DEF CronInv

(* The rate. *)

\* Seconds as the order, for the steps below.
LEMMA SecondsTell ==
  /\ \A t : IsTime(t) => Seconds(t) \in Nat
  /\ \A t, u : IsTime(t) /\ IsTime(u) => (Earlier(t, u) <=> Seconds(t) < Seconds(u))
  /\ \A t, u : IsTime(t) /\ IsTime(u) /\ Seconds(t) = Seconds(u) => t = u
  BY SecondsInOrder

\* One more result of Next is one more time, after all the others.
LEMMA AskedGrows ==
  ASSUME NEW spec, NEW start, IsTime(start), NEW last, NEW result,
         Scheduled(spec, result), PastNone(spec, last, result),
         last = start \/ Earlier(start, last)
  PROVE  /\ Earlier(start, result)
         /\ \A u : IsAsked(spec, start, result, u) <=> IsAsked(spec, start, last, u) \/ u = result
         /\ \A u : IsAsked(spec, start, last, u) =>
                     IsTime(u) /\ Earlier(u, result) /\ Seconds(u) <= Seconds(last)
  <1>1. /\ IsTime(last) /\ IsTime(result) /\ Earlier(last, result)
        /\ \A u : Scheduled(spec, u) /\ Earlier(last, u) => ~Earlier(u, result)
    BY DEF PastNone
  <1>2. Earlier(start, result)
    BY <1>1, TimesAreOrdered
  <1>3. ~Earlier(result, result)
    BY <1>1, TimesAreOrdered
  <1>4. ASSUME NEW u, IsAsked(spec, start, last, u)
        PROVE  IsTime(u) /\ Earlier(u, result) /\ Seconds(u) <= Seconds(last) /\ IsAsked(spec, start, result, u)
    <2>1. IsTime(u) /\ ~Earlier(last, u) /\ Scheduled(spec, u) /\ Earlier(start, u)
      BY <1>4 DEF IsAsked, Scheduled
    <2>2. u = last \/ Earlier(u, last)
      BY <1>1, <2>1, TimesAreOrdered
    <2>3. Earlier(u, result)
      BY <1>1, <2>1, <2>2, TimesAreOrdered
    <2>4. Seconds(u) <= Seconds(last)
      BY <1>1, <2>1, <2>2, SecondsTell
    <2>5. ~Earlier(result, u)
      BY <1>1, <2>1, <2>3, TimesAreOrdered
    <2>. QED BY <2>1, <2>3, <2>4, <2>5 DEF IsAsked
  <1>5. IsAsked(spec, start, result, result)
    BY <1>2, <1>3 DEF IsAsked
  <1>6. ASSUME NEW u, IsAsked(spec, start, result, u) PROVE IsAsked(spec, start, last, u) \/ u = result
    <2>1. IsTime(u) /\ ~Earlier(result, u) /\ Scheduled(spec, u) /\ Earlier(start, u)
      BY <1>6 DEF IsAsked, Scheduled
    <2>2. CASE Earlier(last, u)
      BY <1>1, <2>1, <2>2, TimesAreOrdered
    <2>3. CASE ~Earlier(last, u)
      BY <2>1, <2>3 DEF IsAsked
    <2>. QED BY <2>2, <2>3
  <1>. QED BY <1>2, <1>4, <1>5, <1>6

\* The first result has no gap.
LEMMA FirstIsRated ==
  ASSUME NEW spec, NEW start, IsTime(start), NEW result,
         Scheduled(spec, result), PastNone(spec, start, result)
  PROVE  Rated(spec, start, result, NoGap)
  <1>1. /\ Earlier(start, result)
        /\ \A u : IsAsked(spec, start, result, u) <=> IsAsked(spec, start, start, u) \/ u = result
    BY AskedGrows
  <1>2. \A u : ~IsAsked(spec, start, start, u)
    BY DEF IsAsked
  <1>. QED BY <1>1, <1>2 DEF Rated

\* Every later one has the gap to the result before it.
LEMMA NextIsRated ==
  ASSUME NEW spec, NEW start, IsTime(start), NEW last, NEW gap, NEW result,
         Rated(spec, start, last, gap), Scheduled(spec, result), PastNone(spec, last, result)
  PROVE  Rated(spec, start, result, Shorter(gap, Seconds(result) - Seconds(last)))
  <1> DEFINE new == Seconds(result) - Seconds(last)
             shortest == Shorter(gap, new)
  <1>1. /\ IsTime(last) /\ IsTime(result) /\ Earlier(last, result)
        /\ Earlier(start, last) /\ Scheduled(spec, last)
    BY DEF PastNone, Rated
  <1>2. /\ Earlier(start, result)
        /\ \A u : IsAsked(spec, start, result, u) <=> IsAsked(spec, start, last, u) \/ u = result
        /\ \A u : IsAsked(spec, start, last, u) =>
                    IsTime(u) /\ Earlier(u, result) /\ Seconds(u) <= Seconds(last)
    BY <1>1, AskedGrows
  <1>3. /\ Seconds(last) \in Nat /\ Seconds(result) \in Nat /\ new \in Nat \ {0}
    BY <1>1, SecondsTell
  <1>4. IsAsked(spec, start, last, last)
    BY <1>1, TimesAreOrdered DEF IsAsked
  <1>5. Neighbours(spec, start, result, last, result)
    <2>1. ASSUME NEW w, IsAsked(spec, start, result, w), Earlier(last, w) PROVE ~Earlier(w, result)
      BY <2>1 DEF PastNone, IsAsked
    <2>. QED BY <1>1, <1>2, <1>4, <2>1 DEF Neighbours
  <1>6. ASSUME gap = NoGap PROVE shortest = new
    BY <1>6 DEF Shorter
  <1>7. ASSUME gap # NoGap PROVE gap \in Int /\ shortest \in {gap, new} /\ shortest <= gap /\ shortest <= new
    <2>1. PICK u, v : Neighbours(spec, start, last, u, v) /\ gap = Seconds(v) - Seconds(u)
      BY <1>7 DEF Rated
    <2>2. IsTime(u) /\ IsTime(v)
      BY <1>2, <2>1 DEF Neighbours
    <2>3. gap \in Int
      BY <2>1, <2>2, SecondsTell
    <2>. QED BY <1>3, <1>7, <2>3 DEF Shorter
  <1>8. shortest # NoGap
    <2>1. new # NoGap
      BY <1>3 DEF NoGap
    <2>. QED BY <1>6, <1>7, <2>1
  <1>9. \E u, v : Neighbours(spec, start, result, u, v) /\ shortest = Seconds(v) - Seconds(u)
    <2>1. CASE shortest = new
      BY <1>5, <2>1
    <2>2. CASE shortest # new
      <3>1. gap # NoGap /\ shortest = gap
        BY <1>6, <1>7, <2>2
      <3>2. PICK u, v : Neighbours(spec, start, last, u, v) /\ gap = Seconds(v) - Seconds(u)
        BY <3>1 DEF Rated
      <3>3. Neighbours(spec, start, result, u, v)
        <4>1. IsAsked(spec, start, result, u) /\ IsAsked(spec, start, result, v) /\ Earlier(u, v)
          BY <1>2, <3>2 DEF Neighbours
        <4>2. ASSUME NEW w, IsAsked(spec, start, result, w), Earlier(u, w), Earlier(w, v) PROVE FALSE
          <5>1. CASE IsAsked(spec, start, last, w)
            BY <3>2, <4>2, <5>1 DEF Neighbours
          <5>2. CASE w = result
            <6>1. IsTime(v) /\ Earlier(v, result)
              BY <1>2, <3>2 DEF Neighbours
            <6>. QED BY <1>1, <4>2, <5>2, <6>1, TimesAreOrdered
          <5>. QED BY <1>2, <4>2, <5>1, <5>2
        <4>. QED BY <4>1, <4>2 DEF Neighbours
      <3>. QED BY <3>1, <3>2, <3>3
    <2>. QED BY <2>1, <2>2
  <1>10. ASSUME NEW u, NEW v, IsAsked(spec, start, result, u), IsAsked(spec, start, result, v), Earlier(u, v)
         PROVE  shortest <= Seconds(v) - Seconds(u)
    <2>1. IsTime(u) /\ IsTime(v)
      BY <1>10 DEF IsAsked, Scheduled
    <2>2. u # result
      <3>1. ~Earlier(result, v)
        BY <1>10 DEF IsAsked
      <3>. QED BY <1>10, <3>1
    <2>3. IsAsked(spec, start, last, u) /\ Seconds(u) <= Seconds(last)
      BY <1>2, <1>10, <2>2
    <2>4. CASE v = result
      <3>1. Seconds(u) \in Nat /\ new <= Seconds(v) - Seconds(u)
        BY <1>3, <2>1, <2>3, <2>4, SecondsTell
      <3>2. shortest <= new
        <4>1. CASE gap = NoGap
          BY <1>3, <1>6, <4>1
        <4>2. CASE gap # NoGap
          BY <1>7, <4>2
        <4>. QED BY <4>1, <4>2
      <3>3. shortest \in Int
        BY <1>3, <1>6, <1>7
      <3>4. Seconds(v) - Seconds(u) \in Int
        BY <1>3, <2>4, <3>1
      <3> HIDE DEF shortest, new
      <3>5. new \in Nat
        BY <1>3
      <3>. QED BY <3>1, <3>2, <3>3, <3>4, <3>5
    <2>5. CASE v # result
      <3>1. IsAsked(spec, start, last, v)
        BY <1>2, <1>10, <2>5
      <3>2. CASE gap = NoGap
        <4>1. u = last /\ v = last
          BY <2>3, <3>1, <3>2 DEF Rated
        <4>. QED BY <1>1, <1>10, <4>1, TimesAreOrdered
      <3>3. CASE gap # NoGap
        <4>1. gap <= Seconds(v) - Seconds(u)
          BY <1>10, <2>3, <3>1, <3>3 DEF Rated
        <4>2. gap \in Int /\ shortest \in Int /\ shortest <= gap
          BY <1>3, <1>7, <3>3
        <4>3. Seconds(v) - Seconds(u) \in Int
          BY <2>1, SecondsTell
        <4> HIDE DEF shortest
        <4>. QED BY <4>1, <4>2, <4>3
      <3>. QED BY <3>2, <3>3
    <2>. QED BY <2>4, <2>5
  <1> HIDE DEF shortest
  <1>11. Rated(spec, start, result, shortest)
    BY <1>2, <1>8, <1>9, <1>10 DEF Rated
  <1>. QED BY <1>11 DEF shortest

\* minRate counts the gap to the result before and asks for the next.
LEMMA minRateKeeps ==
  ASSUME CronInv, minRate
  PROVE  CronInv'
  <1>1. /\ cronPc = "returned" /\ cronResult # NoTime /\ cronResult' = cronResult
        /\ cronSpec' = cronSpec /\ cronStart' = cronStart /\ timesLeft > 0 /\ timesLeft' = timesLeft - 1
        /\ minimum' = IF timesLeft = MinRateTimes THEN minimum ELSE Shorter(minimum, Gap)
    BY DEF minRate
  <1>2. /\ Scheduled(cronSpec, cronResult) /\ PastNone(cronSpec, cronFrom, cronResult)
        /\ SpecFits(cronSpec) /\ IsTime(cronFrom) /\ IsTime(cronStart) /\ IsTime(cronResult)
        /\ timesLeft \in 0 .. MinRateTimes /\ MinRateTimes \in Nat
    BY <1>1, CronCalendar DEF CronInv, ReturnInv, FoundFirst, CronTyped, Scheduled
  <1>3. timesLeft' \in 0 .. MinRateTimes /\ timesLeft' # MinRateTimes
    BY <1>1, <1>2
  <1>4. Rated(cronSpec, cronStart, cronResult, minimum')
    <2>1. CASE timesLeft = MinRateTimes
      <3>1. cronFrom = cronStart /\ minimum' = NoGap
        BY <1>1, <2>1 DEF CronInv, RateInv
      <3>. QED BY <1>2, <3>1, FirstIsRated
    <2>2. CASE timesLeft # MinRateTimes
      <3>1. Rated(cronSpec, cronStart, cronFrom, minimum)
        BY <1>1, <2>2 DEF CronInv, RateInv, LastAsked
      <3>2. minimum' = Shorter(minimum, Seconds(cronResult) - Seconds(cronFrom))
        BY <1>1, <2>2 DEF Gap
      <3>. QED BY <1>2, <3>1, <3>2, NextIsRated
    <2>. QED BY <2>1, <2>2
  <1>5. CASE cronPc' = "rated" /\ UNCHANGED <<cronFrom, cronAt, added, yearLimit>>
    <2>1. CronTyped'
      BY <1>1, <1>2, <1>3, <1>5 DEF CronInv, CronTyped
    <2>2. WalkInv' /\ ReturnInv'
      BY <1>5 DEF WalkInv, ReturnInv, WalkLoops
    <2>3. RateInv'
      BY <1>1, <1>3, <1>4, <1>5 DEF RateInv, LastAsked
    <2>. QED BY <2>1, <2>2, <2>3 DEF CronInv
  <1>6. CASE Begin(cronResult)
    <2>1. /\ cronFrom' = cronResult /\ cronAt' = AddSecond(cronResult) /\ added' = FALSE
          /\ yearLimit' = AddSecond(cronResult).y + YearsAhead /\ cronPc' = "wrap"
      BY <1>6 DEF Begin
    <2>2. PastNone(cronSpec, cronResult, AddSecond(cronResult)) /\ AddSecond(cronResult).y \in Nat
      BY <1>2, BeginsPast
    <2>3. yearLimit' \in Nat
      BY <2>1, <2>2, CronCalendar
    <2>4. CronTyped'
      BY <1>1, <1>2, <1>3, <2>1, <2>3 DEF CronTyped, WalkLoops
    <2>5. WalkInv'
      BY <1>1, <2>1, <2>2 DEF WalkInv, Matched
    <2>6. ReturnInv'
      BY <2>1 DEF ReturnInv
    <2>7. RateInv'
      BY <1>1, <1>3, <1>4, <2>1 DEF RateInv, LastAsked
    <2>. QED BY <2>4, <2>5, <2>6, <2>7 DEF CronInv
  <1>. QED BY <1>5, <1>6 DEF minRate

\* Every step keeps the invariant.
LEMMA CronSteps ==
  ASSUME CronInv, CronNext
  PROVE  CronInv'
  BY WrapKeeps, MonthStepKeeps, DayStepKeeps, HourStepKeeps, MinuteStepKeeps, SecondStepKeeps,
     NextFieldKeeps, ReturnKeeps, minRateKeeps DEF CronNext

\* A step of another part keeps it.
LEMMA CronRests ==
  ASSUME CronInv, UNCHANGED cronVars
  PROVE  CronInv'
  <1>1. CronTyped'
    BY DEF CronInv, CronTyped, cronVars
  <1>2. WalkInv'
    BY DEF CronInv, WalkInv, cronVars
  <1>3. ReturnInv'
    BY DEF CronInv, ReturnInv, cronVars
  <1>4. RateInv'
    BY DEF CronInv, RateInv, LastAsked, cronVars
  <1>. QED BY <1>1, <1>2, <1>3, <1>4 DEF CronInv

\* What Next returns is the first of all scheduled times of those years.
LEMMA FirstIsNext ==
  ASSUME CronInv
  PROVE  NextIsFirst
  <1> SUFFICES ASSUME cronPc = "returned" PROVE NextIsFirst
    BY DEF NextIsFirst
  <1> DEFINE later == {t \in UNION {TimesOf(y) : y \in cronFrom.y .. yearLimit} :
                          Seconds(t) > Seconds(cronFrom)}
  <1>1. /\ FoundFirst(cronSpec, cronFrom, yearLimit, cronResult)
        /\ SpecFits(cronSpec) /\ IsTime(cronFrom) /\ yearLimit \in Nat /\ cronFrom.y \in Nat
    BY TimeIs DEF CronInv, ReturnInv, CronTyped
  <1>2. ASSUME NEW t
        PROVE  t \in later <=> Scheduled(cronSpec, t) /\ Earlier(cronFrom, t) /\ t.y <= yearLimit
    <2>1. ASSUME t \in later PROVE Scheduled(cronSpec, t) /\ Earlier(cronFrom, t) /\ t.y <= yearLimit
      <3>1. PICK y \in cronFrom.y .. yearLimit : t \in TimesOf(y)
        BY <2>1
      <3>2. y \in Nat /\ y <= yearLimit
        BY <1>1
      <3>3. Scheduled(cronSpec, t) /\ t.y = y
        BY <1>1, <3>1, <3>2, TimesOfIs
      <3>4. Seconds(t) > Seconds(cronFrom)
        BY <2>1
      <3>5. Earlier(cronFrom, t)
        BY <1>1, <3>3, <3>4, SecondsTell DEF Scheduled
      <3>. QED BY <3>2, <3>3, <3>5
    <2>2. ASSUME Scheduled(cronSpec, t), Earlier(cronFrom, t), t.y <= yearLimit PROVE t \in later
      <3>1. IsTime(t) /\ t.y \in Nat
        BY <2>2, TimeIs DEF Scheduled
      <3>2. cronFrom.y <= t.y
        BY <1>1, <2>2, <3>1
           DEF Earlier, MinuteBefore, HourBefore, DayBefore, MonthBefore, SameMinute, SameHour, SameDay, SameMonth
      <3>3. t \in TimesOf(t.y)
        BY <1>1, <2>2, <3>1, TimesOfIs
      <3>4. t.y \in cronFrom.y .. yearLimit
        BY <1>1, <2>2, <3>1, <3>2
      <3>5. Seconds(t) > Seconds(cronFrom)
        BY <1>1, <2>2, <3>1, SecondsTell
      <3>. QED BY <3>3, <3>4, <3>5
    <2>. QED BY <2>1, <2>2
  <1> HIDE DEF later
  <1>3. CASE cronResult = NoTime
    <2>1. \A t : ~(t \in later)
      <3>1. ASSUME NEW t, t \in later PROVE FALSE
        <4>1. Scheduled(cronSpec, t) /\ t.y <= yearLimit /\ t.y > yearLimit
          BY <1>1, <1>2, <1>3, <3>1 DEF FoundFirst
        <4>2. t.y \in Nat
          BY <4>1, TimeIs DEF Scheduled
        <4>. QED BY <1>1, <4>1, <4>2
      <3>. QED BY <3>1
    <2>2. later = {}
      BY <2>1
    <2>. QED BY <1>3, <2>2 DEF NextIsFirst, later
  <1>4. CASE cronResult # NoTime
    <2>1. /\ Scheduled(cronSpec, cronResult) /\ PastNone(cronSpec, cronFrom, cronResult)
          /\ cronResult.y <= yearLimit
      BY <1>1, <1>4 DEF FoundFirst
    <2>2. cronResult \in later
      BY <1>2, <2>1 DEF PastNone
    <2>3. ASSUME NEW t \in later PROVE Seconds(t) \in Int /\ Seconds(cronResult) <= Seconds(t)
      <3>1. IsTime(t) /\ ~Earlier(t, cronResult) /\ IsTime(cronResult)
        BY <1>2, <2>1 DEF Scheduled, PastNone
      <3>. QED BY <3>1, SecondsTell
    <2>4. Min({Seconds(t) : t \in later}) = Seconds(cronResult)
      <3> DEFINE S == {Seconds(t) : t \in later}
      <3>1. S \in SUBSET Int /\ Seconds(cronResult) \in S /\ \A s \in S : Seconds(cronResult) <= s
        BY <2>2, <2>3
      <3> HIDE DEF S
      <3>2. Min(S) = Seconds(cronResult)
        BY <3>1, SmallestIsMin
      <3>. QED BY <3>2 DEF S
    <2>. QED BY <1>4, <2>2, <2>4 DEF NextIsFirst, later
  <1>. QED BY <1>3, <1>4

\* What minRate has counted is the shortest gap in the search of all times.
LEMMA RateIsShortest ==
  ASSUME CronInv
  PROVE  MinRateIsShortest
  <1> SUFFICES ASSUME minimum # NoGap, cronPc \in {"returned", "rated"} PROVE MinRateIsShortest
    BY DEF MinRateIsShortest
  <1> DEFINE times == {Seconds(t) : t \in UNION {TimesOf(y) : y \in cronStart.y .. LastAsked.y}}
             asked == {u \in times : Seconds(cronStart) < u /\ u <= Seconds(LastAsked)}
             pairs == {p \in asked \X asked : p[1] < p[2] /\ ~\E c \in asked : p[1] < c /\ c < p[2]}
             gaps == {q[2] - q[1] : q \in pairs}
             Asked(u) == IsAsked(cronSpec, cronStart, LastAsked, u)
  <1>1. /\ Rated(cronSpec, cronStart, LastAsked, minimum)
        /\ SpecFits(cronSpec) /\ IsTime(cronStart) /\ IsTime(LastAsked)
        /\ Earlier(cronStart, LastAsked)
    BY DEF CronInv, RateInv, CronTyped, Rated, Scheduled
  <1>2. cronStart.y \in Nat /\ LastAsked.y \in Nat
    BY <1>1, TimeIs
  <1>3. ASSUME NEW u, Asked(u) PROVE IsTime(u) /\ Seconds(u) \in asked
    <2>1. Scheduled(cronSpec, u) /\ Earlier(cronStart, u) /\ ~Earlier(LastAsked, u) /\ IsTime(u) /\ u.y \in Nat
      BY <1>3, TimeIs DEF IsAsked, Scheduled
    <2>2. cronStart.y <= u.y /\ u.y <= LastAsked.y
      <3>1. cronStart.y <= u.y
        BY <1>2, <2>1
           DEF Earlier, MinuteBefore, HourBefore, DayBefore, MonthBefore, SameMinute, SameHour, SameDay, SameMonth
      <3>2. ~(LastAsked.y < u.y)
        BY <2>1 DEF Earlier, MinuteBefore, HourBefore, DayBefore, MonthBefore
      <3>. QED BY <1>2, <2>1, <3>1, <3>2
    <2>3. u \in TimesOf(u.y) /\ u.y \in cronStart.y .. LastAsked.y
      BY <1>1, <1>2, <2>1, <2>2, TimesOfIs
    <2>4. Seconds(u) \in times
      BY <2>3
    <2>5. Seconds(cronStart) < Seconds(u) /\ Seconds(u) <= Seconds(LastAsked)
      BY <1>1, <2>1, SecondsTell
    <2>. QED BY <2>1, <2>4, <2>5
  <1>4. ASSUME NEW k \in asked PROVE \E u : Asked(u) /\ k = Seconds(u)
    <2>1. PICK y \in cronStart.y .. LastAsked.y : \E u \in TimesOf(y) : k = Seconds(u)
      BY <1>4
    <2> PICK u \in TimesOf(y) : k = Seconds(u)
      BY <2>1
    <2>2. y \in Nat
      BY <1>2
    <2>3. Scheduled(cronSpec, u) /\ IsTime(u)
      BY <1>1, <2>2, TimesOfIs DEF Scheduled
    <2>4. Seconds(cronStart) < Seconds(u) /\ Seconds(u) <= Seconds(LastAsked)
      BY <2>1
    <2>5. Earlier(cronStart, u) /\ ~Earlier(LastAsked, u)
      BY <1>1, <2>3, <2>4, SecondsTell
    <2>. QED BY <2>1, <2>3, <2>5 DEF IsAsked
  <1>5. asked \in SUBSET Nat
    BY <1>3, <1>4, SecondsTell
  <1> HIDE DEF asked
  <1>6. minimum \in gaps
    <2>1. PICK u, v : Neighbours(cronSpec, cronStart, LastAsked, u, v) /\ minimum = Seconds(v) - Seconds(u)
      BY <1>1 DEF Rated
    <2>2. /\ Asked(u) /\ Asked(v) /\ Earlier(u, v)
          /\ \A w : Asked(w) => ~(Earlier(u, w) /\ Earlier(w, v))
      BY <2>1 DEF Neighbours
    <2>3. Seconds(u) \in asked /\ Seconds(v) \in asked /\ IsTime(u) /\ IsTime(v)
      BY <1>3, <2>2
    <2>4. ASSUME NEW c \in asked, Seconds(u) < c, c < Seconds(v) PROVE FALSE
      <3>1. PICK w : Asked(w) /\ c = Seconds(w)
        BY <1>4
      <3>2. IsTime(w)
        BY <1>3, <3>1
      <3>3. Earlier(u, w) /\ Earlier(w, v)
        BY <2>3, <2>4, <3>1, <3>2, SecondsTell
      <3>. QED BY <2>2, <3>1, <3>3
    <2>5. Seconds(u) < Seconds(v)
      BY <2>2, <2>3, SecondsTell
    <2>6. <<Seconds(u), Seconds(v)>> \in pairs
      BY <2>3, <2>4, <2>5
    <2>. QED BY <2>1, <2>6
  <1>7. ASSUME NEW g \in gaps PROVE g \in Int /\ minimum <= g
    <2>1. PICK q \in pairs : g = q[2] - q[1]
      OBVIOUS
    <2>2. q[1] \in asked /\ q[2] \in asked /\ q[1] < q[2]
      OBVIOUS
    <2>3. PICK u, v : Asked(u) /\ q[1] = Seconds(u) /\ Asked(v) /\ q[2] = Seconds(v)
      BY <1>4, <2>2
    <2>4. IsTime(u) /\ IsTime(v)
      BY <1>3, <2>3
    <2>5. Earlier(u, v)
      BY <2>2, <2>3, <2>4, SecondsTell
    <2>6. minimum <= Seconds(v) - Seconds(u)
      BY <1>1, <2>3, <2>5 DEF Rated
    <2>7. Seconds(v) - Seconds(u) \in Int
      BY <2>4, SecondsTell
    <2>. QED BY <2>1, <2>3, <2>6, <2>7
  <1>8. gaps \in SUBSET Int /\ \A g \in gaps : minimum <= g
    BY <1>7
  <1> HIDE DEF gaps
  <1>9. Min(gaps) = minimum
    BY <1>6, <1>8, SmallestIsMin
  <1>. QED BY <1>9 DEF MinRateIsShortest, gaps, asked, LastAsked

\* Whatever the calendar, the expression and the time asked about, Next returns
\* the first scheduled time after it, or finds none in the years it looks at,
\* and minRate the shortest gap between the times it was given (robfig
\* SpecSchedule.Next, expression.go).
THEOREM CronRight ==
  ServicesSpec => []CronSound
  <1> DEFINE I == part = "cron" => CronInv
  <1>1. ServicesInit => I
    BY CronStarted DEF ServicesInit
  <1>2. I /\ [ServicesNext]_servicesVars => I'
    <2> SUFFICES ASSUME part' = "cron", I, [ServicesNext]_servicesVars PROVE CronInv'
      OBVIOUS
    <2>1. part = "cron"
      BY DEF ServicesNext, servicesVars
    <2>2. CronNext \/ UNCHANGED cronVars
      BY <2>1 DEF ServicesNext, servicesVars
    <2>. QED BY <2>1, <2>2, CronSteps, CronRests
  <1>3. I => CronSound
    BY FirstIsNext, RateIsShortest DEF CronSound
  <1>. QED BY <1>1, <1>2, <1>3, PTL DEF ServicesSpec

=============================================================================
