--------------------------- MODULE ServicesProofs ---------------------------
(***************************************************************************)
(* Proofs about what the library keeps besides its groups, for every size  *)
(* of their instances: retention, compaction heads, the streams' registry, *)
(* schema versions, schedules, and the lab's manager and consumers.  Each  *)
(* component has its own invariant; the services put side by side satisfy  *)
(* the one of the component a behaviour is about.                          *)
(***************************************************************************)
EXTENDS MCServices, SumLemmas, SequenceTheorems, FunctionTheorems

-----------------------------------------------------------------------------
(* Retention. *)

RetentionType ==
    /\ lastId \in 0 .. MaxId
    /\ row \in [Id -> {"unused", "open", "in", "burned", "out"}]
    /\ partitions \in SUBSET Nat
    /\ headOf \in [CompactionKey -> {EmptyHead} \cup 0 .. MaxId]
    /\ exception \in [Id -> {"none", "ready", "dead"}]
    /\ held \in SUBSET Id
    /\ claimedTo \in 0 .. MaxId /\ committedTo \in 0 .. MaxId
    /\ settledIds \in SUBSET Id
    /\ jan \in [pc : {"idle", "chosen", "drop_heads", "drop", "sweep_heads", "sweep"},
                part : Nat, ids : SUBSET Id, heads : SUBSET CompactionKey,
                exceptions : SUBSET Id]

\* Whatever lies at or below the claimed mark is decided: its transaction has
\* ended and no id is drawn there any more.
DecidedInv ==
    /\ claimedTo <= lastId
    /\ \A i \in Id : /\ i > lastId <=> row[i] = "unused"
                     /\ i <= claimedTo => row[i] # "open"

\* What the group still owes lies above the committed mark and below the
\* claimed one, and is in the log; what is gone lies below both and is settled,
\* and so is whatever was claimed and is owed no more.
OwedInv ==
    /\ committedTo <= claimedTo
    /\ \A i \in held : committedTo < i /\ i <= claimedTo /\ row[i] = "in"
    /\ \A i \in Id : /\ exception[i] # "none" => row[i] = "in" /\ i <= claimedTo
                     /\ exception[i] = "ready" => committedTo < i
                     /\ row[i] = "out" => i <= committedTo /\ i \in settledIds
                     /\ row[i] = "in" /\ i <= claimedTo =>
                          i \in held \/ exception[i] = "ready" \/ i \in settledIds

\* A transaction of the janitor is about resolved ids only, so the exception
\* rows it saw are all there will be, and no later commit puts a head there.
JanitorInv ==
    /\ jan.pc \in {"idle", "chosen"} => jan.ids = {}
    /\ jan.exceptions \subseteq jan.ids
    /\ \A i \in jan.ids : /\ i <= committedTo
                          /\ exception[i] # "none" => i \in jan.exceptions
    /\ jan.pc \in {"drop", "sweep"} =>
         \A k \in CompactionKey : headOf[k] \in jan.ids => k \in jan.heads

RetentionInv ==
    RetentionType /\ DecidedInv /\ OwedInv /\ JanitorInv /\ NoDanglingHead

\* The invariant says of a message that is gone, or whose exception is open,
\* what the properties ask.
LEMMA RetentionSafe ==
  RetentionInv => RemovedIsResolved /\ NoOrphanException /\ NoDanglingHead
  BY DEF RetentionInv, RetentionType, OwedInv, RemovedIsResolved, NoOrphanException, Id

\* An empty log owes nothing.
LEMMA RetentionStarts == RetentionInit => RetentionInv
  <1> SUFFICES ASSUME RetentionInit PROVE RetentionInv
    OBVIOUS
  <1>1. RetentionType
    BY RetentionBounds DEF RetentionInit, RetentionType, IdleJanitor, NoHead, EmptyHead
  <1>2. DecidedInv /\ OwedInv /\ JanitorInv /\ NoDanglingHead
    BY RetentionBounds DEF RetentionInit, DecidedInv, OwedInv, JanitorInv, NoDanglingHead,
       IdleJanitor, Id, NoHead
  <1>. QED BY <1>1, <1>2 DEF RetentionInv

\* The ids of a partition end where lastIdInPartition says.
LEMMA PartitionEnds ==
  ASSUME NEW n \in Nat, NEW i \in InPartition(n)
  PROVE  i <= LastIdInPartition(n)
  <1>1. i \in Nat /\ IdsPerPartition \in Nat /\ IdsPerPartition > 0 /\ i \div IdsPerPartition = n
    BY RetentionBounds DEF InPartition, PartitionOf, Id
  <1>2. i = (IdsPerPartition * n) + (i % IdsPerPartition) /\ i % IdsPerPartition < IdsPerPartition
    BY <1>1
  <1>3. IdsPerPartition * n \in Nat /\ (n + 1) * IdsPerPartition = IdsPerPartition * n + IdsPerPartition
    BY <1>1
  <1>. QED BY <1>1, <1>2, <1>3 DEF LastIdInPartition

\* No step of the producers, the group or the janitor breaks it, as long as
\* nothing may be dropped past the committed mark.
LEMMA RetentionStep ==
  ASSUME ~AllowDropPastCommitted, RetentionInv, RetentionNext
  PROVE  RetentionInv'
  <1> USE RetentionBounds DEF Id
  <1>t. RetentionType /\ DecidedInv /\ OwedInv /\ JanitorInv /\ NoDanglingHead
    BY DEF RetentionInv
  <1>1. CASE OpenInsert
    <2>1. /\ lastId' = lastId + 1 /\ lastId' \in Id
          /\ row' = [row EXCEPT ![lastId'] = "open"]
          /\ partitions' = partitions \cup {PartitionOf(lastId')}
          /\ UNCHANGED <<headOf, groupVars, jan>>
      BY <1>1, <1>t DEF OpenInsert, RetentionType
    <2>2. PartitionOf(lastId') \in Nat
      BY <2>1 DEF PartitionOf
    <2>3. RetentionType'
      <3>1. row' \in [Id -> {"unused", "open", "in", "burned", "out"}]
        BY <1>t, <2>1 DEF RetentionType
      <3>2. partitions' \in SUBSET Nat
        BY <1>t, <2>1, <2>2 DEF RetentionType
      <3>3. lastId' \in 0 .. MaxId
        BY <2>1
      <3>. QED BY <1>t, <2>1, <3>1, <3>2, <3>3 DEF RetentionType, groupVars
    <2>4. row[lastId'] = "unused"
      BY <1>t, <2>1 DEF DecidedInv, RetentionType
    <2>5. DecidedInv'
      BY <1>t, <2>1 DEF DecidedInv, RetentionType, groupVars
    <2>6. OwedInv' /\ JanitorInv' /\ NoDanglingHead'
      BY <1>t, <2>1, <2>4 DEF OwedInv, JanitorInv, NoDanglingHead, RetentionType, groupVars, EmptyHead
    <2>. QED BY <2>3, <2>5, <2>6 DEF RetentionInv
  <1>2. ASSUME NEW i \in Id, CommitInsert(i) PROVE RetentionInv'
    <2>1. /\ row[i] = "open" /\ row' = [row EXCEPT ![i] = "in"]
          /\ headOf' = [k \in CompactionKey |->
                          IF k = KeyAt[i] /\ headOf[k] < i THEN i ELSE headOf[k]]
          /\ UNCHANGED <<lastId, partitions, groupVars, jan>>
      BY <1>2 DEF CommitInsert
    <2>2. RetentionType'
      BY <1>t, <2>1 DEF RetentionType, groupVars
    <2>3. i > claimedTo
      BY <1>t, <2>1 DEF DecidedInv, RetentionType
    <2>4. DecidedInv' /\ OwedInv'
      BY <1>t, <2>1 DEF DecidedInv, OwedInv, RetentionType, groupVars
    <2>5. JanitorInv'
      BY <1>t, <2>1, <2>3 DEF JanitorInv, OwedInv, RetentionType, groupVars
    <2>6. NoDanglingHead'
      BY <1>t, <2>1 DEF NoDanglingHead, RetentionType, EmptyHead
    <2>. QED BY <2>2, <2>4, <2>5, <2>6 DEF RetentionInv
  <1>3. ASSUME NEW i \in Id, RollBackInsert(i) PROVE RetentionInv'
    <2>1. /\ row[i] = "open" /\ row' = [row EXCEPT ![i] = "burned"]
          /\ UNCHANGED <<lastId, partitions, headOf, groupVars, jan>>
      BY <1>3 DEF RollBackInsert
    <2>2. RetentionType'
      BY <1>t, <2>1 DEF RetentionType, groupVars
    <2>3. DecidedInv' /\ OwedInv' /\ JanitorInv'
      BY <1>t, <2>1 DEF DecidedInv, OwedInv, JanitorInv, RetentionType, groupVars
    <2>4. NoDanglingHead'
      BY <1>t, <2>1 DEF NoDanglingHead, RetentionType, EmptyHead
    <2>. QED BY <2>2, <2>3, <2>4 DEF RetentionInv
  <1>4. ASSUME NEW i \in Id, Age(i) PROVE RetentionInv'
    BY <1>t, <1>4 DEF Age, RetentionInv, RetentionType, DecidedInv, OwedInv, JanitorInv,
       NoDanglingHead, groupVars
  <1>5. ASSUME NEW k \in CompactionKey, LockEmptyHead(k) \/ SweepEmptyHead(k) PROVE RetentionInv'
    <2>1. PICK h \in {EmptyHead, NoHead} : headOf' = [headOf EXCEPT ![k] = h]
      BY <1>5 DEF LockEmptyHead, SweepEmptyHead
    <2>2. UNCHANGED <<lastId, row, partitions, groupVars, jan>>
      BY <1>5 DEF LockEmptyHead, SweepEmptyHead
    <2>3. RetentionType'
      BY <1>t, <2>1, <2>2 DEF RetentionType, groupVars, NoHead
    <2>4. DecidedInv' /\ OwedInv'
      BY <1>t, <2>2 DEF DecidedInv, OwedInv, groupVars
    <2>5. JanitorInv' /\ NoDanglingHead'
      BY <1>t, <2>1, <2>2 DEF JanitorInv, NoDanglingHead, RetentionType, groupVars, NoHead, EmptyHead
    <2>. QED BY <2>3, <2>4, <2>5 DEF RetentionInv
  <1>6. CASE ClaimNext
    <2>1. /\ claimedTo < lastId /\ row[claimedTo + 1] # "open" /\ claimedTo' = claimedTo + 1
          /\ held' = IF row[claimedTo'] = "in" THEN held \cup {claimedTo'} ELSE held
          /\ UNCHANGED <<lastId, row, partitions, headOf, exception, committedTo, settledIds, jan>>
      BY <1>6 DEF ClaimNext, rowVars
    <2>2. RetentionType'
      BY <1>t, <2>1 DEF RetentionType
    <2>3. DecidedInv' /\ OwedInv'
      BY <1>t, <2>1 DEF DecidedInv, OwedInv, RetentionType
    <2>4. JanitorInv' /\ NoDanglingHead'
      BY <1>t, <2>1 DEF JanitorInv, NoDanglingHead
    <2>. QED BY <2>2, <2>3, <2>4 DEF RetentionInv
  <1>7. CASE AdvanceMark
    <2> DEFINE S == {i - 1 : i \in held \cup Unresolved} \cup {claimedTo}
    <2>1. /\ committedTo' = Max({committedTo, Min(S)})
          /\ UNCHANGED <<lastId, row, partitions, headOf, exception, held, claimedTo, settledIds, jan>>
      BY <1>7 DEF AdvanceMark, rowVars
    <2>2. S \in SUBSET Nat /\ claimedTo \in S
      BY <1>t DEF RetentionType, Unresolved
    <2>i. \A i \in held \cup Unresolved : i \in Nat /\ i - 1 \in S
      BY <1>t DEF RetentionType, Unresolved
    <2> HIDE DEF S
    <2>3. Min(S) \in S /\ \A x \in S : Min(S) <= x
      BY <2>2, MinOfNaturals
    <2>5. Min(S) \in Nat
      BY <2>2, <2>3
    <2>4. Min(S) <= claimedTo /\ \A i \in held \cup Unresolved : Min(S) < i
      <3>1. \A i \in held \cup Unresolved : Min(S) <= i - 1
        BY <2>3, <2>i
      <3>. QED BY <2>2, <2>3, <2>5, <2>i, <3>1
    <2>6. /\ Max({committedTo, Min(S)}) \in {committedTo, Min(S)}
          /\ Max({committedTo, Min(S)}) >= committedTo
      <3>1. {committedTo, Min(S)} \in SUBSET Nat /\ \A x \in {committedTo, Min(S)} : x <= claimedTo
        BY <1>t, <2>4, <2>5 DEF RetentionType, OwedInv
      <3>2. {committedTo, Min(S)} # {} /\ claimedTo \in Nat
        BY <1>t DEF RetentionType
      <3>3. /\ Max({committedTo, Min(S)}) \in {committedTo, Min(S)}
            /\ \A x \in {committedTo, Min(S)} : x <= Max({committedTo, Min(S)})
        BY <3>1, <3>2, MaxOfNaturals
      <3>. QED BY <1>t, <2>5, <3>3 DEF RetentionType
    <2>7. /\ committedTo' \in 0 .. MaxId /\ committedTo <= committedTo' /\ committedTo' <= claimedTo
          /\ \A i \in held \cup Unresolved : committedTo' < i
      <3>1. \A i \in held \cup Unresolved : i \in Nat /\ committedTo < i
        BY <1>t DEF RetentionType, OwedInv, Unresolved
      <3>2. committedTo' \in {committedTo, Min(S)} /\ committedTo' >= committedTo
        BY <2>1, <2>6
      <3>3. /\ committedTo \in 0 .. MaxId /\ claimedTo \in 0 .. MaxId /\ committedTo <= claimedTo
        BY <1>t DEF RetentionType, OwedInv
      <3>4. \A i \in held \cup Unresolved : committedTo' < i
        BY <2>4, <3>1, <3>2
      <3>. QED BY <2>4, <2>5, <3>2, <3>3, <3>4
    <2>8. RetentionType'
      BY <1>t, <2>1, <2>7 DEF RetentionType
    <2>9. DecidedInv' /\ OwedInv'
      <3>1. \A i \in Id : exception[i] = "ready" => committedTo' < i
        BY <2>7 DEF Unresolved
      <3>2. \A i \in held : committedTo' < i
        BY <2>7
      <3>3. \A i \in Id : i <= committedTo => i <= committedTo'
        BY <1>t, <2>7 DEF RetentionType
      <3>4. DecidedInv'
        BY <1>t, <2>1 DEF DecidedInv
      <3>. QED BY <1>t, <2>1, <2>7, <3>1, <3>2, <3>3, <3>4 DEF OwedInv
    <2>10. JanitorInv' /\ NoDanglingHead'
      BY <1>t, <2>1, <2>7 DEF JanitorInv, NoDanglingHead, RetentionType
    <2>. QED BY <2>8, <2>9, <2>10 DEF RetentionInv
  <1>8. ASSUME NEW i \in Id, NEW o \in {"none", "ready", "dead"}, RecordOutcome(i, o)
        PROVE  RetentionInv'
    <2>1. /\ i \in held /\ held' = held \ {i} /\ exception' = [exception EXCEPT ![i] = o]
          /\ settledIds' = IF o = "ready" THEN settledIds ELSE settledIds \cup {i}
          /\ UNCHANGED <<lastId, row, partitions, headOf, claimedTo, committedTo, jan>>
      BY <1>8 DEF RecordOutcome, rowVars, Settles
    <2>2. RetentionType'
      BY <1>t, <2>1 DEF RetentionType
    <2>3. i \notin jan.ids
      BY <1>t, <2>1 DEF OwedInv, JanitorInv, RetentionType
    <2>4. DecidedInv' /\ OwedInv'
      BY <1>t, <2>1 DEF DecidedInv, OwedInv, RetentionType
    <2>5. JanitorInv' /\ NoDanglingHead'
      BY <1>t, <2>1, <2>3 DEF JanitorInv, NoDanglingHead, RetentionType
    <2>. QED BY <2>2, <2>4, <2>5 DEF RetentionInv
  <1>9. ASSUME NEW i \in Id, NEW o \in {"none", "dead"}, ResolveException(i, o)
        PROVE  RetentionInv'
    <2>1. /\ exception[i] = "ready" /\ exception' = [exception EXCEPT ![i] = o]
          /\ settledIds' = settledIds \cup {i}
          /\ UNCHANGED <<lastId, row, partitions, headOf, held, claimedTo, committedTo, jan>>
      BY <1>9 DEF ResolveException, rowVars, Settles
    <2>2. RetentionType'
      BY <1>t, <2>1 DEF RetentionType
    <2>3. i \notin jan.ids
      BY <1>t, <2>1 DEF OwedInv, JanitorInv, RetentionType
    <2>4. DecidedInv' /\ OwedInv'
      BY <1>t, <2>1 DEF DecidedInv, OwedInv, RetentionType
    <2>5. JanitorInv' /\ NoDanglingHead'
      BY <1>t, <2>1, <2>3 DEF JanitorInv, NoDanglingHead, RetentionType
    <2>. QED BY <2>2, <2>4, <2>5 DEF RetentionInv
  <1>10. ASSUME UNCHANGED <<lastId, row, partitions, headOf, groupVars>>,
                RetentionType', JanitorInv'
         PROVE  RetentionInv'
    BY <1>t, <1>10 DEF RetentionInv, DecidedInv, OwedInv, NoDanglingHead, groupVars
  <1>i. /\ IdleJanitor \in [pc : {"idle"}, part : Nat, ids : SUBSET Id,
                            heads : SUBSET CompactionKey, exceptions : SUBSET Id]
        /\ IdleJanitor.pc = "idle" /\ IdleJanitor.ids = {} /\ IdleJanitor.exceptions = {}
    BY DEF IdleJanitor
  <1>11. ASSUME NEW n \in partitions, ChooseDrop(n) PROVE RetentionInv'
    <2>1. /\ jan.pc = "idle" /\ jan' = [jan EXCEPT !.pc = "chosen", !.part = n]
          /\ UNCHANGED <<lastId, row, partitions, headOf, groupVars>> /\ n \in Nat
      BY <1>11, <1>t DEF ChooseDrop, rowVars, RetentionType
    <2>2. RetentionType'
      BY <1>t, <2>1 DEF RetentionType, groupVars
    <2>3. JanitorInv'
      BY <1>t, <2>1 DEF JanitorInv, RetentionType
    <2>. QED BY <1>10, <2>1, <2>2, <2>3
  <1>12. ASSUME NEW n \in partitions, BeginSweep(n) PROVE RetentionInv'
    <2> DEFINE rowsIn == InPartition(n) \cap Visible
               doomed == Lowest({i \in rowsIn \cap aged : i <= cursorFloor})
    <2>1. /\ jan.pc = "idle"
          /\ jan' = [jan EXCEPT !.pc = "sweep_heads", !.ids = doomed, !.exceptions = ExceptionRows(doomed)]
          /\ UNCHANGED <<lastId, row, partitions, headOf, groupVars>>
      BY <1>12 DEF BeginSweep, rowVars
    <2>2. doomed \in SUBSET Id /\ \A i \in doomed : i <= committedTo
      BY DEF Lowest, Visible, cursorFloor
    <2> HIDE DEF doomed
    <2>3. /\ ExceptionRows(doomed) \in SUBSET Id /\ ExceptionRows(doomed) \subseteq doomed
          /\ \A i \in doomed : exception[i] # "none" => i \in ExceptionRows(doomed)
      BY <2>2 DEF ExceptionRows
    <2>4. RetentionType'
      BY <1>t, <2>1, <2>2, <2>3 DEF RetentionType, groupVars
    <2>5. JanitorInv'
      BY <1>t, <2>1, <2>2, <2>3 DEF JanitorInv, RetentionType, groupVars
    <2>. QED BY <1>10, <2>1, <2>4, <2>5
  <1>13. CASE BeginDrop
    <2> DEFINE ids == InPartition(jan.part)
    <2>1. CASE jan' = IdleJanitor /\ UNCHANGED <<lastId, row, partitions, headOf, groupVars>>
      BY <1>t, <1>10, <1>i, <2>1 DEF RetentionType, JanitorInv, groupVars
    <2>2. CASE /\ LastIdInPartition(jan.part) <= cursorFloor
               /\ jan' = [jan EXCEPT !.pc = "drop_heads", !.ids = ids, !.exceptions = ExceptionRows(ids)]
               /\ UNCHANGED <<lastId, row, partitions, headOf, groupVars>>
      <3>1. ids \in SUBSET Id /\ \A i \in ids : i <= committedTo
        <4>1. jan.part \in Nat /\ LastIdInPartition(jan.part) \in Int /\ committedTo \in Nat
          BY <1>t DEF RetentionType, LastIdInPartition
        <4>2. \A i \in ids : i <= LastIdInPartition(jan.part) /\ i \in Nat
          BY <4>1, PartitionEnds DEF InPartition
        <4>3. LastIdInPartition(jan.part) <= committedTo
          BY <2>2 DEF cursorFloor
        <4>. QED BY <4>1, <4>2, <4>3 DEF InPartition
      <3> HIDE DEF ids
      <3>2. /\ ExceptionRows(ids) \in SUBSET Id /\ ExceptionRows(ids) \subseteq ids
            /\ \A i \in ids : exception[i] # "none" => i \in ExceptionRows(ids)
        BY <3>1 DEF ExceptionRows
      <3>3. RetentionType'
        BY <1>t, <2>2, <3>1, <3>2 DEF RetentionType, groupVars
      <3>4. JanitorInv'
        BY <1>t, <2>2, <3>1, <3>2 DEF JanitorInv, RetentionType, groupVars
      <3>. QED BY <1>10, <2>2, <3>3, <3>4
    <2>3. LastIdInPartition(jan.part) \in Int /\ cursorFloor \in Int
      BY <1>t DEF RetentionType, LastIdInPartition, cursorFloor
    <2>. QED BY <1>13, <2>1, <2>2, <2>3 DEF BeginDrop, rowVars
  <1>14. CASE DeleteHeads
    <2>1. PICK pc \in {"drop", "sweep"} : jan' = [jan EXCEPT !.pc = pc, !.heads = OrphanedHeads]
      BY <1>14 DEF DeleteHeads
    <2>2. UNCHANGED <<lastId, row, partitions, headOf, groupVars>>
      BY <1>14 DEF DeleteHeads, rowVars
    <2>3. RetentionType'
      <3>1. OrphanedHeads \in SUBSET CompactionKey
        BY DEF OrphanedHeads
      <3>2. jan' \in [pc : {"idle", "chosen", "drop_heads", "drop", "sweep_heads", "sweep"},
                      part : Nat, ids : SUBSET Id, heads : SUBSET CompactionKey,
                      exceptions : SUBSET Id]
        BY <1>t, <2>1, <3>1 DEF RetentionType
      <3>. QED BY <1>t, <2>2, <3>2 DEF RetentionType, groupVars
    <2>4. JanitorInv'
      <3>1. /\ jan'.pc = pc /\ jan'.ids = jan.ids /\ jan'.exceptions = jan.exceptions
            /\ jan'.heads = OrphanedHeads
        BY <1>t, <2>1 DEF RetentionType
      <3>2. \A k \in CompactionKey : headOf'[k] \in jan.ids => k \in OrphanedHeads
        BY <2>2 DEF OrphanedHeads
      <3>3. jan.exceptions \subseteq jan.ids /\ committedTo' = committedTo /\ exception' = exception
        BY <1>t, <2>2 DEF JanitorInv, groupVars
      <3>4. \A i \in jan.ids : i <= committedTo /\ (exception[i] # "none" => i \in jan.exceptions)
        BY <1>t DEF JanitorInv
      <3>. QED BY <2>1, <3>1, <3>2, <3>3, <3>4 DEF JanitorInv
    <2>. QED BY <1>10, <2>2, <2>3, <2>4
  <1>15. CASE AbortJanitor
    <2>1. jan' = IdleJanitor /\ UNCHANGED <<lastId, row, partitions, headOf, groupVars>>
      BY <1>15 DEF AbortJanitor, rowVars
    <2>. QED BY <1>t, <1>10, <1>i, <2>1 DEF RetentionType, JanitorInv, groupVars
  <1>16. CASE DropPartition \/ CommitSweep
    <2>1. /\ jan.pc \in {"drop", "sweep"} /\ partitions' \in SUBSET Nat
          /\ row' = [i \in Id |-> IF i \in jan.ids /\ row[i] = "in" THEN "out" ELSE row[i]]
          /\ headOf' = [k \in CompactionKey |-> IF k \in jan.heads THEN NoHead ELSE headOf[k]]
          /\ exception' = [i \in Id |-> IF i \in jan.exceptions THEN "none" ELSE exception[i]]
          /\ jan' = IdleJanitor
          /\ UNCHANGED <<lastId, held, claimedTo, committedTo, settledIds>>
      BY <1>16, <1>t DEF DropPartition, CommitSweep, RemoveRows, RetentionType
    <2>2. RetentionType'
      BY <1>t, <1>i, <2>1 DEF RetentionType, NoHead
    <2>3. DecidedInv'
      BY <1>t, <2>1 DEF DecidedInv, RetentionType
    <2>4. OwedInv'
      <3>1. \A i \in jan.ids : i <= committedTo /\ i \in Id /\ i \notin held /\ exception[i] # "ready"
        BY <1>t DEF OwedInv, JanitorInv, RetentionType
      <3>2. \A i \in jan.ids : row[i] = "in" => i \in settledIds
        BY <1>t, <3>1 DEF OwedInv, RetentionType
      <3>3. \A i \in Id : exception[i] = "ready" => exception'[i] = "ready"
        BY <1>t, <2>1, <3>1 DEF JanitorInv
      <3>. QED BY <1>t, <2>1, <3>1, <3>2, <3>3 DEF OwedInv, JanitorInv, RetentionType
    <2>5. JanitorInv'
      BY <1>i, <2>1 DEF JanitorInv
    <2>6. NoDanglingHead'
      BY <1>t, <2>1 DEF NoDanglingHead, JanitorInv, RetentionType, NoHead, EmptyHead
    <2>. QED BY <2>2, <2>3, <2>4, <2>5, <2>6 DEF RetentionInv
  <1>. QED BY <1>1, <1>2, <1>3, <1>4, <1>5, <1>6, <1>7, <1>8, <1>9, <1>11, <1>12, <1>13, <1>14,
              <1>15, <1>16 DEF RetentionNext, JanitorPass

-----------------------------------------------------------------------------
(* Compaction heads. *)

HeadWork ==
    [pc : {"lock", "append", "upsert", "commit"}, key : HeadKey, locks : BOOLEAN,
     read : 0 .. MaxHeadId, id : 0 .. MaxHeadId, row : NoHeadRow .. MaxHeadId]

\* A transaction holds its key's head row from the read or the upsert, whichever
\* comes first, until it ends.
HoldsHead(x) == x.pc = "commit" \/ (x.locks /\ x.pc \in {"append", "upsert"})

Shown(rowOf, k) == IF rowOf[k] > 0 THEN rowOf[k] ELSE 0

\* What a transaction knows of its key: while it holds the row, the head it was
\* shown is still the head, and what it will write is what the row calls for.
Knows(t, x, lockOf, rowOf) ==
    /\ x.pc = "lock" => x.locks
    /\ x.pc \in {"lock", "append"} <=> x.id = 0
    /\ HoldsHead(x) => lockOf[x.key] = t
    /\ HoldsHead(x) /\ x.locks => x.read = Shown(rowOf, x.key)
    /\ x.pc = "append" /\ x.locks =>
         x.row = IF rowOf[x.key] = NoHeadRow THEN EmptyRow ELSE rowOf[x.key]
    /\ x.pc = "commit" =>
         x.row = IF TakesHead(x.id, rowOf[x.key]) THEN x.id ELSE rowOf[x.key]

HeadTxInv ==
    \A t \in HeadTx : headTx[t] # NoHeadWork => Knows(t, headTx[t], headLock, headRow)

HeadsType ==
    /\ headRow \in [HeadKey -> NoHeadRow .. MaxHeadId]
    /\ headLock \in [HeadKey -> HeadTx \cup {NoHeadTx}]
    /\ headTx \in [HeadTx -> HeadWork \cup {NoHeadWork}]
    /\ nextHeadId \in 1 .. MaxHeadId + 1
    /\ headSeen \in [HeadKey -> 0 .. MaxHeadId]

HeadsInv == HeadsType /\ HeadTxInv /\ HeadsMoveForward

\* A transaction at work is not one that rests.
LEMMA WorkIsNotRest == \A x \in HeadWork : x # NoHeadWork
  <1>1. NoHeadWork.pc = "idle"
    BY DEF NoHeadWork
  <1>2. \A x \in HeadWork : x.pc # "idle"
    BY DEF HeadWork
  <1>. QED BY <1>1, <1>2

\* The order of heads is transitive.
LEMMA OutranksTransitive ==
  ASSUME NEW i \in 1 .. MaxHeadId, NEW j \in 1 .. MaxHeadId, NEW k \in 1 .. MaxHeadId,
         Outranks(i, j), Outranks(j, k)
  PROVE  Outranks(i, k)
  <1>1. RankAt[i] \in Nat /\ RankAt[j] \in Nat /\ RankAt[k] \in Nat
    BY HeadBounds
  <1>2. i \in Nat /\ j \in Nat /\ k \in Nat
    OBVIOUS
  <1>. QED BY <1>1, <1>2 DEF Outranks

\* In the beginning no key has a head and nobody has seen one.
LEMMA HeadsStart == CompactionHeadsInit => HeadsInv
  <1> SUFFICES ASSUME CompactionHeadsInit PROVE HeadsInv
    OBVIOUS
  <1>1. HeadsType
    BY HeadBounds DEF CompactionHeadsInit, HeadsType, NoHeadRow
  <1>2. HeadTxInv
    BY DEF CompactionHeadsInit, HeadTxInv
  <1>3. HeadsMoveForward
    BY DEF CompactionHeadsInit, HeadsMoveForward
  <1>. QED BY <1>1, <1>2, <1>3 DEF HeadsInv

\* A step of one transaction leaves the others what they know: it changes only
\* rows and locks that were its own or nobody's.
LEMMA OtherHeadTx ==
  ASSUME HeadsInv, NEW t \in HeadTx, NEW y \in HeadWork \cup {NoHeadWork},
         headTx' = [headTx EXCEPT ![t] = y],
         \A k \in HeadKey : headLock[k] \notin {t, NoHeadTx} =>
             headLock'[k] = headLock[k] /\ headRow'[k] = headRow[k],
         y # NoHeadWork => Knows(t, y, headLock', headRow')
  PROVE  HeadTxInv'
  <1> SUFFICES ASSUME NEW u \in HeadTx, headTx'[u] # NoHeadWork
               PROVE  Knows(u, headTx'[u], headLock', headRow')
    BY DEF HeadTxInv
  <1>1. headTx \in [HeadTx -> HeadWork \cup {NoHeadWork}]
    BY DEF HeadsInv, HeadsType
  <1>2. CASE u = t
    BY <1>1, <1>2
  <1>3. CASE u # t
    <2>1. headTx'[u] = headTx[u] /\ headTx[u] \in HeadWork
      BY <1>1, <1>3
    <2> DEFINE x == headTx[u]
    <2>2. x.key \in HeadKey
      BY <2>1 DEF HeadWork
    <2>3. Knows(u, x, headLock, headRow)
      BY <2>1 DEF HeadsInv, HeadTxInv
    <2>4. HoldsHead(x) => headLock'[x.key] = u /\ headRow'[x.key] = headRow[x.key]
      BY <1>3, <2>2, <2>3, HeadBounds DEF Knows
    <2>5. /\ x.pc = "commit" => HoldsHead(x)
          /\ x.pc = "append" /\ x.locks => HoldsHead(x)
      BY DEF HoldsHead
    <2> HIDE DEF x
    <2>6. Knows(u, x, headLock', headRow')
      BY <2>3, <2>4, <2>5 DEF Knows, Shown
    <2>. QED BY <2>1, <2>6 DEF x
  <1>. QED BY <1>2, <1>3

\* What a transaction writes ranks at least as high as what anybody was shown.
LEMMA ForwardHead ==
  ASSUME HeadsInv, NEW k \in HeadKey, NEW h \in NoHeadRow .. MaxHeadId, headSeen[k] # 0,
         h = headRow[k] \/ (h > 0 /\ TakesHead(h, headRow[k]))
  PROVE  h = headSeen[k] \/ (h > 0 /\ Outranks(h, headSeen[k]))
  <1>1. /\ headRow[k] \in NoHeadRow .. MaxHeadId /\ headSeen[k] \in 1 .. MaxHeadId
        /\ headRow[k] = headSeen[k] \/ (headRow[k] > 0 /\ Outranks(headRow[k], headSeen[k]))
    BY HeadBounds DEF HeadsInv, HeadsType, HeadsMoveForward
  <1>2. headRow[k] \in 1 .. MaxHeadId
    BY <1>1, HeadBounds DEF NoHeadRow
  <1>3. CASE h = headRow[k]
    BY <1>1, <1>3
  <1>4. CASE h > 0 /\ TakesHead(h, headRow[k])
    <2>1. h \in 1 .. MaxHeadId /\ Outranks(h, headRow[k])
      BY <1>2, <1>4, HeadBounds DEF TakesHead, NoHeadRow
    <2>. QED BY <1>1, <1>2, <2>1, OutranksTransitive
  <1>. QED BY <1>3, <1>4

\* A step that changes no head row and shows nobody a lower head.
LEMMA HeadsUnmoved ==
  ASSUME HeadsInv, UNCHANGED <<headRow, headSeen, appended>>
  PROVE  HeadsMoveForward'
  BY DEF HeadsInv, HeadsMoveForward, Outranks

\* No step of a transaction, a reader or the sweep breaks it.
LEMMA HeadsStep ==
  ASSUME HeadsInv, CompactionHeadsNext
  PROVE  HeadsInv'
  <1> USE HeadBounds
  <1>t. HeadsType /\ HeadTxInv
    BY DEF HeadsInv
  <1>w. \A t \in HeadTx : headTx[t] # NoHeadWork => headTx[t] \in HeadWork
    BY <1>t DEF HeadsType
  <1>n. \A t \in HeadTx : headTx[t].pc # "idle" => headTx[t] # NoHeadWork
    BY DEF NoHeadWork
  <1>1. ASSUME NEW t \in HeadTx, NEW k \in HeadKey, NEW locks \in BOOLEAN, BeginHeadTx(t, k, locks)
        PROVE  HeadsInv'
    <2> DEFINE y == [pc |-> IF locks THEN "lock" ELSE "append", key |-> k, locks |-> locks,
                     read |-> 0, id |-> 0, row |-> NoHeadRow]
    <2>1. headTx' = [headTx EXCEPT ![t] = y] /\ UNCHANGED <<headRow, headLock, nextHeadId, headSeen, appended>>
      BY <1>1 DEF BeginHeadTx
    <2>2. y \in HeadWork
      BY DEF HeadWork, NoHeadRow
    <2>3. Knows(t, y, headLock', headRow')
      BY DEF Knows, HoldsHead
    <2> HIDE DEF y
    <2>4. HeadsType'
      BY <1>t, <2>1, <2>2 DEF HeadsType
    <2>5. HeadTxInv'
      BY <2>1, <2>2, <2>3, OtherHeadTx
    <2>. QED BY <2>1, <2>4, <2>5, HeadsUnmoved DEF HeadsInv
  <1>2. ASSUME NEW t \in HeadTx, LockHeadRow(t) PROVE HeadsInv'
    <2> DEFINE x == headTx[t]
               y == [x EXCEPT !.pc = "append", !.read = HeadMessage(x.key),
                              !.row = IF headRow[x.key] = NoHeadRow THEN EmptyRow ELSE headRow[x.key]]
    <2>1. /\ x.pc = "lock" /\ MayTakeLock(t, x.key)
          /\ headLock' = [headLock EXCEPT ![x.key] = t]
          /\ headTx' = [headTx EXCEPT ![t] = y]
          /\ UNCHANGED <<headRow, nextHeadId, headSeen, appended>>
      BY <1>2, <1>t DEF LockHeadRow, HeadsType
    <2>2. x \in HeadWork /\ x.id = 0 /\ x.locks
      <3>1. x # NoHeadWork
        BY <2>1, <1>n
      <3>. QED BY <1>t, <1>w, <2>1, <3>1 DEF HeadTxInv, Knows
    <2>3. headRow[x.key] \in NoHeadRow .. MaxHeadId /\ x.key \in HeadKey
      BY <1>t, <2>2 DEF HeadsType, HeadWork
    <2>4. /\ y \in HeadWork /\ y.pc = "append" /\ y.key = x.key /\ y.id = 0 /\ y.locks
          /\ y.read = Shown(headRow, x.key)
          /\ y.row = IF headRow[x.key] = NoHeadRow THEN EmptyRow ELSE headRow[x.key]
      <3> HIDE DEF x
      <3>1. HeadMessage(x.key) \in 0 .. MaxHeadId /\ HeadMessage(x.key) = Shown(headRow, x.key)
        BY <2>3 DEF HeadMessage, Shown, NoHeadRow
      <3>2. (IF headRow[x.key] = NoHeadRow THEN EmptyRow ELSE headRow[x.key]) \in NoHeadRow .. MaxHeadId
        BY <2>3 DEF NoHeadRow, EmptyRow
      <3>. QED BY <2>2, <3>1, <3>2 DEF HeadWork
    <2> HIDE DEF x, y
    <2>5. Knows(t, y, headLock', headRow')
      <3>1. headLock'[x.key] = t /\ headRow' = headRow
        BY <1>t, <2>1, <2>3 DEF HeadsType
      <3>2. y.pc # "lock" /\ y.pc # "commit" /\ y.pc \in {"lock", "append"}
        BY <2>4
      <3>. QED BY <2>4, <3>1, <3>2 DEF Knows
    <2>6. HeadsType'
      BY <1>t, <2>1, <2>3, <2>4 DEF HeadsType
    <2>7. HeadTxInv'
      BY <1>t, <2>1, <2>3, <2>4, <2>5, OtherHeadTx DEF MayTakeLock, HeadsType
    <2>. QED BY <2>1, <2>6, <2>7, HeadsUnmoved DEF HeadsInv
  <1>3. ASSUME NEW t \in HeadTx, DrawHeadId(t) PROVE HeadsInv'
    <2> DEFINE x == headTx[t]
               y == [x EXCEPT !.pc = "upsert", !.id = nextHeadId]
    <2>1. /\ x.pc = "append" /\ nextHeadId <= MaxHeadId /\ nextHeadId' = nextHeadId + 1
          /\ headTx' = [headTx EXCEPT ![t] = y]
          /\ UNCHANGED <<headRow, headLock, headSeen, appended>>
      BY <1>3, <1>t DEF DrawHeadId, HeadsType
    <2>2. x \in HeadWork /\ Knows(t, x, headLock, headRow)
      <3>1. x # NoHeadWork
        BY <2>1, <1>n
      <3>. QED BY <1>t, <1>w, <3>1 DEF HeadTxInv
    <2>3. nextHeadId \in 1 .. MaxHeadId
      BY <1>t, <2>1 DEF HeadsType
    <2>4. /\ y \in HeadWork /\ y.pc = "upsert" /\ y.key = x.key /\ y.id = nextHeadId
          /\ y.locks = x.locks /\ y.read = x.read
      <3> HIDE DEF x
      <3>1. nextHeadId \in 0 .. MaxHeadId
        BY <2>3
      <3>. QED BY <2>2, <3>1 DEF HeadWork
    <2> HIDE DEF x, y
    <2>5. Knows(t, y, headLock', headRow')
      BY <2>1, <2>2, <2>3, <2>4 DEF Knows, HoldsHead
    <2>6. HeadsType'
      BY <1>t, <2>1, <2>3, <2>4 DEF HeadsType
    <2>7. HeadTxInv'
      BY <2>1, <2>4, <2>5, OtherHeadTx
    <2>. QED BY <2>1, <2>6, <2>7, HeadsUnmoved DEF HeadsInv
  <1>4. ASSUME NEW t \in HeadTx, UpsertHead(t) PROVE HeadsInv'
    <2> DEFINE x == headTx[t]
               r == IF TakesHead(x.id, headRow[x.key]) THEN x.id ELSE headRow[x.key]
               y == [x EXCEPT !.pc = "commit", !.row = r]
    <2>1. /\ x.pc = "upsert" /\ MayTakeLock(t, x.key)
          /\ headLock' = [headLock EXCEPT ![x.key] = t]
          /\ headTx' = [headTx EXCEPT ![t] = y]
          /\ UNCHANGED <<headRow, nextHeadId, headSeen, appended>>
      BY <1>4, <1>t DEF UpsertHead, HeadsType
    <2>2. x \in HeadWork /\ Knows(t, x, headLock, headRow)
      <3>1. x # NoHeadWork
        BY <2>1, <1>n
      <3>. QED BY <1>t, <1>w, <3>1 DEF HeadTxInv
    <2>3. headRow[x.key] \in NoHeadRow .. MaxHeadId /\ x.key \in HeadKey /\ x.id \in 0 .. MaxHeadId
      BY <1>t, <2>2 DEF HeadsType, HeadWork
    <2>r. r \in NoHeadRow .. MaxHeadId
      BY <2>3 DEF NoHeadRow
    <2>4. /\ y \in HeadWork /\ y.pc = "commit" /\ y.key = x.key /\ y.id = x.id
          /\ y.locks = x.locks /\ y.read = x.read /\ y.row = r
      BY <2>2, <2>r DEF HeadWork
    <2>5. Knows(t, y, headLock', headRow')
      <3> HIDE DEF x, y
      <3>. QED BY <1>t, <2>1, <2>2, <2>3, <2>4 DEF Knows, HoldsHead, HeadsType
    <2> HIDE DEF x, y, r
    <2>6. HeadsType'
      BY <1>t, <2>1, <2>3, <2>4 DEF HeadsType
    <2>7. HeadTxInv'
      BY <1>t, <2>1, <2>3, <2>4, <2>5, OtherHeadTx DEF MayTakeLock, HeadsType
    <2>. QED BY <2>1, <2>6, <2>7, HeadsUnmoved DEF HeadsInv
  <1>u. ASSUME NEW t \in HeadTx
        PROVE  /\ Unlocked(t) \in [HeadKey -> HeadTx \cup {NoHeadTx}]
               /\ \A k \in HeadKey : headLock[k] \notin {t, NoHeadTx} => Unlocked(t)[k] = headLock[k]
    BY <1>t DEF Unlocked, HeadsType
  <1>5. ASSUME NEW t \in HeadTx, CommitHeadTx(t) PROVE HeadsInv'
    <2> DEFINE x == headTx[t]
    <2>1. /\ x.pc = "commit" \/ (x.pc = "append" /\ x.locks)
          /\ headRow' = [headRow EXCEPT ![x.key] = x.row]
          /\ appended' = IF x.locks /\ x.row = x.id /\ x.id # 0
                         THEN appended \union {[read |-> x.read, replaced |-> HeadMessage(x.key)]}
                         ELSE appended
          /\ headLock' = Unlocked(t)
          /\ headTx' = [headTx EXCEPT ![t] = NoHeadWork]
          /\ UNCHANGED <<nextHeadId, headSeen>>
      BY <1>5 DEF CommitHeadTx
    <2>2. x \in HeadWork /\ Knows(t, x, headLock, headRow)
      <3>1. x # NoHeadWork
        BY <2>1, <1>n
      <3>. QED BY <1>t, <1>w, <3>1 DEF HeadTxInv
    <2>3. /\ x.key \in HeadKey /\ x.id \in 0 .. MaxHeadId /\ x.row \in NoHeadRow .. MaxHeadId
          /\ headRow[x.key] \in NoHeadRow .. MaxHeadId
      BY <1>t, <2>2 DEF HeadWork, HeadsType
    <2> HIDE DEF x
    <2>4. HoldsHead(x) /\ headLock[x.key] = t
      BY <2>1, <2>2 DEF HoldsHead, Knows
    <2>5. HeadsType'
      BY <1>t, <1>u, <2>1, <2>3 DEF HeadsType
    <2>6. HeadTxInv'
      <3>1. \A k \in HeadKey : headLock[k] \notin {t, NoHeadTx} =>
              headLock'[k] = headLock[k] /\ headRow'[k] = headRow[k]
        BY <1>t, <1>u, <2>1, <2>4 DEF HeadsType
      <3>. QED BY <2>1, <3>1, OtherHeadTx
    <2>7. \A q \in appended' : q.read = q.replaced
      <3>1. x.locks => x.read = HeadMessage(x.key)
        BY <2>2, <2>4 DEF Knows, Shown, HeadMessage
      <3>. QED BY <2>1, <3>1 DEF HeadsInv, HeadsMoveForward
    <2>8. ASSUME NEW k \in HeadKey, headSeen'[k] # 0
          PROVE  \/ headRow'[k] = headSeen'[k]
                 \/ headRow'[k] > 0 /\ Outranks(headRow'[k], headSeen'[k])
      <3>1. headSeen[k] # 0 /\ headRow[k] > 0
        BY <1>t, <2>1, <2>8 DEF HeadsInv, HeadsType, HeadsMoveForward
      <3>2. CASE k = x.key
        <4>1. headRow'[k] = x.row
          BY <1>t, <2>1, <3>2 DEF HeadsType
        <4>2. x.row = headRow[k] \/ (x.row > 0 /\ TakesHead(x.row, headRow[k]))
          BY <2>1, <2>2, <2>3, <3>1, <3>2 DEF Knows, NoHeadRow
        <4>. QED BY <2>1, <2>3, <3>1, <4>1, <4>2, ForwardHead
      <3>3. CASE k # x.key
        BY <1>t, <2>1, <2>8, <3>3 DEF HeadsInv, HeadsType, HeadsMoveForward
      <3>. QED BY <3>2, <3>3
    <2>9. HeadsMoveForward'
      BY <2>7, <2>8 DEF HeadsMoveForward, Outranks
    <2>. QED BY <2>5, <2>6, <2>9 DEF HeadsInv
  <1>6. ASSUME NEW t \in HeadTx, RollbackHeadTx(t) PROVE HeadsInv'
    <2>1. /\ headLock' = Unlocked(t) /\ headTx' = [headTx EXCEPT ![t] = NoHeadWork]
          /\ UNCHANGED <<headRow, nextHeadId, headSeen, appended>>
      BY <1>6 DEF RollbackHeadTx
    <2>2. HeadsType'
      BY <1>t, <1>u, <2>1 DEF HeadsType
    <2>3. HeadTxInv'
      BY <1>u, <2>1, OtherHeadTx
    <2>. QED BY <2>1, <2>2, <2>3, HeadsUnmoved DEF HeadsInv
  <1>7. CASE SweepHeadMessage
    <2>1. UNCHANGED <<headRow, headLock, headTx, nextHeadId, headSeen, appended>>
      BY <1>7 DEF SweepHeadMessage
    <2>. QED BY <1>t, <2>1, HeadsUnmoved DEF HeadsInv, HeadsType, HeadTxInv
  \* A head row is deleted only while nobody holds it.
  <1>8. ASSUME NEW k \in HeadKey, headLock[k] = NoHeadTx,
               headRow' = [headRow EXCEPT ![k] = NoHeadRow],
               UNCHANGED <<headLock, headTx, nextHeadId, appended>>,
               headSeen' = [headSeen EXCEPT ![k] = 0]
        PROVE  HeadsInv'
    <2>1. HeadsType'
      BY <1>t, <1>8 DEF HeadsType, NoHeadRow
    <2>2. HeadTxInv'
      <3> SUFFICES ASSUME NEW u \in HeadTx, headTx[u] # NoHeadWork
                   PROVE  Knows(u, headTx[u], headLock, headRow')
        BY <1>8 DEF HeadTxInv
      <3> DEFINE x == headTx[u]
      <3>1. x.key \in HeadKey /\ Knows(u, x, headLock, headRow)
        BY <1>t, <1>w DEF HeadWork, HeadTxInv
      <3>2. HoldsHead(x) => headRow'[x.key] = headRow[x.key]
        BY <1>t, <1>8, <3>1 DEF Knows, HeadsType
      <3>3. /\ x.pc = "commit" => HoldsHead(x)
            /\ x.pc = "append" /\ x.locks => HoldsHead(x)
        BY DEF HoldsHead
      <3> HIDE DEF x
      <3>4. Knows(u, x, headLock, headRow')
        BY <3>1, <3>2, <3>3 DEF Knows, Shown
      <3>. QED BY <3>4 DEF x
    <2>3. HeadsMoveForward'
      BY <1>t, <1>8 DEF HeadsInv, HeadsMoveForward, HeadsType, Outranks
    <2>. QED BY <2>1, <2>2, <2>3 DEF HeadsInv
  <1>9. CASE CommitHeadSweep
    <2>1. PICK m \in sweeping :
            /\ headRow[m.key] = m.id => headLock[m.key] = NoHeadTx
            /\ headRow' = IF headRow[m.key] = m.id THEN [headRow EXCEPT ![m.key] = NoHeadRow] ELSE headRow
            /\ headSeen' = IF headRow[m.key] = m.id THEN [headSeen EXCEPT ![m.key] = 0] ELSE headSeen
            /\ UNCHANGED <<headLock, headTx, nextHeadId, appended>>
      BY <1>9 DEF CommitHeadSweep
    <2>2. CASE headRow[m.key] = m.id /\ m.key \in HeadKey
      BY <1>8, <2>1, <2>2
    <2>3. CASE ~(headRow[m.key] = m.id /\ m.key \in HeadKey)
      <3>1. headRow' = headRow /\ headSeen' = headSeen
        BY <1>t, <2>1, <2>3 DEF HeadsType
      <3>. QED BY <1>t, <2>1, <3>1, HeadsUnmoved DEF HeadsInv, HeadsType, HeadTxInv
    <2>. QED BY <2>2, <2>3
  <1>10. ASSUME NEW k \in HeadKey, SweepEmptyRow(k) PROVE HeadsInv'
    <2>1. /\ headRow[k] = EmptyRow /\ headLock[k] = NoHeadTx
          /\ headRow' = [headRow EXCEPT ![k] = NoHeadRow]
          /\ UNCHANGED <<headLock, headTx, nextHeadId, headSeen, appended>>
      BY <1>10 DEF SweepEmptyRow
    <2>2. headSeen[k] = 0
      BY <1>t, <2>1 DEF HeadsInv, HeadsType, HeadsMoveForward, EmptyRow
    <2>3. headSeen' = [headSeen EXCEPT ![k] = 0]
      BY <1>t, <2>1, <2>2 DEF HeadsType
    <2>. QED BY <1>8, <2>1, <2>3
  <1>11. ASSUME UNCHANGED <<headRow, headLock, headTx, nextHeadId, appended>>,
                headSeen' \in [HeadKey -> Int],
                \A k \in HeadKey : headSeen'[k] \in {0, headSeen[k], HeadMessage(k)}
         PROVE  HeadsInv'
    <2>1. \A k \in HeadKey : HeadMessage(k) \in 0 .. MaxHeadId /\ headSeen[k] \in 0 .. MaxHeadId
      BY <1>t DEF HeadMessage, HeadsType, NoHeadRow
    <2>2. headSeen' \in [HeadKey -> 0 .. MaxHeadId]
      BY <1>11, <2>1
    <2>3. HeadsType' /\ HeadTxInv'
      BY <1>t, <1>11, <2>2 DEF HeadsType, HeadTxInv
    <2>4. HeadsMoveForward'
      <3>1. \A q \in appended' : q.read = q.replaced
        BY <1>11 DEF HeadsInv, HeadsMoveForward
      <3>2. ASSUME NEW k \in HeadKey, headSeen'[k] # 0
            PROVE  headRow'[k] = headSeen'[k] \/ (headRow'[k] > 0 /\ Outranks(headRow'[k], headSeen'[k]))
        BY <1>11, <3>2 DEF HeadsInv, HeadsMoveForward, HeadMessage, Outranks
      <3>. QED BY <3>1, <3>2 DEF HeadsMoveForward, Outranks
    <2>. QED BY <2>3, <2>4 DEF HeadsInv
  <1>g. \A k \in HeadKey : getHead(k) \in {0, HeadMessage(k)} /\ getHead(k) \in Int
    BY <1>t DEF getHead, HeadMessage, HeadsType
  <1>12. ASSUME NEW k \in HeadKey, GetHead(k) PROVE HeadsInv'
    <2>1. /\ headSeen' = [headSeen EXCEPT ![k] = getHead(k)]
          /\ UNCHANGED <<headRow, headLock, headTx, nextHeadId, appended>>
      BY <1>12 DEF GetHead
    <2>2. headSeen' \in [HeadKey -> Int] /\ \A j \in HeadKey : headSeen'[j] \in {0, headSeen[j], HeadMessage(j)}
      BY <1>t, <1>g, <2>1 DEF HeadsType
    <2>. QED BY <1>11, <2>1, <2>2
  <1>13. CASE ListHeads
    <2>1. /\ headSeen' = [k \in HeadKey |-> getHead(k)]
          /\ UNCHANGED <<headRow, headLock, headTx, nextHeadId, appended>>
      BY <1>13 DEF ListHeads
    <2>2. headSeen' \in [HeadKey -> Int] /\ \A j \in HeadKey : headSeen'[j] \in {0, headSeen[j], HeadMessage(j)}
      BY <1>g, <2>1
    <2>. QED BY <1>11, <2>1, <2>2
  <1>. QED BY <1>1, <1>2, <1>3, <1>4, <1>5, <1>6, <1>7, <1>9, <1>10, <1>12, <1>13
           DEF CompactionHeadsNext

-----------------------------------------------------------------------------
(* Schedules. *)

AnyExpression == Expression \cup {NoRow.expr}
SentRow == [id : Nat, time : Nat, at : Nat, expr : AnyExpression]

SchedulesType ==
    /\ clock \in Nat /\ scheduleIds \in Nat /\ nextAt \in Nat
    /\ schedule \in [id : Nat, expr : AnyExpression, suspended : BOOLEAN]
    /\ rowLock \in ScheduleWorker \cup {NoWorker}
    /\ sent \in Seq(SentRow)
    /\ call \in [ScheduleCaller ->
                   [pc : {"idle", "locking", "found", "replacing", "unsuspending", "running"},
                    id : Nat, expr : AnyExpression, next : Nat]]
    /\ due \in [ScheduleWorker -> [at : Nat, time : Nat, expr : AnyExpression]]

\* A row in the table has an expression of its own.
ExpressionInv == schedule.id # NoSchedule => schedule.expr \in Expression

\* No time of an expression lies between one and a later moment.
NewestOfTimes(e, time, last) == time <= last /\ ~\E u \in Times[e] : time < u /\ u <= last

\* The transaction that holds the row found it due and not suspended, and will
\* produce the newest due time: nothing changes the row under its lock.
LockInv ==
    rowLock # NoWorker =>
        /\ schedule.id # NoSchedule /\ ~schedule.suspended
        /\ due[rowLock].expr \in Expression
        /\ NewestOfTimes(due[rowLock].expr, due[rowLock].time, due[rowLock].at)

\* What was produced on schedule has its idempotency key.
KeyOfSent == \A i \in DOMAIN sent : IdempotencyKey(sent[i].id, sent[i].time) \in keys

SchedulesInv ==
    /\ SchedulesType /\ ExpressionInv /\ LockInv
    /\ KeyOfSent /\ ScheduledOnce /\ NewestDueOnly

\* The next time of an expression is a time, or Never.
LEMMA NextTimeIsTime ==
  ASSUME NEW e \in Expression, NEW t \in Nat
  PROVE  NextTime(e, t) \in Nat
  <1> DEFINE later == {u \in Times[e] : u > t}
  <1>1. later \in SUBSET Nat
    BY SchedulesBounds
  <1> HIDE DEF later
  <1>2. later # {} => Min(later) \in Nat
    BY <1>1, MinOfNaturals
  <1>3. CASE \E u \in Times[e] : u > t
    <2>1. later # {}
      BY <1>3 DEF later
    <2>2. NextTime(e, t) = Min(later)
      BY <1>3 DEF NextTime, later
    <2>. QED BY <1>2, <2>1, <2>2
  <1>4. CASE ~\E u \in Times[e] : u > t
    BY <1>4 DEF NextTime, Never
  <1>. QED BY <1>3, <1>4

\* newestDue leaves no due time of the expression after the one it returns.
LEMMA NewestDueIsNewest ==
  ASSUME NEW e \in Expression, NEW from \in Nat, NEW last \in Nat, from <= last
  PROVE  newestDue(e, from, last) \in Nat /\ NewestOfTimes(e, newestDue(e, from, last), last)
  <1> DEFINE candidates == {from} \cup {u \in Times[e] : from < u /\ u <= last}
  <1>1. /\ candidates \in SUBSET Nat /\ from \in candidates
        /\ \A u \in candidates : from <= u /\ u <= last
        /\ \A u \in Times[e] : u \in Nat /\ (from < u /\ u <= last => u \in candidates)
    BY SchedulesBounds
  <1>2. newestDue(e, from, last) = Max(candidates)
    BY DEF newestDue
  <1> HIDE DEF candidates
  <1>3. Max(candidates) \in candidates /\ \A u \in candidates : u <= Max(candidates)
    BY <1>1, MaxOfNaturals
  <1>4. /\ Max(candidates) \in Nat /\ from <= Max(candidates) /\ Max(candidates) <= last
    BY <1>1, <1>3
  <1>5. ASSUME NEW u \in Times[e], Max(candidates) < u, u <= last PROVE FALSE
    BY <1>1, <1>3, <1>4, <1>5
  <1>. QED BY <1>2, <1>4, <1>5 DEF NewestOfTimes

\* Nothing is scheduled in the beginning.
LEMMA SchedulesStart == SchedulesInit => SchedulesInv
  <1> SUFFICES ASSUME SchedulesInit PROVE SchedulesInv
    OBVIOUS
  <1>1. /\ NoRow \in [id : Nat, expr : AnyExpression, suspended : BOOLEAN] /\ NoRow.id = NoSchedule
    BY DEF NoRow, AnyExpression, NoSchedule
  <1>2. /\ IdleCall \in [pc : {"idle"}, id : Nat, expr : AnyExpression, next : Nat]
        /\ NotDue \in [at : Nat, time : Nat, expr : AnyExpression]
    BY DEF IdleCall, NotDue, AnyExpression, NoSchedule, Never
  <1>3. SchedulesType
    BY <1>1, <1>2 DEF SchedulesInit, SchedulesType, Never
  <1>4. ExpressionInv /\ LockInv
    BY <1>1 DEF SchedulesInit, ExpressionInv, LockInv
  <1>5. KeyOfSent /\ ScheduledOnce /\ NewestDueOnly
    BY DEF SchedulesInit, KeyOfSent, ScheduledOnce, NewestDueOnly
  <1>. QED BY <1>3, <1>4, <1>5 DEF SchedulesInv

\* What was sent stays as it is when nothing is sent.
LEMMA SentUnchanged ==
  ASSUME SchedulesInv, UNCHANGED <<keys, sent>>
  PROVE  KeyOfSent' /\ ScheduledOnce' /\ NewestDueOnly'
  BY DEF SchedulesInv, KeyOfSent, ScheduledOnce, NewestDueOnly, IdempotencyKey

\* A caller's step: it changes the row only while nobody holds it.
LEMMA CallerStep ==
  ASSUME SchedulesInv, NEW c \in ScheduleCaller, NEW x,
         x \in [pc : {"idle", "locking", "found", "replacing", "unsuspending", "running"},
                id : Nat, expr : AnyExpression, next : Nat],
         call' = [call EXCEPT ![c] = x],
         UNCHANGED <<clock, rowLock, keys, sent, due>>,
         scheduleIds' \in Nat, nextAt' \in Nat,
         schedule' \in [id : Nat, expr : AnyExpression, suspended : BOOLEAN],
         ExpressionInv',
         schedule' = schedule \/ rowLock = NoWorker \/ schedule.id = NoSchedule
  PROVE  SchedulesInv'
  <1>1. SchedulesType'
    BY DEF SchedulesInv, SchedulesType
  <1>2. LockInv'
    BY DEF SchedulesInv, LockInv
  <1>. QED BY <1>1, <1>2, SentUnchanged DEF SchedulesInv

\* No call and no producer breaks it.
LEMMA SchedulesStep ==
  ASSUME SchedulesInv, SchedulesNext
  PROVE  SchedulesInv'
  <1> USE SchedulesBounds
  <1> DEFINE CallRow == [pc : {"idle", "locking", "found", "replacing", "unsuspending", "running"},
                         id : Nat, expr : AnyExpression, next : Nat]
             ConfigRow == [id : Nat, expr : AnyExpression, suspended : BOOLEAN]
  <1>t. /\ SchedulesType /\ ExpressionInv /\ LockInv
        /\ clock \in Nat /\ scheduleIds \in Nat /\ nextAt \in Nat
        /\ schedule \in ConfigRow /\ call \in [ScheduleCaller -> CallRow]
    BY DEF SchedulesInv, SchedulesType
  <1>i. /\ IdleCall \in CallRow /\ IdleCall.pc = "idle" /\ IdleCall.expr = NoRow.expr
        /\ \A next \in Nat : [IdleCall EXCEPT !.pc = "locking", !.next = next] \in CallRow
    BY DEF IdleCall, AnyExpression, NoSchedule, Never
  <1>d. \A c \in ScheduleCaller : Declares[c] \in Expression /\ Declares[c] \in AnyExpression
    BY DEF AnyExpression
  <1>e. schedule.expr \in AnyExpression /\ schedule.id \in Nat
    BY <1>t
  <1>1. CASE TickClock
    <2>1. clock' = clock + 1 /\ UNCHANGED <<scheduleIds, schedule, nextAt, rowLock, keys, sent, call, due>>
      BY <1>1 DEF TickClock, scheduleRow
    <2>. QED BY <2>1, SentUnchanged DEF SchedulesInv, SchedulesType, ExpressionInv, LockInv
  <1>2. ASSUME NEW c \in ScheduleCaller, BeginRegister(c) PROVE SchedulesInv'
    <2> DEFINE x == IF schedule.id # NoSchedule
                    THEN [pc |-> "found", id |-> schedule.id, expr |-> schedule.expr, next |-> Never]
                    ELSE [IdleCall EXCEPT !.pc = "locking", !.next = NextTime(Declares[c], clock)]
    <2>1. x \in CallRow
      <3>1. NextTime(Declares[c], clock) \in Nat
        BY <1>t, <1>d, NextTimeIsTime
      <3>. QED BY <1>i, <1>e, <3>1 DEF Never
    <2>2. call' = [call EXCEPT ![c] = x]
          /\ UNCHANGED <<clock, scheduleIds, schedule, nextAt, rowLock, keys, sent, due>>
      BY <1>2 DEF BeginRegister, scheduleRow
    <2> HIDE DEF x
    <2>. QED BY <1>t, <2>1, <2>2, CallerStep DEF ExpressionInv
  <1>3. ASSUME NEW c \in ScheduleCaller, InsertSchedule(c) PROVE SchedulesInv'
    <2>0. UNCHANGED <<clock, rowLock, keys, sent, due>>
      BY <1>3 DEF InsertSchedule
    <2>1. CASE /\ call' = [call EXCEPT ![c] = [pc |-> "found", id |-> schedule.id,
                                                expr |-> schedule.expr, next |-> Never]]
               /\ UNCHANGED <<scheduleIds, schedule, nextAt>>
      <3>1. [pc |-> "found", id |-> schedule.id, expr |-> schedule.expr, next |-> Never] \in CallRow
        BY <1>e DEF Never
      <3>. QED BY <1>t, <2>0, <2>1, <3>1, CallerStep DEF ExpressionInv
    <2>2. CASE /\ schedule.id = NoSchedule /\ scheduleIds' = scheduleIds + 1
               /\ schedule' = [id |-> scheduleIds', expr |-> Declares[c], suspended |-> FALSE]
               /\ nextAt' = call[c].next /\ call' = [call EXCEPT ![c] = IdleCall]
      <3>1. schedule' \in ConfigRow /\ schedule'.expr \in Expression /\ nextAt' \in Nat
        BY <1>t, <1>d, <2>2
      <3>. QED BY <1>t, <1>i, <2>0, <2>2, <3>1, CallerStep DEF ExpressionInv
    <2>3. CASE call' = [call EXCEPT ![c] = IdleCall] /\ UNCHANGED <<scheduleIds, schedule, nextAt>>
      BY <1>t, <1>i, <2>0, <2>3, CallerStep DEF ExpressionInv
    <2>. QED BY <1>3, <2>1, <2>2, <2>3 DEF InsertSchedule, scheduleRow
  <1>4. ASSUME NEW c \in ScheduleCaller, SeedReplacement(c) PROVE SchedulesInv'
    <2> DEFINE next == NextTime(Declares[c], clock)
    <2>1. UNCHANGED <<clock, scheduleIds, schedule, nextAt, rowLock, keys, sent, due>>
      BY <1>4 DEF SeedReplacement, scheduleRow
    <2>2. next \in Nat
      BY <1>t, <1>d, NextTimeIsTime
    <2>3. PICK x \in CallRow : call' = [call EXCEPT ![c] = x]
      <3>1. CASE call' = [call EXCEPT ![c].pc = "replacing"]
        <4>1. [call[c] EXCEPT !.pc = "replacing"] \in CallRow
          BY <1>t
        <4>. QED BY <1>t, <3>1, <4>1
      <3>2. CASE call' = [call EXCEPT ![c] = IF next = Never THEN IdleCall
                                             ELSE [@ EXCEPT !.pc = "replacing", !.next = next]]
        <4> HIDE DEF next
        <4>1. [call[c] EXCEPT !.pc = "replacing", !.next = next] \in CallRow
          BY <1>t, <2>2
        <4>. QED BY <1>t, <1>i, <3>2, <4>1
      <3>. QED BY <1>4, <3>1, <3>2 DEF SeedReplacement
    <2>. QED BY <1>t, <2>1, <2>3, CallerStep DEF ExpressionInv
  <1>5. ASSUME NEW c \in ScheduleCaller, ReplaceSchedule(c) PROVE SchedulesInv'
    <2>1. /\ rowLock = NoWorker /\ call' = [call EXCEPT ![c] = IdleCall]
          /\ UNCHANGED <<clock, scheduleIds, rowLock, keys, sent, due>>
          /\ schedule' \in {schedule, [schedule EXCEPT !.expr = Declares[c]]}
          /\ nextAt' \in {nextAt, call[c].next}
      BY <1>5 DEF ReplaceSchedule
    <2>2. schedule' \in ConfigRow /\ nextAt' \in Nat
      BY <1>t, <1>d, <2>1
    <2>3. ExpressionInv'
      BY <1>t, <1>d, <2>1 DEF ExpressionInv
    <2>. QED BY <1>t, <1>i, <2>1, <2>2, <2>3, CallerStep
  <1>6. CASE SuspendSchedule
    <2>1. /\ rowLock = NoWorker /\ schedule' = [schedule EXCEPT !.suspended = TRUE]
          /\ UNCHANGED <<clock, scheduleIds, nextAt, rowLock, keys, sent, call, due>>
      BY <1>6 DEF SuspendSchedule
    <2>. QED BY <1>t, <2>1, SentUnchanged DEF SchedulesInv, SchedulesType, ExpressionInv, LockInv
  <1>7. ASSUME NEW c \in ScheduleCaller, BeginUnsuspend(c) PROVE SchedulesInv'
    <2> DEFINE next == NextTime(schedule.expr, clock)
               x == [pc |-> "unsuspending", id |-> schedule.id, expr |-> schedule.expr, next |-> next]
    <2>1. /\ schedule.id # NoSchedule /\ call' = [call EXCEPT ![c] = x]
          /\ UNCHANGED <<clock, scheduleIds, schedule, nextAt, rowLock, keys, sent, due>>
      BY <1>7 DEF BeginUnsuspend, scheduleRow
    <2>2. next \in Nat
      BY <1>t, <2>1, NextTimeIsTime DEF ExpressionInv
    <2> HIDE DEF next
    <2>3. x \in CallRow
      BY <1>e, <2>2
    <2> HIDE DEF x
    <2>. QED BY <1>t, <2>1, <2>3, CallerStep DEF ExpressionInv
  <1>8. ASSUME NEW c \in ScheduleCaller, UnsuspendSchedule(c) PROVE SchedulesInv'
    <2>1. /\ rowLock = NoWorker /\ call' = [call EXCEPT ![c] = IdleCall]
          /\ UNCHANGED <<clock, scheduleIds, rowLock, keys, sent, due>>
          /\ schedule' \in {schedule, [schedule EXCEPT !.suspended = FALSE]}
          /\ nextAt' \in {nextAt, call[c].next}
      BY <1>8 DEF UnsuspendSchedule
    <2>2. schedule' \in ConfigRow /\ nextAt' \in Nat
      <3>1. [schedule EXCEPT !.suspended = FALSE] \in ConfigRow
        BY <1>t
      <3>2. call[c].next \in Nat
        BY <1>t
      <3>. QED BY <1>t, <2>1, <3>1, <3>2
    <2>3. ExpressionInv'
      BY <1>t, <2>1 DEF ExpressionInv
    <2>. QED BY <1>t, <1>i, <2>1, <2>2, <2>3, CallerStep
  <1>9. ASSUME NEW c \in ScheduleCaller, BeginRunSchedule(c) PROVE SchedulesInv'
    <2> DEFINE x == [pc |-> "running", id |-> schedule.id, expr |-> schedule.expr, next |-> Never]
    <2>1. /\ call' = [call EXCEPT ![c] = x]
          /\ UNCHANGED <<clock, scheduleIds, schedule, nextAt, rowLock, keys, sent, due>>
      BY <1>9 DEF BeginRunSchedule, scheduleRow
    <2>2. x \in CallRow
      BY <1>e DEF Never
    <2> HIDE DEF x
    <2>. QED BY <1>t, <2>1, <2>2, CallerStep DEF ExpressionInv
  <1>10. ASSUME NEW c \in ScheduleCaller, RunSchedule(c) PROVE SchedulesInv'
    <2>1. /\ call' = [call EXCEPT ![c] = IdleCall]
          /\ UNCHANGED <<clock, scheduleIds, schedule, nextAt, rowLock, keys, sent, due>>
      BY <1>10 DEF RunSchedule, scheduleRow
    <2>. QED BY <1>t, <1>i, <2>1, CallerStep DEF ExpressionInv
  <1>11. CASE DeleteSchedule
    <2>1. /\ rowLock = NoWorker /\ schedule' = NoRow /\ nextAt' = Never
          /\ UNCHANGED <<clock, scheduleIds, rowLock, keys, sent, call, due>>
      BY <1>11 DEF DeleteSchedule
    <2>2. NoRow \in ConfigRow /\ NoRow.id = NoSchedule
      BY DEF NoRow, AnyExpression, NoSchedule
    <2>. QED BY <1>t, <2>1, <2>2, SentUnchanged
             DEF SchedulesInv, SchedulesType, ExpressionInv, LockInv, Never
  <1>12. ASSUME NEW w \in ScheduleWorker, ClaimDue(w) PROVE SchedulesInv'
    <2> DEFINE newest == newestDue(schedule.expr, nextAt, clock)
               d == [at |-> clock, expr |-> schedule.expr, time |-> newest]
    <2>1. /\ schedule.id # NoSchedule /\ ~schedule.suspended /\ nextAt <= clock
          /\ rowLock' = w /\ due' = [due EXCEPT ![w] = d]
          /\ UNCHANGED <<clock, scheduleIds, schedule, nextAt, keys, sent, call>>
      BY <1>12 DEF ClaimDue, claimDue, scheduleRow
    <2>2. newest \in Nat /\ NewestOfTimes(schedule.expr, newest, clock)
      BY <1>t, <2>1, NewestDueIsNewest DEF ExpressionInv
    <2> HIDE DEF newest
    <2>3. /\ d \in [at : Nat, time : Nat, expr : AnyExpression]
          /\ d.expr = schedule.expr /\ d.time = newest /\ d.at = clock
      BY <1>t, <1>e, <2>2
    <2> HIDE DEF d
    <2>4. SchedulesType'
      BY <2>1, <2>3 DEF SchedulesInv, SchedulesType
    <2>5. due'[w] = d
      BY <2>1 DEF SchedulesInv, SchedulesType
    <2>6. LockInv' /\ ExpressionInv'
      BY <1>t, <2>1, <2>2, <2>3, <2>5 DEF LockInv, ExpressionInv
    <2>. QED BY <2>1, <2>4, <2>6, SentUnchanged DEF SchedulesInv
  <1>13. ASSUME NEW w \in ScheduleWorker, CommitDue(w) PROVE SchedulesInv'
    <2> DEFINE d == due[w]
               key == IdempotencyKey(schedule.id, d.time)
               next == NextTime(d.expr, d.at)
               m == [id |-> schedule.id, time |-> d.time, at |-> d.at, expr |-> d.expr]
    <2>1. /\ rowLock = w /\ rowLock' = NoWorker /\ keys' = keys \cup {key}
          /\ sent' = IF key \in keys THEN sent ELSE Append(sent, m)
          /\ \/ schedule' = [schedule EXCEPT !.suspended = TRUE] /\ nextAt' = nextAt
             \/ nextAt' = next /\ schedule' = schedule
          /\ due' = [due EXCEPT ![w] = NotDue]
          /\ UNCHANGED <<clock, scheduleIds, call>>
      BY <1>13 DEF CommitDue
    <2>2. /\ d \in [at : Nat, time : Nat, expr : AnyExpression] /\ d.expr \in Expression
          /\ NewestOfTimes(d.expr, d.time, d.at)
      BY <1>t, <2>1 DEF SchedulesType, LockInv
    <2>3. next \in Nat
      BY <2>2, NextTimeIsTime
    <2> HIDE DEF next
    <2>4. /\ m \in SentRow /\ m.id = schedule.id /\ m.time = d.time /\ m.at = d.at /\ m.expr = d.expr
      BY <1>e, <2>2 DEF SentRow
    <2> HIDE DEF d, m
    <2>5. NotDue \in [at : Nat, time : Nat, expr : AnyExpression]
      BY DEF NotDue, AnyExpression
    <2>6. sent \in Seq(SentRow)
      BY <1>t DEF SchedulesType
    <2>7. sent' \in Seq(SentRow)
      BY <2>1, <2>4, <2>6
    <2>8. SchedulesType'
      BY <1>t, <2>1, <2>3, <2>5, <2>7 DEF SchedulesType
    <2>9. LockInv' /\ ExpressionInv'
      BY <1>t, <2>1 DEF LockInv, ExpressionInv
    <2>10. KeyOfSent' /\ ScheduledOnce' /\ NewestDueOnly'
      <3>k. \A i \in DOMAIN sent : IdempotencyKey(sent[i].id, sent[i].time) \in keys
        BY DEF SchedulesInv, KeyOfSent
      <3>1. CASE key \in keys
        <4>1. sent' = sent /\ keys' = keys
          BY <2>1, <3>1
        <4>. QED BY <4>1, SentUnchanged
      <3>2. CASE key \notin keys
        <4>1. /\ DOMAIN sent = 1 .. Len(sent) /\ Len(sent) \in Nat
              /\ DOMAIN sent' = 1 .. Len(sent) + 1
              /\ sent'[Len(sent) + 1] = m
              /\ \A i \in 1 .. Len(sent) : sent'[i] = sent[i]
          BY <2>1, <2>4, <2>6, <3>2
        <4>2. KeyOfSent'
          BY <2>1, <2>4, <3>k, <4>1 DEF KeyOfSent, IdempotencyKey
        <4>3. ScheduledOnce'
          <5>1. \A i \in 1 .. Len(sent) : ~(sent[i].id = m.id /\ sent[i].time = m.time)
            BY <2>4, <3>2, <3>k, <4>1
          <5>. QED BY <4>1, <5>1 DEF SchedulesInv, ScheduledOnce
        <4>4. NewestDueOnly'
          BY <2>2, <2>4, <4>1 DEF SchedulesInv, NewestDueOnly, NewestOfTimes
        <4>. QED BY <4>2, <4>3, <4>4
      <3>. QED BY <3>1, <3>2
    <2>. QED BY <2>8, <2>9, <2>10 DEF SchedulesInv
  <1>14. ASSUME NEW w \in ScheduleWorker, RollBackDue(w) PROVE SchedulesInv'
    <2>1. /\ rowLock' = NoWorker /\ due' = [due EXCEPT ![w] = NotDue]
          /\ UNCHANGED <<clock, scheduleIds, schedule, nextAt, keys, sent, call>>
      BY <1>14 DEF RollBackDue, scheduleRow
    <2>2. NotDue \in [at : Nat, time : Nat, expr : AnyExpression]
      BY DEF NotDue, AnyExpression
    <2>. QED BY <1>t, <2>1, <2>2, SentUnchanged DEF SchedulesInv, SchedulesType, ExpressionInv, LockInv
  <1>. QED BY <1>1, <1>2, <1>3, <1>4, <1>5, <1>6, <1>7, <1>8, <1>9, <1>10, <1>11, <1>12, <1>13, <1>14
           DEF SchedulesNext, RegisterSchedule, Unsuspend, produceDue

\* Only the commit of a producing transaction sends, and the row it holds is in
\* force.
LEMMA OnlyDueIsSent ==
  ASSUME SchedulesInv, SchedulesNext, sent' # sent
  PROVE  schedule.id # NoSchedule /\ ~schedule.suspended
  <1>1. PICK w \in ScheduleWorker : CommitDue(w)
    BY DEF SchedulesNext, TickClock, RegisterSchedule, BeginRegister, InsertSchedule, SeedReplacement,
       ReplaceSchedule, Unsuspend, BeginUnsuspend, UnsuspendSchedule, BeginRunSchedule, RunSchedule,
       SuspendSchedule, DeleteSchedule, produceDue, ClaimDue, RollBackDue
  <1>. QED BY <1>1, SchedulesBounds DEF CommitDue, SchedulesInv, LockInv

-----------------------------------------------------------------------------
(* The status of a schedule's messages. *)

ReportRecord ==
    [pc : {"groups", "messages", "head", "outcomes"}, kind : {"status", "list"},
     groups : SUBSET StatusGroup, messages : SUBSET Nat, head : Nat,
     rows : Seq(UNION {[M -> [outcome : {"succeeded", "failed", "superseded", "deferred", "pending"},
                              by : Nat]] : M \in SUBSET Nat})]

\* The head is the newest message, or that one is gone.
HeadIdInv ==
    /\ produced \in Nat /\ headId \in 0 .. produced
    /\ requests \in SUBSET (1 .. produced)
    /\ produced \in requests => headId = produced
    /\ receives \in SUBSET StatusGroup

\* A message of the report that is not its head has been replaced or removed
\* since: the head was read after the messages.
ReplacedOrGone(i) == i < produced \/ i \notin requests

ReportInv ==
    /\ report = NoReport \/ report \in ReportRecord
    /\ report # NoReport =>
         /\ report.messages \subseteq 1 .. produced
         /\ report.pc = "groups" => report.messages = {}
         /\ report.pc \in {"groups", "messages", "head"} => report.rows = <<>>
         /\ report.pc = "outcomes" =>
              \A i \in report.messages : i # report.head => ReplacedOrGone(i)
         /\ \A j \in DOMAIN report.rows : \A i \in DOMAIN report.rows[j] :
              /\ i \in 1 .. produced
              /\ report.rows[j][i].outcome = "superseded" => ReplacedOrGone(i)
              /\ report.rows[j][i].by # 0 => report.rows[j][i].by \in i + 1 .. produced

StatusInv == HeadIdInv /\ ReportInv

\* A report that is being put together is not the absence of one.
LEMMA ReportIsSome == \A x \in ReportRecord : x # NoReport
  <1>1. NoReport.pc = "none"
    BY DEF NoReport
  <1>2. \A x \in ReportRecord : x.pc # "none"
    BY DEF ReportRecord
  <1>. QED BY <1>1, <1>2

\* The order of the statements.
LEMMA ReadOrder ==
  /\ NextRead("groups") = "messages" /\ NextRead("messages") = "head"
  /\ NextRead("head") = "outcomes" /\ Reads[1] = "groups"
  <1>1. /\ Len(Reads) = 4 /\ 2 .. Len(Reads) = {2, 3, 4} /\ Reads[1] = "groups"
        /\ Reads[2] = "messages" /\ Reads[3] = "head" /\ Reads[4] = "outcomes"
    BY DEF Reads
  <1>2. (CHOOSE i \in 2 .. Len(Reads) : Reads[i - 1] = "groups") = 2
    BY <1>1
  <1>3. (CHOOSE i \in 2 .. Len(Reads) : Reads[i - 1] = "messages") = 3
    BY <1>1
  <1>4. (CHOOSE i \in 2 .. Len(Reads) : Reads[i - 1] = "head") = 4
    BY <1>1
  <1>. QED BY <1>1, <1>2, <1>3, <1>4 DEF NextRead

\* What the report says of replaced messages.
LEMMA StatusSafe == StatusInv => SupersededWasReplaced
  BY DEF StatusInv, ReportInv, ReplacedOrGone, SupersededWasReplaced

\* No message, no report.
LEMMA StatusStart == ScheduleStatusInit => StatusInv
  BY DEF ScheduleStatusInit, StatusInv, HeadIdInv, ReportInv

\* What was replaced or gone stays so while messages come and go.
LEMMA ReportStands ==
  ASSUME StatusInv, HeadIdInv', UNCHANGED report, produced <= produced',
         \A i \in 1 .. produced : i \in requests' => i \in requests
  PROVE  StatusInv'
  <1>1. \A i \in 1 .. produced : /\ i \in 1 .. produced' /\ i + 1 .. produced \subseteq i + 1 .. produced'
                                 /\ ReplacedOrGone(i) => ReplacedOrGone(i)'
    BY DEF StatusInv, HeadIdInv, ReplacedOrGone
  <1>2. ReportInv'
    <2>1. CASE report = NoReport
      BY <2>1 DEF ReportInv
    <2>2. CASE report # NoReport
      BY <1>1, <2>2 DEF StatusInv, ReportInv
    <2>. QED BY <2>1, <2>2
  <1>. QED BY <1>2 DEF StatusInv

\* A step of the report only.
LEMMA StatusStep ==
  ASSUME StatusInv, ScheduleStatusNext
  PROVE  StatusInv'
  <1>t. HeadIdInv /\ ReportInv
    BY DEF StatusInv
  <1>n. \A pc : report.pc = pc /\ pc # "none" => report # NoReport
    BY DEF NoReport
  <1>1. CASE ProduceRequest
    <2>1. /\ produced' = produced + 1 /\ requests' = requests \cup {produced + 1}
          /\ headId' = produced + 1 /\ UNCHANGED <<receives, report>>
      BY <1>1 DEF ProduceRequest
    <2>2. HeadIdInv'
      BY <1>t, <2>1 DEF HeadIdInv
    <2>3. produced <= produced' /\ \A i \in 1 .. produced : i \in requests' => i \in requests
      BY <1>t, <2>1 DEF HeadIdInv
    <2>. QED BY <2>1, <2>2, <2>3, ReportStands
  <1>2. CASE SweepRequest
    <2> DEFINE m == Min(requests)
    <2>1. /\ requests # {} /\ requests' = requests \ {m} /\ headId' = IF headId = m THEN 0 ELSE headId
          /\ UNCHANGED <<produced, receives, report>>
      BY <1>2 DEF SweepRequest
    <2>m. m \in Nat
      <3>1. requests \in SUBSET Nat
        BY <1>t DEF HeadIdInv
      <3>. QED BY <2>1, <3>1, MinOfNaturals
    <2> HIDE DEF m
    <2>2. HeadIdInv'
      BY <1>t, <2>1, <2>m DEF HeadIdInv
    <2>3. produced <= produced' /\ \A i \in 1 .. produced : i \in requests' => i \in requests
      BY <1>t, <2>1 DEF HeadIdInv
    <2>. QED BY <2>1, <2>2, <2>3, ReportStands
  <1>3. ASSUME UNCHANGED <<requests, produced, headId, report>>, receives' \in SUBSET StatusGroup
        PROVE  StatusInv'
    BY <1>t, <1>3 DEF StatusInv, HeadIdInv, ReportInv, ReplacedOrGone
  <1>4. ASSUME NEW y \in ReportRecord,
               report' = y /\ UNCHANGED <<requests, produced, headId, receives>>,
               y.messages \subseteq 1 .. produced,
               y.pc = "groups" => y.messages = {},
               y.pc # "outcomes" => y.rows = <<>>,
               y.pc = "outcomes" => \A i \in y.messages : i # y.head => ReplacedOrGone(i),
               \A j \in DOMAIN y.rows : \A i \in DOMAIN y.rows[j] :
                   /\ i \in 1 .. produced
                   /\ y.rows[j][i].outcome = "superseded" => ReplacedOrGone(i)
                   /\ y.rows[j][i].by # 0 => y.rows[j][i].by \in i + 1 .. produced
        PROVE  StatusInv'
    <2>1. HeadIdInv'
      BY <1>t, <1>4 DEF HeadIdInv
    <2>2. \A i : ReplacedOrGone(i)' <=> ReplacedOrGone(i)
      BY <1>4 DEF ReplacedOrGone
    <2>3. ReportInv'
      BY <1>4, <2>2 DEF ReportInv
    <2>. QED BY <2>1, <2>3 DEF StatusInv
  <1>r. ASSUME NEW pc \in {"groups", "messages", "head", "outcomes"}, report.pc = pc
        PROVE  report \in ReportRecord /\ report # NoReport
    BY <1>t, <1>r DEF ReportInv, NoReport
  <1>5. ASSUME NEW kind \in {"status", "list"}, AskForReport(kind) PROVE StatusInv'
    <2> DEFINE y == [pc |-> "groups", kind |-> kind, groups |-> {}, messages |-> {}, head |-> 0, rows |-> <<>>]
    <2>1. report' = y /\ UNCHANGED <<requests, produced, headId, receives>>
      BY <1>5, ReadOrder DEF AskForReport
    <2>2. y \in ReportRecord /\ y.pc = "groups" /\ y.messages = {} /\ y.rows = <<>>
      BY DEF ReportRecord
    <2> HIDE DEF y
    <2>. QED BY <1>4, <2>1, <2>2
  <1>6. CASE matchingGroups
    <2> DEFINE y == [report EXCEPT !.groups = receives, !.pc = "messages"]
    <2>1. report.pc = "groups" /\ report' = y /\ UNCHANGED <<requests, produced, headId, receives>>
      BY <1>6, ReadOrder DEF matchingGroups
    <2>2. report \in ReportRecord /\ report # NoReport /\ report.messages = {} /\ report.rows = <<>>
      BY <1>t, <1>r, <2>1 DEF ReportInv
    <2>3. y \in ReportRecord /\ y.pc = "messages" /\ y.messages = {} /\ y.rows = <<>>
      BY <1>t, <2>2 DEF ReportRecord, HeadIdInv
    <2> HIDE DEF y
    <2>. QED BY <1>4, <2>1, <2>3
  <1>7a. ASSUME NEW read \in SUBSET (1 .. produced), report.pc = "messages",
                report' = [report EXCEPT !.messages = read, !.pc = "head"],
                UNCHANGED <<requests, produced, headId, receives>>
         PROVE  StatusInv'
    <2> DEFINE y == [report EXCEPT !.messages = read, !.pc = "head"]
    <2>1. report \in ReportRecord /\ report # NoReport /\ report.rows = <<>>
      BY <1>t, <1>r, <1>7a DEF ReportInv
    <2>2. read \in SUBSET Nat
      <3>1. \A i \in 1 .. produced : i \in Nat
        BY <1>t DEF HeadIdInv
      <3>. QED BY <3>1
    <2>3. y \in ReportRecord /\ y.pc = "head" /\ y.messages = read /\ y.rows = <<>>
      BY <2>1, <2>2 DEF ReportRecord
    <2> HIDE DEF y
    <2>4. report' = y
      BY <1>7a DEF y
    <2>. QED BY <1>4, <1>7a, <2>3, <2>4
  <1>7. CASE keyMessages
    <2> DEFINE read == IF report.kind = "status" THEN requests ELSE NewestOf(requests)
    <2>1. /\ report.pc = "messages" /\ report' = [report EXCEPT !.messages = read, !.pc = "head"]
          /\ UNCHANGED <<requests, produced, headId, receives>>
      BY <1>7, ReadOrder DEF keyMessages
    <2>2. requests \subseteq 1 .. produced
      BY <1>t DEF HeadIdInv
    <2>3. NewestOf(requests) \subseteq requests
      BY DEF NewestOf
    <2>4. read \in SUBSET (1 .. produced)
      BY <2>2, <2>3
    <2> HIDE DEF read
    <2>. QED BY <1>7a, <2>1, <2>4
  \* Every message older than the newest has been replaced; the newest is the
  \* head, or gone.
  <1>8. CASE readHeadId
    <2> DEFINE y == [report EXCEPT !.head = headId, !.pc = "outcomes"]
    <2>1. report.pc = "head" /\ report' = y /\ UNCHANGED <<requests, produced, headId, receives>>
      BY <1>8, ReadOrder DEF readHeadId
    <2>2. /\ report \in ReportRecord /\ report # NoReport /\ report.rows = <<>>
          /\ report.messages \subseteq 1 .. produced
      BY <1>t, <1>r, <2>1 DEF ReportInv
    <2>3. /\ y \in ReportRecord /\ y.pc = "outcomes" /\ y.head = headId
          /\ y.messages = report.messages /\ y.rows = <<>>
      <3>1. headId \in Nat
        BY <1>t DEF HeadIdInv
      <3>. QED BY <2>2, <3>1 DEF ReportRecord
    <2>4. \A i \in report.messages : i # headId => ReplacedOrGone(i)
      BY <1>t, <2>2 DEF HeadIdInv, ReplacedOrGone
    <2> HIDE DEF y
    <2>. QED BY <1>4, <2>1, <2>2, <2>3, <2>4
  <1>9. ASSUME NEW g \in StatusGroup, messageOutcomes(g) PROVE StatusInv'
    <2> DEFINE M == report.messages
               line == [i \in M |-> [outcome |-> Outcome(i, outcomes[g][i]), by |-> SupersededBy(i)]]
               y == [report EXCEPT !.groups = @ \ {g}, !.rows = Append(@, line)]
    <2>1. report.pc = "outcomes" /\ report' = y /\ UNCHANGED <<requests, produced, headId, receives>>
      BY <1>9 DEF messageOutcomes
    <2>2. /\ report \in ReportRecord /\ report # NoReport /\ M \subseteq 1 .. produced
          /\ \A i \in M : i # report.head => ReplacedOrGone(i)
      BY <1>t, <1>r, <2>1 DEF ReportInv
    <2>3. ASSUME NEW i \in M
          PROVE  /\ SupersededBy(i) \in Nat
                 /\ SupersededBy(i) # 0 => SupersededBy(i) \in i + 1 .. produced
      <3> DEFINE above == {n \in M : n > i}
      <3>1. above \in SUBSET Nat /\ \A n \in above : n \in i + 1 .. produced
        BY <1>t, <2>2 DEF HeadIdInv
      <3>2. (\E n \in M : n > i) <=> above # {}
        OBVIOUS
      <3>3. SupersededBy(i) = IF above # {} THEN Min(above) ELSE 0
        BY <3>2 DEF SupersededBy
      <3> HIDE DEF above, M
      <3>4. CASE above # {}
        <4>1. Min(above) \in above
          BY <3>1, <3>4, MinOfNaturals
        <4>. QED BY <3>1, <3>3, <3>4, <4>1
      <3>. QED BY <3>3, <3>4
    <2>4. \A i \in M : /\ Outcome(i, outcomes[g][i]) \in
                            {"succeeded", "failed", "superseded", "deferred", "pending"}
                       /\ Outcome(i, outcomes[g][i]) = "superseded" => i # report.head
      BY DEF Outcome
    <2>5. /\ line \in [M -> [outcome : {"succeeded", "failed", "superseded", "deferred", "pending"}, by : Nat]]
          /\ \A i \in M : /\ line[i].outcome = Outcome(i, outcomes[g][i])
                          /\ line[i].by = SupersededBy(i)
      BY <2>3, <2>4
    <2>6. DOMAIN line = M
      OBVIOUS
    <2>7. /\ line \in UNION {[D -> [outcome : {"succeeded", "failed", "superseded", "deferred", "pending"},
                                    by : Nat]] : D \in SUBSET Nat}
          /\ report.rows \in Seq(UNION {[D -> [outcome : {"succeeded", "failed", "superseded",
                                                          "deferred", "pending"},
                                               by : Nat]] : D \in SUBSET Nat})
      <3>1. M \in SUBSET Nat
        BY <2>2 DEF ReportRecord
      <3> HIDE DEF line, M
      <3>. QED BY <2>2, <2>5, <3>1 DEF ReportRecord
    <2> DEFINE rowsNext == Append(report.rows, line)
    <2> HIDE DEF line
    <2>8. /\ rowsNext \in Seq(UNION {[D -> [outcome : {"succeeded", "failed", "superseded",
                                                       "deferred", "pending"},
                                            by : Nat]] : D \in SUBSET Nat})
          /\ \A j \in DOMAIN rowsNext : \/ j \in DOMAIN report.rows /\ rowsNext[j] = report.rows[j]
                                        \/ rowsNext[j] = line
      BY <2>7
    <2> HIDE DEF rowsNext
    <2>9. /\ y \in ReportRecord /\ y.pc = "outcomes" /\ y.messages = M /\ y.head = report.head
          /\ y.rows = rowsNext
      BY <2>1, <2>2, <2>8 DEF ReportRecord, rowsNext
    <2> HIDE DEF y
    <2>10. ASSUME NEW j \in DOMAIN y.rows, NEW i \in DOMAIN y.rows[j]
           PROVE  /\ i \in 1 .. produced
                  /\ y.rows[j][i].outcome = "superseded" => ReplacedOrGone(i)
                  /\ y.rows[j][i].by # 0 => y.rows[j][i].by \in i + 1 .. produced
      <3>1. CASE j \in DOMAIN report.rows /\ rowsNext[j] = report.rows[j]
        BY <1>t, <2>2, <2>9, <3>1 DEF ReportInv
      <3>2. CASE rowsNext[j] = line
        <4>1. i \in M
          BY <2>6, <2>9, <3>2
        <4>. QED BY <2>2, <2>3, <2>4, <2>5, <2>9, <3>2, <4>1
      <3>. QED BY <2>8, <2>9, <3>1, <3>2
    <2> HIDE DEF M
    <2>. QED BY <1>4, <2>1, <2>2, <2>9, <2>10
  <1>10. CASE ReturnReport
    <2>1. report' = NoReport /\ UNCHANGED <<requests, produced, headId, receives>>
      BY <1>10 DEF ReturnReport
    <2>. QED BY <1>t, <2>1 DEF StatusInv, HeadIdInv, ReportInv
  <1>11. ASSUME NEW g \in StatusGroup, ClaimRequest(g) \/ Rebind(g) PROVE StatusInv'
    <2>1. receives' \in SUBSET StatusGroup
      BY <1>t, <1>11 DEF ClaimRequest, Rebind, HeadIdInv
    <2>. QED BY <1>3, <1>11, <2>1 DEF ClaimRequest, Rebind
  <1>12. ASSUME NEW g \in StatusGroup, NEW m \in Request, FinishRequest(g, m) PROVE StatusInv'
    BY <1>t, <1>3, <1>12 DEF FinishRequest, HeadIdInv
  <1>. QED BY <1>1, <1>2, <1>5, <1>6, <1>7, <1>8, <1>9, <1>10, <1>11, <1>12 DEF ScheduleStatusNext
-----------------------------------------------------------------------------
(* Streams. *)

StreamConfig == [size : Nat, ttl : Nat]
ConfigLine == [name : Name, config : StreamConfig]
StreamCall == [pc : {"start", "locking", "creating", "found", "declaring", "returned"},
               id : 0 .. MaxStreamId, found : StreamConfig]

RegistryType ==
    /\ streamIds \in 0 .. MaxStreamId
    /\ nameOf \in [StreamId -> Name \cup {NoName}]
    /\ config \in [StreamId -> StreamConfig]
    /\ configLog \in [StreamId -> Seq(ConfigLine)]
    /\ tables \in SUBSET StreamId /\ workers \in SUBSET StreamId
    /\ DOMAIN parts = StreamId
    /\ reg \in [Registrant -> StreamCall]
    /\ DOMAIN drop = {"pc", "id", "forced", "passes", "batch"}

\* A row has an id that was drawn, and its name is its own.
NamesInv ==
    /\ \A s \in Registered : s <= streamIds
    /\ \A s, u \in Registered : nameOf[s] = nameOf[u] => s = u

\* A call that has found or made a stream knows its id, and so does a destruction.
CallsInv ==
    /\ \A c \in Registrant : reg[c].pc \in {"found", "declaring"} => reg[c].id \in StreamId
    /\ drop.pc # "idle" => drop.id \in StreamId

StreamsInv == RegistryType /\ NamesInv /\ CallsInv /\ LogEndsInConfig /\ RowsAndTablesAgree

\* Get finds the row of a name, or there is none.
LEMMA GetFinds ==
  ASSUME NEW n \in Name
  PROVE  /\ Get(n) # NoStream => Get(n) \in Registered /\ nameOf[Get(n)] = n
         /\ Get(n) = NoStream => \A s \in StreamId : nameOf[s] # n
  <1>1. NoStream \notin StreamId
    BY DEF NoStream, StreamId
  <1>2. CASE \E s \in StreamId : nameOf[s] = n
    <2>1. Get(n) \in StreamId /\ nameOf[Get(n)] = n
      BY <1>2 DEF Get
    <2>. QED BY <1>1, <2>1, StreamRegistryBounds DEF Registered
  <1>3. CASE ~\E s \in StreamId : nameOf[s] = n
    BY <1>1, <1>3 DEF Get
  <1>. QED BY <1>2, <1>3

\* A system without streams.
LEMMA StreamsStart == StreamRegistryInit => StreamsInv
  <1> SUFFICES ASSUME StreamRegistryInit PROVE StreamsInv
    OBVIOUS
  <1>1. Registered = {}
    BY DEF StreamRegistryInit, Registered
  <1>2. RegistryType
    BY StreamRegistryBounds
       DEF StreamRegistryInit, RegistryType, NotCalled, NoDrop, NoConfig, NoStream, StreamCall, StreamConfig
  <1>3. NamesInv /\ CallsInv /\ LogEndsInConfig /\ RowsAndTablesAgree
    BY <1>1 DEF StreamRegistryInit, NamesInv, CallsInv, LogEndsInConfig, RowsAndTablesAgree, NotCalled, NoDrop
  <1>. QED BY <1>2, <1>3 DEF StreamsInv

\* A step of the calls only.
LEMMA CallsStep ==
  ASSUME StreamsInv, UNCHANGED <<streamRows, streamTables, workers>>,
         reg' \in [Registrant -> StreamCall],
         DOMAIN drop' = {"pc", "id", "forced", "passes", "batch"}, CallsInv'
  PROVE  StreamsInv'
  BY DEF StreamsInv, RegistryType, NamesInv, LogEndsInConfig, RowsAndTablesAgree, streamRows,
     streamTables, Registered, Snapshot

\* Only the registration of one process changes.
OnlyCallOf(c) ==
    /\ reg' = [x \in Registrant |-> reg'[x]] /\ reg'[c] \in StreamCall
    /\ \A x \in Registrant : x # c => reg'[x] = reg[x]

\* A step of one registration.
LEMMA CallMoves ==
  ASSUME StreamsInv, NEW c \in Registrant, UNCHANGED drop, OnlyCallOf(c),
         reg'[c].pc \in {"found", "declaring"} => reg'[c].id \in StreamId
  PROVE  /\ reg' \in [Registrant -> StreamCall] /\ CallsInv'
         /\ DOMAIN drop' = {"pc", "id", "forced", "passes", "batch"}
  <1>1. reg \in [Registrant -> StreamCall] /\ CallsInv /\ DOMAIN drop = {"pc", "id", "forced", "passes", "batch"}
    BY DEF StreamsInv, RegistryType
  <1>2. \A x \in Registrant : reg'[x] \in StreamCall
    BY <1>1 DEF OnlyCallOf
  <1>3. reg' \in [Registrant -> StreamCall]
    BY <1>2 DEF OnlyCallOf
  <1>4. CallsInv'
    BY <1>1 DEF CallsInv, OnlyCallOf
  <1>. QED BY <1>1, <1>3, <1>4

\* What an action writes of a registration.
LEMMA CallWrites ==
  ASSUME reg \in [Registrant -> StreamCall], NEW c \in Registrant
  PROVE  /\ \A p \in {"locking", "creating"} : reg' = [reg EXCEPT ![c].pc = p] =>
              OnlyCallOf(c) /\ reg'[c].pc = p
         /\ \A s \in 0 .. MaxStreamId : reg' = [reg EXCEPT ![c].pc = "declaring", ![c].id = s] =>
              OnlyCallOf(c) /\ reg'[c].id = s
         /\ \A s \in 0 .. MaxStreamId : config[s] \in StreamConfig /\ reg' = Found(c, s) =>
              OnlyCallOf(c) /\ reg'[c].id = s
         /\ reg' = [reg EXCEPT ![c].pc = "declaring", ![c].found = NoConfig] =>
              OnlyCallOf(c) /\ reg'[c].id = reg[c].id
         /\ reg' = [reg EXCEPT ![c] = Returned] =>
              OnlyCallOf(c) /\ reg'[c].pc = "returned"
  <1>r. reg[c] \in StreamCall
    OBVIOUS
  <1>1. ASSUME NEW p \in {"locking", "creating"}, reg' = [reg EXCEPT ![c].pc = p]
        PROVE  OnlyCallOf(c) /\ reg'[c].pc = p
    BY <1>1, <1>r DEF StreamCall, OnlyCallOf
  <1>2. ASSUME NEW s \in 0 .. MaxStreamId, reg' = [reg EXCEPT ![c].pc = "declaring", ![c].id = s]
        PROVE  OnlyCallOf(c) /\ reg'[c].id = s
    BY <1>2, <1>r DEF StreamCall, OnlyCallOf
  <1>3. ASSUME NEW s \in 0 .. MaxStreamId, config[s] \in StreamConfig, reg' = Found(c, s)
        PROVE  OnlyCallOf(c) /\ reg'[c].id = s
    BY <1>3, <1>r DEF StreamCall, Found, OnlyCallOf
  <1>4. ASSUME reg' = [reg EXCEPT ![c].pc = "declaring", ![c].found = NoConfig]
        PROVE  OnlyCallOf(c) /\ reg'[c].id = reg[c].id
    BY <1>4, <1>r DEF StreamCall, NoConfig, StreamConfig, OnlyCallOf
  <1>5. ASSUME reg' = [reg EXCEPT ![c] = Returned]
        PROVE  OnlyCallOf(c) /\ reg'[c].pc = "returned"
    <2>1. Returned \in StreamCall /\ Returned.pc = "returned"
      BY StreamRegistryBounds DEF Returned, NotCalled, StreamCall, StreamConfig, NoStream, NoConfig
    <2>. QED BY <1>5, <2>1 DEF OnlyCallOf
  <1>. QED BY <1>1, <1>2, <1>3, <1>4, <1>5

\* The newest line of a log that was just written.
LEMMA LastWritten ==
  ASSUME NEW q \in Seq(ConfigLine), NEW x \in ConfigLine
  PROVE  /\ Append(q, x) # <<>> /\ Last(Append(q, x)) = x
         /\ <<x>> # <<>> /\ Last(<<x>>) = x
  <1>1. Len(Append(q, x)) = Len(q) + 1 /\ Append(q, x)[Len(q) + 1] = x /\ Append(q, x) # <<>>
    OBVIOUS
  <1>2. Len(<<x>>) = 1 /\ <<x>>[1] = x /\ <<x>> # <<>>
    OBVIOUS
  <1>. QED BY <1>1, <1>2 DEF Last

\* A step that writes one row and its log.
LEMMA OneRowWritten ==
  ASSUME StreamsInv, NEW s \in StreamId, streamIds' \in Nat, s <= streamIds', streamIds <= streamIds',
         \A u \in StreamId : u # s => /\ nameOf'[u] = nameOf[u] /\ config'[u] = config[u]
                                      /\ configLog'[u] = configLog[u],
         nameOf'[s] # NoName =>
             /\ \A u \in StreamId : u # s => nameOf[u] # nameOf'[s]
             /\ configLog'[s] # <<>>
             /\ Last(configLog'[s]) = [name |-> nameOf'[s], config |-> config'[s]]
  PROVE  NamesInv' /\ LogEndsInConfig'
  <1>1. /\ \A u \in StreamId : nameOf[u] # NoName =>
             /\ u <= streamIds /\ configLog[u] # <<>>
             /\ Last(configLog[u]) = [name |-> nameOf[u], config |-> config[u]]
        /\ \A u, v \in StreamId : nameOf[u] # NoName /\ nameOf[u] = nameOf[v] => u = v
    BY DEF StreamsInv, NamesInv, LogEndsInConfig, Registered, Snapshot
  <1>2. streamIds \in Nat /\ \A u \in StreamId : u \in Nat
    BY StreamRegistryBounds DEF StreamsInv, RegistryType, StreamId
  <1>3. \A u \in StreamId : nameOf'[u] # NoName => u <= streamIds'
    <2> SUFFICES ASSUME NEW u \in StreamId, nameOf'[u] # NoName, u # s PROVE u <= streamIds'
      OBVIOUS
    <2>1. u <= streamIds
      BY <1>1
    <2>. QED BY <1>2, <2>1
  <1>4. \A u, v \in StreamId : nameOf'[u] # NoName /\ nameOf'[u] = nameOf'[v] => u = v
    <2> SUFFICES ASSUME NEW u \in StreamId, NEW v \in StreamId, nameOf'[u] # NoName, nameOf'[u] = nameOf'[v]
                 PROVE  u = v
      OBVIOUS
    <2>1. CASE u = s
      BY <2>1
    <2>2. CASE v = s
      BY <2>2
    <2>3. CASE u # s /\ v # s
      BY <1>1, <2>3
    <2>. QED BY <2>1, <2>2, <2>3
  <1>5. \A u \in StreamId : nameOf'[u] # NoName =>
             /\ configLog'[u] # <<>>
             /\ Last(configLog'[u]) = [name |-> nameOf'[u], config |-> config'[u]]
    <2> SUFFICES ASSUME NEW u \in StreamId, nameOf'[u] # NoName
                 PROVE  /\ configLog'[u] # <<>>
                        /\ Last(configLog'[u]) = [name |-> nameOf'[u], config |-> config'[u]]
      OBVIOUS
    <2>1. CASE u = s
      BY <2>1
    <2>2. CASE u # s
      BY <1>1, <2>2
    <2>. QED BY <2>1, <2>2
  <1>. QED BY <1>3, <1>4, <1>5 DEF NamesInv, LogEndsInConfig, Registered, Snapshot

\* The rows that registration, rename, production and destruction write agree
\* with their log and their tables.
LEMMA StreamsStep ==
  ASSUME StreamsInv, StreamRegistryNext
  PROVE  StreamsInv'
  <1> USE StreamRegistryBounds
  <1>t. RegistryType /\ NamesInv /\ CallsInv /\ LogEndsInConfig /\ RowsAndTablesAgree
    BY DEF StreamsInv
  <1>y. reg \in [Registrant -> StreamCall]
    BY <1>t DEF RegistryType
  <1>1. ASSUME NEW c \in Registrant, FindStream(c) \/ LockName(c) PROVE StreamsInv'
    <2> DEFINE s == Get(NameOf[c])
    <2>1. /\ UNCHANGED <<streamRows, streamTables, workers, drop>>
          /\ \/ \E p \in {"locking", "creating"} : reg' = [reg EXCEPT ![c].pc = p]
             \/ s # NoStream /\ reg' = Found(c, s)
      BY <1>1 DEF FindStream, LockName
    <2>2. s # NoStream => s \in StreamId /\ config[s] \in StreamConfig /\ s \in 0 .. MaxStreamId
      BY <1>t, GetFinds DEF RegistryType, Registered, StreamId
    <2> HIDE DEF s
    <2>3. CASE \E p \in {"locking", "creating"} : reg' = [reg EXCEPT ![c].pc = p]
      <3>1. OnlyCallOf(c) /\ reg'[c].pc \in {"locking", "creating"}
        BY <1>y, <2>3, CallWrites
      <3>. QED BY <2>1, <3>1, CallMoves, CallsStep
    <2>4. CASE s # NoStream /\ reg' = Found(c, s)
      <3>1. OnlyCallOf(c) /\ reg'[c].id \in StreamId
        BY <1>y, <2>2, <2>4, CallWrites
      <3>. QED BY <2>1, <3>1, CallMoves, CallsStep
    <2>. QED BY <2>1, <2>3, <2>4
  <1>2. ASSUME NEW c \in Registrant, CreateStream(c) PROVE StreamsInv'
    <2> DEFINE s == streamIds + 1
    <2>1. CASE Get(NameOf[c]) # NoStream
      <3>1. reg' = [reg EXCEPT ![c] = Returned] /\ UNCHANGED <<streamRows, streamTables, workers, drop>>
        BY <1>2, <2>1 DEF CreateStream
      <3>2. OnlyCallOf(c) /\ reg'[c].pc = "returned"
        BY <1>y, <3>1, CallWrites
      <3>. QED BY <3>1, <3>2, CallMoves, CallsStep
    <2>2. CASE Get(NameOf[c]) = NoStream
      <3>1. /\ streamIds < MaxStreamId /\ streamIds' = s
            /\ nameOf' = [nameOf EXCEPT ![s] = NameOf[c]]
            /\ config' = [config EXCEPT ![s] = ConfigOf[c]]
            /\ configLog' = [configLog EXCEPT ![s] = <<[name |-> NameOf[c], config |-> ConfigOf[c]]>>]
            /\ tables' = tables \cup {s}
            /\ parts' = [parts EXCEPT ![s] = {0}]
            /\ reg' = [reg EXCEPT ![c].pc = "declaring", ![c].id = s]
            /\ UNCHANGED <<workers, drop>>
        BY <1>2, <2>2 DEF CreateStream
      <3>2. s \in StreamId /\ streamIds \in Nat /\ s \in 0 .. MaxStreamId
        BY <1>t, <3>1 DEF RegistryType, StreamId
      <3>3. NameOf[c] \in Name /\ ConfigOf[c] \in StreamConfig /\ \A u \in StreamId : nameOf[u] # NameOf[c]
        BY <2>2, GetFinds DEF StreamConfig
      <3>4. OnlyCallOf(c) /\ reg'[c].id \in StreamId
        BY <1>y, <3>1, <3>2, CallWrites
      <3>5. /\ reg' \in [Registrant -> StreamCall] /\ CallsInv'
            /\ DOMAIN drop' = {"pc", "id", "forced", "passes", "batch"}
        BY <3>1, <3>4, CallMoves
      <3>6. s \notin Registered
        BY <1>t, <3>2 DEF NamesInv
      <3>7. /\ Registered' = Registered \cup {s}
            /\ \A u \in StreamId : u # s => nameOf'[u] = nameOf[u]
            /\ nameOf'[s] = NameOf[c]
        BY <1>t, <3>1, <3>2, <3>3 DEF Registered, RegistryType
      <3> HIDE DEF s
      <3>l. <<[name |-> NameOf[c], config |-> ConfigOf[c]]>> \in Seq(ConfigLine)
        BY <3>3 DEF ConfigLine
      <3>8. RegistryType'
        BY <1>t, <3>1, <3>2, <3>3, <3>5, <3>l DEF RegistryType
      <3>m. /\ configLog'[s] = <<[name |-> NameOf[c], config |-> ConfigOf[c]]>> /\ config'[s] = ConfigOf[c]
            /\ \A u \in StreamId : u # s => config'[u] = config[u] /\ configLog'[u] = configLog[u]
        BY <1>t, <3>1, <3>2 DEF RegistryType
      <3>9. configLog'[s] # <<>> /\ Last(configLog'[s]) = [name |-> nameOf'[s], config |-> config'[s]]
        <4>1. [name |-> NameOf[c], config |-> ConfigOf[c]] \in ConfigLine
          BY <3>3 DEF ConfigLine
        <4>2. <<>> \in Seq(ConfigLine)
          OBVIOUS
        <4>. QED BY <3>m, <3>7, <4>1, <4>2, LastWritten
      <3>n. streamIds' \in Nat /\ s <= streamIds' /\ streamIds <= streamIds'
        BY <3>1, <3>2 DEF s
      <3>10. NamesInv' /\ LogEndsInConfig'
        BY <3>2, <3>3, <3>7, <3>9, <3>m, <3>n, OneRowWritten
      <3>11. RowsAndTablesAgree'
        BY <1>t, <3>1, <3>2, <3>6, <3>7 DEF RowsAndTablesAgree, RegistryType
      <3>. QED BY <3>5, <3>8, <3>10, <3>11 DEF StreamsInv
    <2>. QED BY <2>1, <2>2
  <1>3. ASSUME NEW c \in Registrant, ReplaceConfig(c) PROVE StreamsInv'
    <2> DEFINE s == reg[c].id
               updated == [config[s] EXCEPT !.ttl = ConfigOf[c].ttl]
    <2>0. s \in StreamId
      BY <1>t, <1>3 DEF ReplaceConfig, CallsInv
    <2>1. /\ UNCHANGED <<streamIds, nameOf, streamTables, workers, drop>>
          /\ \/ reg' = [reg EXCEPT ![c].pc = "declaring", ![c].found = NoConfig]
             \/ reg' = [reg EXCEPT ![c] = Returned]
          /\ \/ UNCHANGED <<config, configLog>>
             \/ /\ s \in Registered /\ config' = [config EXCEPT ![s] = updated]
                /\ configLog' = [configLog EXCEPT ![s] = Append(@, SnapshotOfRow(c, updated))]
      BY <1>3 DEF ReplaceConfig
    <2>2. OnlyCallOf(c) /\ (reg'[c].pc = "returned" \/ reg'[c].id = s)
      BY <1>y, <2>1, CallWrites
    <2>3. /\ reg' \in [Registrant -> StreamCall] /\ CallsInv'
          /\ DOMAIN drop' = {"pc", "id", "forced", "passes", "batch"}
      BY <2>0, <2>1, <2>2, CallMoves
    <2>4. CASE UNCHANGED <<config, configLog>>
      BY <2>1, <2>3, <2>4, CallsStep DEF streamRows
    <2>5. CASE /\ s \in Registered /\ config' = [config EXCEPT ![s] = updated]
               /\ configLog' = [configLog EXCEPT ![s] = Append(@, SnapshotOfRow(c, updated))]
      <3> DEFINE line == SnapshotOfRow(c, updated)
      <3>1. updated \in StreamConfig /\ config'[s] = updated /\ nameOf[s] \in Name
        <4>1. config[s] \in StreamConfig /\ ConfigOf[c].ttl \in Nat
          BY <1>t, <2>0 DEF RegistryType
        <4>2. updated \in StreamConfig
          BY <4>1 DEF StreamConfig
        <4> HIDE DEF updated, line
        <4>. QED BY <1>t, <2>0, <2>5, <4>2 DEF RegistryType, Registered
      <3>2. line = [name |-> nameOf[s], config |-> updated]
        BY DEF SnapshotOfRow
      <3> HIDE DEF s, updated, line
      <3>3. UNCHANGED <<streamIds, nameOf, tables, parts, workers>> /\ Registered' = Registered
        BY <2>1 DEF streamTables, Registered
      <3>4. line \in ConfigLine
        BY <3>1, <3>2 DEF ConfigLine
      <3>5. configLog'[s] = Append(configLog[s], line) /\ configLog[s] \in Seq(ConfigLine)
        BY <1>t, <2>0, <2>5 DEF RegistryType, line
      <3>6. /\ configLog' \in [StreamId -> Seq(ConfigLine)]
            /\ config' \in [StreamId -> StreamConfig]
            /\ \A u \in StreamId : u # s => config'[u] = config[u] /\ configLog'[u] = configLog[u]
        <4>1. Append(configLog[s], line) \in Seq(ConfigLine)
          BY <3>4, <3>5
        <4>2. configLog' = [configLog EXCEPT ![s] = Append(configLog[s], line)] /\ config' = [config EXCEPT ![s] = updated]
          BY <2>5 DEF line
        <4>. QED BY <1>t, <2>0, <3>1, <4>1, <4>2 DEF RegistryType
      <3>7. RegistryType'
        BY <1>t, <2>3, <3>3, <3>6 DEF RegistryType
      <3>8. configLog'[s] # <<>> /\ Last(configLog'[s]) = [name |-> nameOf'[s], config |-> config'[s]]
        <4>1. Append(configLog[s], line) # <<>> /\ Last(Append(configLog[s], line)) = line
          BY <3>4, <3>5, LastWritten
        <4>. QED BY <3>1, <3>2, <3>3, <3>5, <4>1
      <3>9. streamIds' \in Nat /\ s <= streamIds' /\ streamIds <= streamIds'
        BY <1>t, <2>5, <3>3 DEF RegistryType, NamesInv
      <3>10. nameOf'[s] # NoName => \A u \in StreamId : u # s => nameOf[u] # nameOf'[s]
        BY <1>t, <2>5, <3>3 DEF NamesInv, Registered
      <3>11. NamesInv' /\ LogEndsInConfig'
        BY <2>0, <3>3, <3>6, <3>8, <3>9, <3>10, OneRowWritten
      <3>12. RowsAndTablesAgree'
        BY <1>t, <3>3 DEF RowsAndTablesAgree
      <3>. QED BY <2>3, <3>7, <3>11, <3>12 DEF StreamsInv
    <2>. QED BY <2>1, <2>4, <2>5
  <1>4. ASSUME NEW c \in Registrant, DeclareWorkers(c) \/ AbandonRegister(c) PROVE StreamsInv'
    <2>1. /\ UNCHANGED <<streamRows, streamTables, drop>> /\ reg' = [reg EXCEPT ![c] = Returned]
          /\ UNCHANGED workers \/ \E s \in Registered : workers' = workers \cup {s}
      BY <1>4 DEF DeclareWorkers, AbandonRegister
    <2>2. OnlyCallOf(c) /\ reg'[c].pc = "returned"
      BY <1>y, <2>1, CallWrites
    <2>3. /\ reg' \in [Registrant -> StreamCall] /\ CallsInv'
          /\ DOMAIN drop' = {"pc", "id", "forced", "passes", "batch"}
      BY <2>1, <2>2, CallMoves
    <2>4. workers' \in SUBSET StreamId /\ workers' \subseteq workers \cup Registered
      BY <1>t, <2>1 DEF RegistryType, Registered
    <2>. QED BY <1>t, <2>1, <2>3, <2>4
             DEF StreamsInv, RegistryType, NamesInv, LogEndsInConfig, RowsAndTablesAgree, streamRows,
                 streamTables, Registered, Snapshot
  <1>5. ASSUME NEW from \in Name, NEW to \in Name, Rename(from, to) PROVE StreamsInv'
    <2> DEFINE s == Get(from)
               line == [name |-> to, config |-> config[s]]
    <2>1. /\ s # NoStream /\ Get(to) = NoStream
          /\ nameOf' = [nameOf EXCEPT ![s] = to]
          /\ configLog' = [configLog EXCEPT ![s] = Append(@, line)]
          /\ UNCHANGED <<streamIds, config, streamTables, workers, nameLock, reg, drop>>
      BY <1>5 DEF Rename
    <2>2. s \in Registered /\ \A u \in StreamId : nameOf[u] # to
      BY <2>1, GetFinds
    <2> HIDE DEF s
    <2>3. /\ s \in StreamId /\ Registered' = Registered /\ nameOf'[s] = to
          /\ \A u \in StreamId : u # s => nameOf'[u] = nameOf[u]
      BY <1>t, <2>1, <2>2 DEF RegistryType, Registered
    <2>4. line \in ConfigLine /\ line = [name |-> nameOf'[s], config |-> config'[s]]
      BY <1>t, <2>1, <2>3 DEF RegistryType, ConfigLine
    <2> HIDE DEF line
    <2>5. configLog'[s] = Append(configLog[s], line) /\ configLog[s] \in Seq(ConfigLine)
      BY <1>t, <2>1, <2>3 DEF RegistryType
    <2>6. /\ configLog' \in [StreamId -> Seq(ConfigLine)]
          /\ nameOf' \in [StreamId -> Name \cup {NoName}]
          /\ \A u \in StreamId : u # s => config'[u] = config[u] /\ configLog'[u] = configLog[u]
      <3>1. Append(configLog[s], line) \in Seq(ConfigLine)
        BY <2>4, <2>5
      <3>2. configLog' = [configLog EXCEPT ![s] = Append(configLog[s], line)]
        BY <2>1
      <3>. QED BY <1>t, <2>1, <2>3, <3>1, <3>2 DEF RegistryType
    <2>t. RegistryType' /\ CallsInv'
      BY <1>t, <2>1, <2>6 DEF RegistryType, CallsInv, streamTables
    <2>7. NamesInv' /\ LogEndsInConfig'
      <3>1. configLog'[s] # <<>> /\ Last(configLog'[s]) = [name |-> nameOf'[s], config |-> config'[s]]
        <4>1. Append(configLog[s], line) # <<>> /\ Last(Append(configLog[s], line)) = line
          BY <2>4, <2>5, LastWritten
        <4>. QED BY <2>4, <2>5, <4>1
      <3>2. streamIds' \in Nat /\ s <= streamIds' /\ streamIds <= streamIds'
        BY <1>t, <2>1, <2>2 DEF RegistryType, NamesInv
      <3>. QED BY <2>1, <2>2, <2>3, <2>6, <3>1, <3>2, OneRowWritten
    <2>8. RowsAndTablesAgree'
      BY <1>t, <2>1, <2>3 DEF RowsAndTablesAgree, streamTables
    <2>. QED BY <2>t, <2>7, <2>8 DEF StreamsInv
  \* Partitions come and go only where there are tables.
  <1>6. ASSUME UNCHANGED <<streamRows, tables, workers, reg>>,
               DOMAIN parts' = StreamId, \A s \in StreamId : s \notin tables => parts'[s] \subseteq parts[s],
               DOMAIN drop' = {"pc", "id", "forced", "passes", "batch"},
               drop'.pc # "idle" => drop'.id \in StreamId
        PROVE  StreamsInv'
    <2>1. RegistryType' /\ NamesInv' /\ CallsInv'
      BY <1>t, <1>6 DEF RegistryType, NamesInv, CallsInv, streamRows, Registered
    <2>2. LogEndsInConfig'
      BY <1>t, <1>6 DEF LogEndsInConfig, streamRows, Registered, Snapshot
    <2>3. RowsAndTablesAgree'
      BY <1>t, <1>6 DEF RowsAndTablesAgree, streamRows, Registered
    <2>. QED BY <2>1, <2>2, <2>3 DEF StreamsInv
  <1>d. DOMAIN parts = StreamId /\ DOMAIN drop = {"pc", "id", "forced", "passes", "batch"}
        /\ DOMAIN NoDrop = {"pc", "id", "forced", "passes", "batch"} /\ NoDrop.pc = "idle"
    BY <1>t DEF RegistryType, NoDrop
  <1>7. ASSUME NEW s \in StreamId, ProduceTo(s) \/ \E n \in 0 .. MaxPartition - 1 : CreatePartition(s, n)
        PROVE  StreamsInv'
    <2>1. /\ s \in tables /\ UNCHANGED <<streamRows, tables, workers, reg, drop>>
          /\ \/ parts' = parts
             \/ \E n \in 0 .. MaxPartition - 1 : parts' = [parts EXCEPT ![s] = @ \cup {n}]
      BY <1>7 DEF ProduceTo, CreatePartition
    <2>2. DOMAIN parts' = StreamId /\ \A u \in StreamId : u # s => parts'[u] = parts[u]
      BY <1>d, <2>1
    <2>3. drop'.pc # "idle" => drop'.id \in StreamId
      BY <1>t, <2>1 DEF CallsInv
    <2>. QED BY <1>6, <1>d, <2>1, <2>2, <2>3
  <1>8. ASSUME NEW n \in Name, NEW force \in BOOLEAN, FindDestroyed(n, force) PROVE StreamsInv'
    <2>1. /\ drop' = [drop EXCEPT !.pc = IF force THEN "counting" ELSE "asserting",
                                  !.id = Get(n), !.forced = force]
          /\ Get(n) \in StreamId /\ UNCHANGED <<streamRows, streamTables, workers, reg>>
      BY <1>8, GetFinds DEF FindDestroyed, Registered
    <2>2. DOMAIN drop' = {"pc", "id", "forced", "passes", "batch"} /\ drop'.id \in StreamId
      BY <1>d, <2>1
    <2>. QED BY <1>6, <1>d, <2>1, <2>2 DEF streamTables
  <1>9. CASE assertStreamIdle \/ CountPartitions \/ GiveUpDrain \/ AbandonDestroy
             \/ (\E batch \in SUBSET (0 .. MaxPartition - 1) : ListPartitions(batch))
             \/ DropBatchOfPartitions
    <2>1. /\ UNCHANGED <<streamRows, tables, workers, reg>>
          /\ parts' = parts \/ parts' = [parts EXCEPT ![drop.id] = @ \ drop.batch]
      BY <1>9 DEF assertStreamIdle, CountPartitions, GiveUpDrain, AbandonDestroy, ListPartitions,
         DropBatchOfPartitions, streamTables
    <2>2. \/ drop' = NoDrop
          \/ /\ drop.pc # "idle" /\ drop'.id = drop.id
             /\ DOMAIN drop' = {"pc", "id", "forced", "passes", "batch"}
      BY <1>9, <1>d DEF assertStreamIdle, CountPartitions, GiveUpDrain, AbandonDestroy, ListPartitions,
         DropBatchOfPartitions
    <2>3. DOMAIN drop' = {"pc", "id", "forced", "passes", "batch"} /\ (drop'.pc # "idle" => drop'.id \in StreamId)
      BY <1>t, <1>d, <2>2 DEF CallsInv
    <2>4. DOMAIN parts' = StreamId /\ \A s \in StreamId : parts'[s] \subseteq parts[s]
      BY <1>d, <2>1
    <2>. QED BY <1>6, <2>1, <2>3, <2>4
  <1>10. CASE DeleteStream
    <2> DEFINE s == drop.id
    <2>1. /\ nameOf' = [nameOf EXCEPT ![s] = NoName]
          /\ config' = [config EXCEPT ![s] = NoConfig]
          /\ configLog' = [configLog EXCEPT ![s] = <<>>]
          /\ workers' = workers \ {s} /\ tables' = tables \ {s}
          /\ parts' = [parts EXCEPT ![s] = {}]
          /\ drop' = NoDrop /\ UNCHANGED <<streamIds, reg>>
      BY <1>10 DEF DeleteStream, DroppedTables
    <2>2. s \in StreamId
      BY <1>t, <1>10 DEF DeleteStream, CallsInv
    <2> HIDE DEF s
    <2>3. /\ Registered' = Registered \ {s}
          /\ \A u \in StreamId : u # s => /\ nameOf'[u] = nameOf[u] /\ config'[u] = config[u]
                                          /\ configLog'[u] = configLog[u] /\ parts'[u] = parts[u]
          /\ parts'[s] = {}
      BY <1>t, <2>1, <2>2 DEF RegistryType, Registered
    <2>4. RegistryType' /\ CallsInv'
      <3>1. /\ <<>> \in Seq(ConfigLine)
            /\ NoConfig \in StreamConfig
        BY DEF NoConfig, StreamConfig
      <3>2. /\ nameOf' \in [StreamId -> Name \cup {NoName}]
            /\ config' \in [StreamId -> StreamConfig]
            /\ configLog' \in [StreamId -> Seq(ConfigLine)]
            /\ DOMAIN parts' = StreamId
        BY <1>t, <2>1, <2>2, <3>1 DEF RegistryType
      <3>. QED BY <1>t, <1>d, <2>1, <3>2 DEF RegistryType, CallsInv
    <2>5. NamesInv'
      BY <1>t, <2>1, <2>3 DEF NamesInv, Registered
    <2>6. LogEndsInConfig'
      BY <1>t, <2>3 DEF LogEndsInConfig, Snapshot, Registered
    <2>7. RowsAndTablesAgree'
      BY <1>t, <2>1, <2>2, <2>3 DEF RowsAndTablesAgree
    <2>. QED BY <2>4, <2>5, <2>6, <2>7 DEF StreamsInv
  <1>. QED BY <1>1, <1>2, <1>3, <1>4, <1>5, <1>7, <1>8, <1>9, <1>10
       DEF StreamRegistryNext, RegisterStream, DestroyStream, drainPartitions

-----------------------------------------------------------------------------
(* Schema versions. *)

VersionRow == [version : Nat, min : Nat, ok : BOOLEAN]
MigrationCall ==
    [pc : {"idle", "locking", "walking", "stepping", "recording"}, target : Nat,
     todo : SUBSET Owner, all : BOOLEAN, owner : Owner, version : Int]

SchemaType ==
    /\ migrationLog \in [Owner -> Seq(VersionRow)]
    /\ applied \in [Owner -> SUBSET Nat]
    /\ halfway \in [Owner -> SUBSET Nat]
    /\ knownStreams \in 0 .. MaxStreams
    /\ schemaLock \in Migrator \cup {NoMigrator}
    /\ migration \in [Migrator -> MigrationCall]

\* The rows of an owner are those of a walk up and down from the baseline: each
\* version up to the one it is at has the row its step up wrote, and is in the
\* tables unless it was left halfway.
WalkOf(o) ==
    /\ o > knownStreams => ~Recorded(o)
    /\ 1 \notin halfway[o]
    /\ \A i \in Successes(o) : migrationLog[o][i].min <= MaxVersion
    /\ Recorded(o) =>
         /\ Version(o) \in 1 .. MaxVersion
         /\ \A v \in 2 .. Version(o) :
              \E i \in Successes(o) : /\ migrationLog[o][i].version = v
                                      /\ migrationLog[o][i].min = MinCompatible[v]
         /\ \A w \in Nat : w \in halfway[o] \/ (w \in applied[o] <=> w \in 1 .. Version(o))
    /\ ~Recorded(o) => applied[o] = {} /\ halfway[o] = {}

\* Whoever walks has the lock, and the step it is about to take starts where the
\* owner is: only a destruction moves an owner under it.
Walking == {"walking", "stepping", "recording"}
Stepping == {"stepping", "recording"}

CallOf(m) ==
    LET o == migration[m].owner
    IN /\ migration[m].pc \in Walking => schemaLock = m
       /\ migration[m].pc # "idle" => migration[m].target \in 1 .. BuildVersion[m]
       /\ migration[m].pc \in Stepping => o <= knownStreams
       /\ migration[m].pc \in Stepping /\ Recorded(o) =>
            /\ Version(o) # migration[m].target
            /\ migration[m].version = NextStep(Version(o), migration[m].target)
       /\ migration[m].pc = "recording" /\ Recorded(o) =>
            StepOf(o, migration[m].version) \in applied[o] <=> Up(o, migration[m].version)

SchemaInv ==
    /\ SchemaType
    /\ \A o \in Owner : WalkOf(o)
    /\ \A m \in Migrator : CallOf(m)

\* A log with a success has a latest one.
LEMMA LatestIsThere ==
  ASSUME NEW o \in Owner, migrationLog[o] \in Seq(VersionRow), Recorded(o)
  PROVE  /\ Max(Successes(o)) \in Successes(o)
         /\ \A i \in Successes(o) : i <= Max(Successes(o))
         /\ LatestSuccess(o) \in VersionRow
  <1> DEFINE S == Successes(o)
             n == Len(migrationLog[o])
  <1>1. /\ S \in SUBSET Nat /\ S # {} /\ n \in Nat /\ \A i \in S : i <= n
        /\ \A i \in S : migrationLog[o][i] \in VersionRow
    BY DEF Successes, Recorded
  <1> HIDE DEF S, n
  <1>2. Max(S) \in S /\ \A i \in S : i <= Max(S)
    BY <1>1, MaxOfNaturals
  <1>. QED BY <1>1, <1>2 DEF LatestSuccess, S

\* A row that says success makes its version the owner's.
LEMMA SuccessRecorded ==
  ASSUME NEW o \in Owner, migrationLog[o] \in Seq(VersionRow), NEW x \in VersionRow, x.ok,
         migrationLog'[o] = Append(migrationLog[o], x)
  PROVE  /\ migrationLog'[o] \in Seq(VersionRow)
         /\ Recorded(o)' /\ Version(o)' = x.version
         /\ \A i \in Successes(o) : i \in Successes(o)' /\ migrationLog'[o][i] = migrationLog[o][i]
         /\ \A i \in Successes(o)' : \/ i \in Successes(o) /\ migrationLog'[o][i] = migrationLog[o][i]
                                     \/ migrationLog'[o][i] = x
         /\ \E i \in Successes(o)' : migrationLog'[o][i] = x
  <1> DEFINE n == Len(migrationLog[o])
  <1>1. /\ migrationLog'[o] \in Seq(VersionRow) /\ n \in Nat /\ DOMAIN migrationLog[o] = 1 .. n
        /\ DOMAIN migrationLog'[o] = 1 .. n + 1 /\ migrationLog'[o][n + 1] = x
        /\ \A i \in 1 .. n : migrationLog'[o][i] = migrationLog[o][i]
    OBVIOUS
  <1> HIDE DEF n
  <1>2. /\ n + 1 \in Successes(o)' /\ Successes(o)' \in SUBSET Nat
        /\ \A i \in Successes(o)' : i <= n + 1
    BY <1>1 DEF Successes
  <1>3. Max(Successes(o)') \in Successes(o)' /\ \A i \in Successes(o)' : i <= Max(Successes(o)')
    <2> DEFINE S == Successes(o)'
    <2>1. S \in SUBSET Nat /\ S # {} /\ n + 1 \in Nat /\ \A i \in S : i <= n + 1
      BY <1>1, <1>2
    <2> HIDE DEF S
    <2>2. Max(S) \in S /\ \A i \in S : i <= Max(S)
      BY <2>1, MaxOfNaturals
    <2>. QED BY <2>2 DEF S
  <1>4. Max(Successes(o)') = n + 1
    BY <1>1, <1>2, <1>3
  <1>5. Recorded(o)' /\ Version(o)' = x.version
    BY <1>1, <1>2, <1>4 DEF Recorded, Version, LatestSuccess
  <1>6. /\ \A i \in Successes(o) : i \in Successes(o)' /\ migrationLog'[o][i] = migrationLog[o][i]
        /\ \A i \in Successes(o)' : \/ i \in Successes(o) /\ migrationLog'[o][i] = migrationLog[o][i]
                                    \/ migrationLog'[o][i] = x
    BY <1>1 DEF Successes
  <1>. QED BY <1>1, <1>2, <1>5, <1>6

\* One that says failure changes nothing the version is read from.
LEMMA FailureRecorded ==
  ASSUME NEW o \in Owner, migrationLog[o] \in Seq(VersionRow), NEW x \in VersionRow, ~x.ok,
         migrationLog'[o] = Append(migrationLog[o], x)
  PROVE  /\ migrationLog'[o] \in Seq(VersionRow)
         /\ Successes(o)' = Successes(o)
         /\ \A i \in Successes(o) : migrationLog'[o][i] = migrationLog[o][i]
  <1> DEFINE n == Len(migrationLog[o])
  <1>1. /\ migrationLog'[o] \in Seq(VersionRow) /\ n \in Nat /\ DOMAIN migrationLog[o] = 1 .. n
        /\ DOMAIN migrationLog'[o] = 1 .. n + 1 /\ migrationLog'[o][n + 1] = x
        /\ \A i \in 1 .. n : migrationLog'[o][i] = migrationLog[o][i]
    OBVIOUS
  <1> HIDE DEF n
  <1>2. \A i \in Nat : i \in 1 .. n + 1 <=> i \in 1 .. n \/ i = n + 1
    BY <1>1
  <1>. QED BY <1>1, <1>2 DEF Successes

\* A baseline is version 1.
LEMMA BaselineRecorded ==
  ASSUME NEW o \in Owner, migrationLog'[o] = <<Success(1, 0)>>
  PROVE  /\ migrationLog'[o] \in Seq(VersionRow) /\ Recorded(o)' /\ Version(o)' = 1
         /\ \A i \in Successes(o)' : migrationLog'[o][i].min = 0
  <1>1. Success(1, 0) \in VersionRow /\ Success(1, 0).ok /\ Success(1, 0).version = 1 /\ Success(1, 0).min = 0
    BY DEF Success, VersionRow
  <1>2. /\ DOMAIN migrationLog'[o] = {1} /\ migrationLog'[o][1] = Success(1, 0)
        /\ migrationLog'[o] \in Seq(VersionRow)
    BY <1>1
  <1>3. Successes(o)' = {1}
    BY <1>1, <1>2 DEF Successes
  <1>4. Max(Successes(o)') = 1
    <2>1. \A x \in {1} : x <= 1
      OBVIOUS
    <2>2. Max({1}) \in {1}
      BY <2>1, MaxOfNaturals
    <2>. QED BY <1>3, <2>2
  <1>5. Version(o)' = 1
    BY <1>1, <1>2, <1>4 DEF Version, LatestSuccess
  <1>. QED BY <1>1, <1>2, <1>3, <1>5 DEF Recorded

\* An owner without rows is not registered.
LEMMA NothingRecorded ==
  ASSUME NEW o \in Owner, migrationLog'[o] = <<>>
  PROVE  Successes(o)' = {} /\ ~Recorded(o)'
  BY DEF Successes, Recorded

\* An owner whose rows a step leaves alone is where it was.
LEMMA RowsStand ==
  ASSUME NEW o \in Owner, migrationLog'[o] = migrationLog[o]
  PROVE  /\ Successes(o)' = Successes(o) /\ (Recorded(o)' <=> Recorded(o))
         /\ Version(o)' = Version(o)
  <1>1. Successes(o)' = Successes(o)
    BY DEF Successes
  <1>2. Recorded(o)' <=> Recorded(o)
    BY <1>1 DEF Recorded
  <1>3. Version(o)' = Version(o)
    BY <1>1 DEF Version, LatestSuccess
  <1>. QED BY <1>1, <1>2, <1>3

\* And its walk, when its tables are left alone too.
LEMMA OwnerStands ==
  ASSUME NEW o \in Owner, migrationLog'[o] = migrationLog[o], WalkOf(o), applied'[o] = applied[o],
         halfway'[o] = halfway[o],
         knownStreams \in Nat, knownStreams' \in Nat, knownStreams <= knownStreams', o \in Int
  PROVE  WalkOf(o)'
  <1>1. o > knownStreams' => o > knownStreams
    OBVIOUS
  <1>. QED BY <1>1, RowsStand DEF WalkOf

\* A migration that is not under way has nothing to go wrong.
LEMMA CallRests ==
  ASSUME NEW m \in Migrator, CallOf(m), migration'[m] = migration[m], migration[m].pc \notin Walking
  PROVE  CallOf(m)'
  BY DEF CallOf, Walking, Stepping

\* One whose owner a step leaves alone stands where it did.
LEMMA CallStands ==
  ASSUME NEW m \in Migrator, CallOf(m), migration'[m] = migration[m], schemaLock' = schemaLock,
         migration[m].owner \in Owner, migrationLog'[migration[m].owner] = migrationLog[migration[m].owner],
         applied'[migration[m].owner] = applied[migration[m].owner],
         migration[m].owner \in Int, knownStreams \in Nat, knownStreams' \in Nat, knownStreams <= knownStreams'
  PROVE  CallOf(m)'
  <1> DEFINE o == migration[m].owner
  <1>1. (Recorded(o)' <=> Recorded(o)) /\ Version(o)' = Version(o)
    BY RowsStand
  <1>2. o <= knownStreams => o <= knownStreams'
    OBVIOUS
  <1>3. migration'[m].owner = o
    OBVIOUS
  <1>. QED BY <1>1, <1>2, <1>3 DEF CallOf, Up, StepOf

\* One whose owner is gone waits to find that out.
LEMMA CallLosesOwner ==
  ASSUME NEW m \in Migrator, CallOf(m), migration'[m] = migration[m],
         UNCHANGED <<schemaLock, knownStreams>>, ~Recorded(migration[m].owner)'
  PROVE  CallOf(m)'
  BY DEF CallOf

\* What the run checks of the migrations.
LEMMA SchemaSafe ==
  ASSUME SchemaInv
  PROVE  RecordedIsApplied /\ AdmittedIsServed
  <1> USE RegistryIsValid
  <1>1. RecordedIsApplied
    <2> SUFFICES ASSUME NEW o \in Owner
                 PROVE  IF Recorded(o)
                        THEN applied[o] \ halfway[o] = (1 .. Version(o)) \ halfway[o]
                        ELSE applied[o] = {} /\ halfway[o] = {}
      BY DEF RecordedIsApplied
    <2>1. WalkOf(o) /\ applied[o] \in SUBSET Nat
      BY DEF SchemaInv, SchemaType
    <2>2. CASE Recorded(o)
      <3>1. \A w \in Nat : w \in halfway[o] \/ (w \in applied[o] <=> w \in 1 .. Version(o))
        BY <2>1, <2>2 DEF WalkOf
      <3>2. 1 .. Version(o) \in SUBSET Nat
        BY <2>1, <2>2 DEF WalkOf
      <3>. QED BY <2>1, <2>2, <3>1, <3>2
    <2>3. CASE ~Recorded(o)
      BY <2>1, <2>3 DEF WalkOf
    <2>. QED BY <2>2, <2>3
  <1>2. ASSUME NEW o \in Owner, NEW build \in 1 .. MaxVersion, Recorded(o),
               ClassifySchemaSupport(o, build) = "supported"
        PROVE  /\ 1 .. build \subseteq applied[o] \cup halfway[o]
               /\ \A v \in applied[o] \ ({1} \cup halfway[o]) : MinCompatible[v] <= build
    <2> DEFINE mins == {migrationLog[o][i].min :
                          i \in {j \in Successes(o) : migrationLog[o][j].version <= Version(o)}}
    <2>1. ~(Version(o) < build) /\ ~(Strictest(o) > build)
      BY <1>2 DEF ClassifySchemaSupport
    <2>2. Version(o) \in 1 .. MaxVersion /\ WalkOf(o) /\ migrationLog[o] \in Seq(VersionRow)
      BY <1>2 DEF SchemaInv, SchemaType, WalkOf
    <2>3. \A i \in Successes(o) : migrationLog[o][i] \in VersionRow /\ migrationLog[o][i].min <= MaxVersion
      BY <2>2 DEF WalkOf, Successes
    <2>4. /\ mins \in SUBSET Nat /\ \A x \in mins : x <= MaxVersion
          /\ Strictest(o) = Max(mins)
      BY <2>3 DEF VersionRow, Strictest
    <2>5. \A v \in 2 .. Version(o) : MinCompatible[v] \in mins
      BY <1>2, <2>2 DEF WalkOf
    <2> HIDE DEF mins
    <2>6. \A v \in 2 .. Version(o) : MinCompatible[v] <= build
      <3> SUFFICES ASSUME NEW v \in 2 .. Version(o) PROVE MinCompatible[v] <= build
        OBVIOUS
      <3>0. MinCompatible[v] \in mins
        BY <2>5, Zenon
      <3>1. MinCompatible[v] \in mins /\ mins # {} /\ MaxVersion \in Nat
        BY <3>0
      <3>2. Max(mins) \in mins /\ MinCompatible[v] <= Max(mins)
        BY <2>4, <3>1, MaxOfNaturals
      <3>3. Max(mins) \in Nat /\ MinCompatible[v] \in Nat /\ Max(mins) <= build
        <4>1. Max(mins) \in Nat /\ MinCompatible[v] \in Nat
          BY <2>4, <3>1, <3>2
        <4>2. ~(Max(mins) > build)
          BY <2>1, <2>4
        <4>. QED BY <4>1, <4>2
      <3>. QED BY <3>2, <3>3
    <2>7. \A w \in Nat : w \in halfway[o] \/ (w \in applied[o] <=> w \in 1 .. Version(o))
      BY <1>2, <2>2 DEF WalkOf
    <2>8. 1 .. build \subseteq applied[o] \cup halfway[o]
      BY <2>1, <2>2, <2>7
    <2>9. ASSUME NEW v \in applied[o] \ ({1} \cup halfway[o]) PROVE v \in 2 .. Version(o)
      <3>1. v \in Nat /\ v # 1
        BY DEF SchemaInv, SchemaType
      <3>2. v \in 1 .. Version(o)
        BY <2>7, <3>1
      <3>. QED BY <2>2, <3>1, <3>2
    <2>. QED BY <2>6, <2>8, <2>9
  <1>. QED BY <1>1, <1>2 DEF AdmittedIsServed

\* Nothing is registered and nobody migrates.
LEMMA SchemaStart == SchemaVersionsInit => SchemaInv
  <1> SUFFICES ASSUME SchemaVersionsInit PROVE SchemaInv
    OBVIOUS
  <1>1. SchemaType
    BY RegistryIsValid DEF SchemaVersionsInit, SchemaType, NoMigration, MigrationCall, Owner, System
  <1>2. \A o \in Owner : Successes(o) = {} /\ ~Recorded(o)
    BY DEF SchemaVersionsInit, Successes, Recorded
  <1>3. \A o \in Owner : WalkOf(o)
    BY <1>2 DEF WalkOf, SchemaVersionsInit
  <1>4. \A m \in Migrator : CallOf(m)
    BY DEF CallOf, SchemaVersionsInit, NoMigration, Walking, Stepping
  <1>. QED BY <1>1, <1>3, <1>4 DEF SchemaInv

\* A step that only moves one call.
LEMMA CallStep ==
  ASSUME SchemaInv, UNCHANGED schemaRows, NEW m \in Migrator,
         migration' \in [Migrator -> MigrationCall], \A x \in Migrator : x # m => migration'[x] = migration[x],
         schemaLock' = schemaLock \/ (schemaLock \in {m, NoMigrator} /\ schemaLock' \in {m, NoMigrator}),
         CallOf(m)'
  PROVE  SchemaInv'
  <1> USE RegistryIsValid
  <1>1. /\ migrationLog' = migrationLog /\ applied' = applied /\ halfway' = halfway
        /\ knownStreams' = knownStreams
    BY DEF schemaRows
  <1>t. SchemaType /\ (\A o \in Owner : WalkOf(o)) /\ \A x \in Migrator : CallOf(x)
    BY DEF SchemaInv
  <1>o. /\ \A o \in Owner : o \in Int
        /\ knownStreams \in Nat /\ \A x \in Migrator : migration[x].owner \in Owner
    BY <1>t DEF SchemaType, MigrationCall, Owner, System, StreamOwner
  <1>2. SchemaType'
    BY <1>t, <1>1 DEF SchemaType
  <1>3. \A o \in Owner : WalkOf(o)'
    BY <1>t, <1>1, <1>o, OwnerStands
  <1>4. ASSUME NEW x \in Migrator, x # m PROVE CallOf(x)'
    <2>1. CASE schemaLock' = schemaLock
      BY <1>t, <1>1, <1>o, <1>4, <2>1, CallStands
    <2>2. CASE schemaLock \in {m, NoMigrator}
      <3>1. migration[x].pc \notin Walking
        BY <1>t, <1>4, <2>2 DEF CallOf
      <3>. QED BY <1>t, <1>4, <3>1, CallRests
    <2>. QED BY <2>1, <2>2
  <1>. QED BY <1>2, <1>3, <1>4 DEF SchemaInv

\* A step that writes the rows or the tables of one owner, under the lock of the
\* migration that takes it.
LEMMA OwnerStep ==
  ASSUME SchemaInv, NEW m \in Migrator, schemaLock = m, schemaLock' = m, NEW o \in Owner,
         migrationLog' \in [Owner -> Seq(VersionRow)], applied' \in [Owner -> SUBSET Nat],
         halfway' \in [Owner -> SUBSET Nat],
         \A u \in Owner : u # o => /\ migrationLog'[u] = migrationLog[u] /\ applied'[u] = applied[u]
                                  /\ halfway'[u] = halfway[u],
         knownStreams' = knownStreams,
         migration' \in [Migrator -> MigrationCall], \A x \in Migrator : x # m => migration'[x] = migration[x],
         WalkOf(o)', CallOf(m)'
  PROVE  SchemaInv'
  <1> USE RegistryIsValid
  <1>t. SchemaType /\ (\A u \in Owner : WalkOf(u)) /\ \A x \in Migrator : CallOf(x)
    BY DEF SchemaInv
  <1>o. (\A u \in Owner : u \in Int) /\ knownStreams \in Nat
    BY <1>t DEF SchemaType, Owner, System, StreamOwner
  <1>2. SchemaType'
    BY <1>t DEF SchemaType
  <1>3. ASSUME NEW u \in Owner PROVE WalkOf(u)'
    <2>1. CASE u = o
      BY <2>1
    <2>2. CASE u # o
      <3>1. /\ migrationLog'[u] = migrationLog[u] /\ applied'[u] = applied[u]
            /\ halfway'[u] = halfway[u]
        BY <2>2
      <3>2. u \in Int /\ knownStreams \in Nat /\ knownStreams' \in Nat /\ knownStreams <= knownStreams'
        BY <1>o
      <3>. QED BY <1>t, <3>1, <3>2, OwnerStands
    <2>. QED BY <2>1, <2>2
  <1>4. ASSUME NEW x \in Migrator, x # m PROVE CallOf(x)'
    <2>1. migration[x].pc \notin Walking
      BY <1>t, <1>4 DEF CallOf
    <2>. QED BY <1>t, <1>4, <2>1, CallRests
  <1>. QED BY <1>2, <1>3, <1>4 DEF SchemaInv

\* A stream's rows and tables go, whoever walks.
LEMMA DeletionStep ==
  ASSUME SchemaInv, NEW s \in StreamOwner, DeleteStreamTables(s)
  PROVE  SchemaInv'
  <1> USE RegistryIsValid
  <1>t. SchemaType /\ (\A u \in Owner : WalkOf(u)) /\ \A x \in Migrator : CallOf(x)
    BY DEF SchemaInv
  <1>o. /\ \A u \in Owner : u \in Int
        /\ knownStreams \in Nat /\ s \in Owner /\ \A x \in Migrator : migration[x].owner \in Owner
    BY <1>t DEF SchemaType, MigrationCall, Owner, System, StreamOwner
  <1>1. /\ migrationLog' = [migrationLog EXCEPT ![s] = <<>>] /\ applied' = [applied EXCEPT ![s] = {}]
        /\ halfway' = [halfway EXCEPT ![s] = {}]
        /\ UNCHANGED <<knownStreams, schemaLock, migration>>
    BY DEF DeleteStreamTables
  <1>2. /\ migrationLog'[s] = <<>> /\ applied'[s] = {} /\ halfway'[s] = {}
        /\ \A u \in Owner : u # s => /\ migrationLog'[u] = migrationLog[u] /\ applied'[u] = applied[u]
                                     /\ halfway'[u] = halfway[u]
        /\ migrationLog' \in [Owner -> Seq(VersionRow)] /\ applied' \in [Owner -> SUBSET Nat]
        /\ halfway' \in [Owner -> SUBSET Nat]
    <2>1. <<>> \in Seq(VersionRow)
      OBVIOUS
    <2>. QED BY <1>t, <1>o, <1>1, <2>1 DEF SchemaType
  <1>3. SchemaType'
    BY <1>t, <1>1, <1>2 DEF SchemaType
  <1>4. WalkOf(s)'
    BY <1>o, <1>2, NothingRecorded DEF WalkOf
  <1>5. \A u \in Owner : WalkOf(u)'
    BY <1>t, <1>o, <1>1, <1>2, <1>4, OwnerStands
  <1>6. ASSUME NEW x \in Migrator PROVE CallOf(x)'
    <2>1. CASE migration[x].owner = s
      <3>1. ~Recorded(migration[x].owner)'
        BY <1>1, <1>2, <1>o, <2>1, NothingRecorded
      <3>. QED BY <1>t, <1>1, <3>1, CallLosesOwner
    <2>2. CASE migration[x].owner # s
      BY <1>t, <1>o, <1>1, <1>2, <2>2, CallStands
    <2>. QED BY <2>1, <2>2
  <1>. QED BY <1>3, <1>5, <1>6 DEF SchemaInv

\* What a step of a walk leaves: the owner at the version the step was to.
LEMMA StepTaken ==
  ASSUME SchemaInv, NEW o \in Owner, NEW v \in 1 .. MaxVersion, Recorded(o), o <= knownStreams,
         UNCHANGED knownStreams,
         v = Version(o) + 1 \/ v = Version(o) - 1, RecordSuccess(o, v),
         1 \notin halfway'[o], \A w \in Nat : w \in halfway'[o] \/ (w \in applied'[o] <=> w \in 1 .. v)
  PROVE  /\ WalkOf(o)' /\ Recorded(o)' /\ Version(o)' = v
         /\ migrationLog' \in [Owner -> Seq(VersionRow)]
         /\ \A u \in Owner : u # o => migrationLog'[u] = migrationLog[u]
  <1> USE RegistryIsValid
  <1>t. WalkOf(o) /\ migrationLog \in [Owner -> Seq(VersionRow)]
    BY DEF SchemaInv, SchemaType
  <1>n. o \in Int /\ knownStreams \in Int
    BY DEF SchemaInv, SchemaType, Owner, System, StreamOwner
  <1> DEFINE x == Success(v, IF Up(o, v) THEN MinCompatible[v] ELSE 0)
  <1>v. Version(o) \in 1 .. MaxVersion /\ migrationLog[o] \in Seq(VersionRow)
    BY <1>t DEF WalkOf
  <1>1. /\ x \in VersionRow /\ x.ok /\ x.version = v /\ x.min <= MaxVersion
        /\ v = Version(o) + 1 => x.min = MinCompatible[v]
    <2>1. CASE v = Version(o) + 1
      <3>1. Up(o, v) /\ v \in 2 .. MaxVersion
        BY <1>v, <2>1 DEF Up
      <3>2. MinCompatible[v] \in Nat /\ MinCompatible[v] <= MaxVersion
        BY <3>1
      <3>. QED BY <3>1, <3>2 DEF Success, VersionRow
    <2>2. CASE v = Version(o) - 1
      <3>1. ~Up(o, v) /\ v # Version(o) + 1
        BY <1>v, <2>2 DEF Up
      <3>. QED BY <3>1 DEF Success, VersionRow
    <2>. QED BY <2>1, <2>2
  <1>2. migrationLog' = [migrationLog EXCEPT ![o] = Append(@, x)]
    BY DEF RecordSuccess
  <1> HIDE DEF x
  <1>3. /\ migrationLog'[o] = Append(migrationLog[o], x)
        /\ \A u \in Owner : u # o => migrationLog'[u] = migrationLog[u]
        /\ migrationLog' \in [Owner -> Seq(VersionRow)]
    <2> DEFINE listed == Append(migrationLog[o], x)
    <2>1. listed \in Seq(VersionRow)
      BY <1>v, <1>1
    <2>2. migrationLog' = [migrationLog EXCEPT ![o] = listed]
      BY <1>2
    <2> HIDE DEF listed
    <2>3. /\ migrationLog'[o] = listed /\ \A u \in Owner : u # o => migrationLog'[u] = migrationLog[u]
          /\ migrationLog' \in [Owner -> Seq(VersionRow)]
      BY <1>t, <2>1, <2>2
    <2>. QED BY <2>3 DEF listed
  <1>4. /\ Recorded(o)' /\ Version(o)' = v
        /\ \A i \in Successes(o) : i \in Successes(o)' /\ migrationLog'[o][i] = migrationLog[o][i]
        /\ \A i \in Successes(o)' : \/ i \in Successes(o) /\ migrationLog'[o][i] = migrationLog[o][i]
                                    \/ migrationLog'[o][i] = x
        /\ \E i \in Successes(o)' : migrationLog'[o][i] = x
    <2>1. x \in VersionRow /\ x.ok /\ migrationLog[o] \in Seq(VersionRow) /\ x.version = v
      BY <1>v, <1>1
    <2>2. migrationLog'[o] = Append(migrationLog[o], x)
      BY <1>3
    <2>3. /\ Recorded(o)' /\ Version(o)' = x.version
          /\ \A i \in Successes(o) : i \in Successes(o)' /\ migrationLog'[o][i] = migrationLog[o][i]
          /\ \A i \in Successes(o)' : \/ i \in Successes(o) /\ migrationLog'[o][i] = migrationLog[o][i]
                                      \/ migrationLog'[o][i] = x
          /\ \E i \in Successes(o)' : migrationLog'[o][i] = x
      BY <2>1, <2>2, SuccessRecorded, Zenon
    <2>. QED BY <2>1, <2>3
  <1>5. \A i \in Successes(o)' : migrationLog'[o][i].min <= MaxVersion
    <2>1. \A i \in Successes(o) : migrationLog[o][i].min <= MaxVersion
      BY <1>t DEF WalkOf
    <2>. QED BY <1>1, <1>4, <2>1
  <1>6. ASSUME NEW w \in 2 .. v
        PROVE  \E i \in Successes(o)' : /\ migrationLog'[o][i].version = w
                                        /\ migrationLog'[o][i].min = MinCompatible[w]
    <2>1. CASE w \in 2 .. Version(o)
      <3>1. PICK i \in Successes(o) : /\ migrationLog[o][i].version = w
                                      /\ migrationLog[o][i].min = MinCompatible[w]
        BY <1>t, <2>1 DEF WalkOf
      <3>. QED BY <1>4, <3>1
    <2>2. CASE w = v /\ v = Version(o) + 1
      BY <1>1, <1>4, <2>2
    <2>. QED BY <1>v, <1>6, <2>1, <2>2
  <1>7. WalkOf(o)'
    BY <1>n, <1>4, <1>5, <1>6 DEF WalkOf
  <1>. QED BY <1>3, <1>4, <1>7

\* What applying a step makes of the tables.
LEMMA StepApplied ==
  ASSUME applied \in [Owner -> SUBSET Nat], NEW o \in Owner, NEW v \in 1 .. MaxVersion,
         Version(o) \in 1 .. MaxVersion, v = Version(o) + 1 \/ v = Version(o) - 1, Apply(o, v)
  PROVE  /\ applied' \in [Owner -> SUBSET Nat]
         /\ \A u \in Owner : u # o => applied'[u] = applied[u]
         /\ StepOf(o, v) \in applied'[o] <=> Up(o, v)
         /\ \A w \in Nat : w # StepOf(o, v) => (w \in applied'[o] <=> w \in applied[o])
         /\ \A w \in Nat : w # StepOf(o, v) => (w \in 1 .. v <=> w \in 1 .. Version(o))
         /\ StepOf(o, v) \in 1 .. v <=> Up(o, v)
         /\ StepOf(o, v) # 1
  <1> USE RegistryIsValid
  <1>1. CASE v = Version(o) + 1
    <2>1. Up(o, v) /\ StepOf(o, v) = v
      BY <1>1 DEF Up, StepOf
    <2>2. applied' = [applied EXCEPT ![o] = @ \cup {v}] /\ v \in Nat
      BY <2>1 DEF Apply
    <2>. QED BY <1>1, <2>1, <2>2
  <1>2. CASE v = Version(o) - 1
    <2>1. ~Up(o, v) /\ StepOf(o, v) = v + 1
      BY <1>2 DEF Up, StepOf
    <2>2. applied' = [applied EXCEPT ![o] = @ \ {v + 1}] /\ v + 1 \in Nat
      BY <2>1 DEF Apply
    <2>. QED BY <1>2, <2>1, <2>2
  <1>. QED BY <1>1, <1>2

\* What an action writes of a call.
OnlyMigrationOf(m) ==
    /\ migration' \in [Migrator -> MigrationCall]
    /\ \A x \in Migrator : x # m => migration'[x] = migration[x]

\* A new record of one call is all that changes.
LEMMA CallRecord ==
  ASSUME migration \in [Migrator -> MigrationCall], NEW m \in Migrator, NEW y \in MigrationCall,
         migration' = [migration EXCEPT ![m] = y]
  PROVE  OnlyMigrationOf(m) /\ migration'[m] = y
  BY DEF OnlyMigrationOf

\* Where a migration that is about to take a step on a registered owner stands.
LEMMA StepAhead ==
  ASSUME SchemaInv, NEW m \in Migrator, migration[m].pc \in Stepping, Recorded(migration[m].owner)
  PROVE  LET o == migration[m].owner
             v == migration[m].version
         IN /\ o \in Owner /\ o <= knownStreams /\ schemaLock = m
            /\ Version(o) \in 1 .. MaxVersion /\ v \in 1 .. MaxVersion
            /\ migration[m].target \in 1 .. MaxVersion
            /\ v = Version(o) + 1 \/ (v = Version(o) - 1 /\ migration[m].target < Version(o))
  <1> USE RegistryIsValid
  <1> DEFINE o == migration[m].owner
  <1>1. o \in Owner /\ WalkOf(o) /\ CallOf(m)
    BY DEF SchemaInv, SchemaType, MigrationCall
  <1>2. Version(o) \in 1 .. MaxVersion
    BY <1>1 DEF WalkOf
  <1>3. /\ schemaLock = m /\ o <= knownStreams /\ migration[m].target \in 1 .. BuildVersion[m]
        /\ Version(o) # migration[m].target
        /\ migration[m].version = NextStep(Version(o), migration[m].target)
    BY <1>1 DEF CallOf, Walking, Stepping
  <1>4. BuildVersion[m] \in 1 .. MaxVersion
    OBVIOUS
  <1>5. migration[m].target \in 1 .. MaxVersion
    BY <1>3, <1>4
  <1>6. \A from, target \in 1 .. MaxVersion :
          from # target => LET v == NextStep(from, target)
                           IN v \in 1 .. MaxVersion /\ (v = from + 1 \/ (v = from - 1 /\ target < from))
    BY DEF NextStep
  <1>. QED BY <1>1, <1>2, <1>3, <1>5, <1>6

\* The call a step leaves is where the owner is.
LEMMA CallAdvances ==
  ASSUME SchemaInv, NEW m \in Migrator, migration[m].pc \in Stepping, Recorded(migration[m].owner),
         AfterStep(m), schemaLock' = m, UNCHANGED knownStreams,
         NEW o \in Owner, o = migration[m].owner, Recorded(o)', Version(o)' = migration[m].version
  PROVE  OnlyMigrationOf(m) /\ CallOf(m)'
  <1> DEFINE there == migration[m].version = migration[m].target
             pc == IF there THEN "walking" ELSE "stepping"
             v == IF there THEN 0 ELSE NextStep(migration[m].version, migration[m].target)
             y == [migration[m] EXCEPT !.pc = pc, !.version = v]
  <1>1. migration \in [Migrator -> MigrationCall] /\ CallOf(m)
    BY DEF SchemaInv, SchemaType
  <1>2. migration' = [migration EXCEPT ![m] = y]
    BY <1>1 DEF AfterStep, MigrationCall
  <1>3. v \in Int
    BY StepAhead DEF NextStep
  <1>4. y \in MigrationCall /\ y.pc = pc /\ y.version = v /\ y.target = migration[m].target
        /\ y.owner = migration[m].owner
    <2>1. pc \in {"walking", "stepping"}
      OBVIOUS
    <2> HIDE DEF pc, v
    <2>. QED BY <1>1, <1>3, <2>1 DEF MigrationCall
  <1> HIDE DEF y
  <1>5. OnlyMigrationOf(m) /\ migration'[m] = y
    BY <1>1, <1>2, <1>4, CallRecord
  <1>6. migration[m].target \in 1 .. BuildVersion[m] /\ migration[m].owner <= knownStreams
    BY <1>1 DEF CallOf, Stepping
  <1>8. migration'[m].owner = o /\ migration'[m].target = migration[m].target
    BY <1>4, <1>5
  <1>9. CASE there
    <2>1. migration'[m].pc = "walking"
      BY <1>4, <1>5, <1>9
    <2>. QED BY <1>5, <1>6, <1>8, <2>1 DEF CallOf, Walking, Stepping
  <1>10. CASE ~there
    <2>1. /\ migration'[m].pc = "stepping" /\ migration[m].version # migration[m].target
          /\ migration'[m].version = NextStep(migration[m].version, migration[m].target)
      BY <1>4, <1>5, <1>10
    <2>2. /\ migration'[m].pc # "recording" /\ migration'[m].pc # "idle"
          /\ o <= knownStreams' /\ migration'[m].target \in 1 .. BuildVersion[m]
      BY <1>6, <1>8, <2>1
    <2> HIDE DEF there, pc, v
    <2>. QED BY <1>5, <1>8, <2>1, <2>2 DEF CallOf
  <1>. QED BY <1>9, <1>10

\* A call whose step failed.
LEMMA GivenUp ==
  ASSUME NEW x \in MigrationCall
  PROVE  LET y == [x EXCEPT !.pc = "walking", !.version = 0]
         IN y \in MigrationCall /\ y.pc = "walking" /\ y.target = x.target
  <1> DEFINE v == 0
             y == [x EXCEPT !.pc = "walking", !.version = v]
  <1>1. v \in Int
    OBVIOUS
  <1> HIDE DEF v
  <1>2. y \in MigrationCall /\ y.pc = "walking" /\ y.target = x.target
    BY <1>1 DEF MigrationCall
  <1>. QED BY <1>2 DEF v

\* Steps of the other services leave all of it alone.
LEMMA SchemaStands ==
  ASSUME SchemaInv, UNCHANGED <<schemaRows, schemaLock, migration>>
  PROVE  SchemaInv'
  <1>t. SchemaType /\ (\A o \in Owner : WalkOf(o)) /\ \A m \in Migrator : CallOf(m)
    BY DEF SchemaInv
  <1>o. /\ \A o \in Owner : o \in Int
        /\ knownStreams \in Nat /\ \A m \in Migrator : migration[m].owner \in Owner
    BY <1>t, RegistryIsValid DEF SchemaType, MigrationCall, Owner, System, StreamOwner
  <1>1. /\ migrationLog' = migrationLog /\ applied' = applied /\ halfway' = halfway
        /\ knownStreams' = knownStreams /\ schemaLock' = schemaLock /\ migration' = migration
    BY DEF schemaRows
  <1>2. SchemaType'
    BY <1>t, <1>1 DEF SchemaType
  <1>3. \A o \in Owner : WalkOf(o)'
    BY <1>t, <1>1, <1>o, OwnerStands
  <1>4. \A m \in Migrator : CallOf(m)'
    BY <1>t, <1>1, <1>o, CallStands
  <1>. QED BY <1>2, <1>3, <1>4 DEF SchemaInv

\* Registrations, migrations and destructions keep the log and the tables in
\* step.
LEMMA SchemaStep ==
  ASSUME SchemaInv, SchemaVersionsNext
  PROVE  SchemaInv'
  <1> USE RegistryIsValid
  <1>t. SchemaType /\ (\A o \in Owner : WalkOf(o)) /\ \A m \in Migrator : CallOf(m)
    BY DEF SchemaInv
  <1>o. /\ \A o \in Owner : o \in Int /\ o \in Nat
        /\ knownStreams \in Nat /\ \A m \in Migrator : migration[m].owner \in Owner
        /\ System \in Owner /\ System = 0
    BY <1>t DEF SchemaType, MigrationCall, Owner, System, StreamOwner
  <1>i. knownStreams \in Int /\ \A u \in Owner : u \in Int
    BY <1>o
  <1>m. /\ migration \in [Migrator -> MigrationCall]
        /\ NoMigration \in MigrationCall /\ NoMigration.pc = "idle"
    BY <1>t DEF SchemaType, MigrationCall, NoMigration, Owner, System
  <1>q. \A m \in Migrator : schemaLock # m => migration[m].pc \notin Walking
    BY <1>t DEF CallOf
  <1>1. ASSUME NEW o \in Owner, migrationLog' = [migrationLog EXCEPT ![o] = <<Success(1, 0)>>],
               applied' = [applied EXCEPT ![o] = @ \cup {1}], applied[o] = {},
               UNCHANGED <<halfway, schemaLock, migration>>, knownStreams' \in 0 .. MaxStreams,
               knownStreams <= knownStreams', o <= knownStreams',
               \A m \in Migrator : migration[m].pc \in Stepping => migration[m].owner # o
        PROVE  SchemaInv'
    <2>1. /\ migrationLog'[o] = <<Success(1, 0)>> /\ applied'[o] = {1}
          /\ \A u \in Owner : u # o => migrationLog'[u] = migrationLog[u] /\ applied'[u] = applied[u]
          /\ applied' \in [Owner -> SUBSET Nat]
      BY <1>t, <1>1 DEF SchemaType
    <2>2. /\ migrationLog'[o] \in Seq(VersionRow) /\ Recorded(o)' /\ Version(o)' = 1
          /\ \A i \in Successes(o)' : migrationLog'[o][i].min = 0
      BY <2>1, BaselineRecorded
    <2>3. SchemaType'
      <3>1. migrationLog' \in [Owner -> Seq(VersionRow)]
        <4>1. <<Success(1, 0)>> \in Seq(VersionRow)
          BY <2>1, <2>2
        <4>. QED BY <1>t, <1>1, <4>1 DEF SchemaType
      <3>. QED BY <1>t, <1>1, <2>1, <3>1 DEF SchemaType
    <2>4. WalkOf(o)'
      <3>1. {1} = 1 .. 1 /\ 2 .. 1 = {}
        OBVIOUS
      <3>2. ~(o > knownStreams')
        <4>1. knownStreams' \in 0 .. MaxStreams /\ o <= knownStreams'
          BY <1>1
        <4>2. o \in Int /\ knownStreams' \in Int
          BY <1>i, <4>1
        <4>. QED BY <4>1, <4>2
      <3>3. 1 \notin halfway'[o]
        BY <1>1, <1>t DEF WalkOf
      <3>4. \A i \in Successes(o)' : migrationLog'[o][i].min <= MaxVersion
        BY <2>2
      <3>. QED BY <2>1, <2>2, <3>1, <3>2, <3>3, <3>4 DEF WalkOf
    <2>5. ASSUME NEW u \in Owner, u # o PROVE WalkOf(u)'
      <3>1. /\ migrationLog'[u] = migrationLog[u] /\ applied'[u] = applied[u]
            /\ halfway'[u] = halfway[u]
        BY <1>1, <2>1, <2>5
      <3>2. u \in Int /\ knownStreams \in Nat /\ knownStreams' \in Nat /\ knownStreams <= knownStreams'
        <4>1. u \in Int
          BY <1>o
        <4>2. knownStreams' \in Nat
          BY <1>1
        <4>. QED BY <1>1, <1>o, <4>1, <4>2
      <3>. QED BY <1>t, <3>1, <3>2, OwnerStands
    <2>6. ASSUME NEW m \in Migrator PROVE CallOf(m)'
      <3>1. CASE migration[m].pc \in Stepping
        <4>1. migration[m].owner \in Owner /\ migration[m].owner # o
          BY <1>1, <1>o, <3>1
        <4>2. /\ migrationLog'[migration[m].owner] = migrationLog[migration[m].owner]
              /\ applied'[migration[m].owner] = applied[migration[m].owner]
          BY <2>1, <4>1
        <4>3. migration'[m] = migration[m] /\ schemaLock' = schemaLock /\ knownStreams' \in Nat
          BY <1>1
        <4>. QED BY <1>1, <1>t, <1>o, <4>1, <4>2, <4>3, CallStands
      <3>2. CASE migration[m].pc \notin Stepping
        BY <1>1, <1>t, <3>2 DEF CallOf, Stepping
      <3>. QED BY <3>1, <3>2
    <2>. QED BY <2>3, <2>4, <2>5, <2>6 DEF SchemaInv
  <1>2. CASE RegisterSystem
    <2>1. /\ schemaLock = NoMigrator /\ ~Recorded(System)
          /\ migrationLog' = [migrationLog EXCEPT ![System] = <<Success(1, 0)>>]
          /\ applied' = [applied EXCEPT ![System] = @ \cup {1}]
          /\ UNCHANGED <<halfway, knownStreams, schemaLock, migration>>
      BY <1>2 DEF RegisterSystem
    <2>2. applied[System] = {}
      BY <1>t, <1>o, <2>1 DEF WalkOf
    <2>3. \A m \in Migrator : migration[m].pc \notin Stepping
      BY <1>q, <2>1 DEF Walking, Stepping
    <2>4. knownStreams' \in 0 .. MaxStreams /\ knownStreams <= knownStreams' /\ System <= knownStreams'
      BY <1>t, <1>o, <2>1 DEF SchemaType
    <2>. QED BY <1>1, <1>o, <2>1, <2>2, <2>3, <2>4
  <1>3. CASE CreateStreamTables
    <2> DEFINE s == knownStreams + 1
    <2>1. /\ knownStreams < MaxStreams /\ knownStreams' = s
          /\ migrationLog' = [migrationLog EXCEPT ![s] = <<Success(1, 0)>>]
          /\ applied' = [applied EXCEPT ![s] = @ \cup {1}]
          /\ UNCHANGED <<halfway, schemaLock, migration>>
      BY <1>3 DEF CreateStreamTables
    <2>2. s \in Owner /\ s > knownStreams /\ s \in 0 .. MaxStreams
      BY <1>o, <2>1 DEF Owner, StreamOwner
    <2>3. applied[s] = {}
      BY <1>t, <2>2 DEF WalkOf
    <2>4. ASSUME NEW m \in Migrator, migration[m].pc \in Stepping PROVE migration[m].owner # s
      BY <1>t, <1>o, <2>2, <2>4 DEF CallOf
    <2>5. knownStreams' \in 0 .. MaxStreams /\ knownStreams <= knownStreams' /\ s <= knownStreams'
      BY <1>o, <2>1, <2>2
    <2>6. \A o \in Owner : o = s => SchemaInv'
      BY <1>1, <2>1, <2>3, <2>4, <2>5
    <2>. QED BY <2>2, <2>6
  <1>4. ASSUME NEW m \in Migrator, NEW o \in Owner, NEW all \in BOOLEAN, NEW target \in 1 .. MaxVersion,
               BeginMigration(m, o, all, target)
        PROVE  SchemaInv'
    <2> DEFINE y == [NoMigration EXCEPT !.pc = "locking", !.target = target, !.all = all,
                                        !.todo = IF all THEN {} ELSE {o}]
    <2>1. /\ target \in 1 .. BuildVersion[m] /\ migration' = [migration EXCEPT ![m] = y]
          /\ UNCHANGED schemaRows /\ schemaLock' = schemaLock
      BY <1>4 DEF BeginMigration
    <2>2. y \in MigrationCall /\ y.pc = "locking" /\ y.target = target
      <3>1. (IF all THEN {} ELSE {o}) \in SUBSET Owner /\ target \in Nat
        OBVIOUS
      <3> DEFINE todo == IF all THEN {} ELSE {o}
      <3>2. todo \in SUBSET Owner
        BY <3>1
      <3>3. y = [NoMigration EXCEPT !.pc = "locking", !.target = target, !.all = all, !.todo = todo]
        OBVIOUS
      <3> HIDE DEF todo, y
      <3>. QED BY <1>m, <3>1, <3>2, <3>3 DEF MigrationCall
    <2> HIDE DEF y
    <2>3. OnlyMigrationOf(m) /\ migration'[m] = y
      BY <1>m, <2>1, <2>2, CallRecord
    <2>4. CallOf(m)'
      BY <2>1, <2>2, <2>3 DEF CallOf, Walking, Stepping
    <2>. QED BY <2>1, <2>3, <2>4, CallStep DEF OnlyMigrationOf
  <1>5. ASSUME NEW m \in Migrator, AcquireLock(m) PROVE SchemaInv'
    <2>1. /\ schemaLock = NoMigrator /\ schemaLock' = m /\ UNCHANGED schemaRows
          /\ migration[m].pc = "locking"
      BY <1>5 DEF AcquireLock
    <2>2. /\ OnlyMigrationOf(m) /\ migration'[m].pc = "walking" /\ migration'[m].target = migration[m].target
      <3> DEFINE S == IF migration[m].all THEN {u \in StreamOwner : Recorded(u)} ELSE migration[m].todo
                 y == [migration[m] EXCEPT !.pc = "walking", !.todo = S]
      <3>1. migration' = [migration EXCEPT ![m].pc = "walking", ![m].todo = S]
        BY <1>5 DEF AcquireLock
      <3>2. S \in SUBSET Owner
        BY <1>m DEF Owner, MigrationCall
      <3> HIDE DEF S
      <3>3. migration' = [migration EXCEPT ![m] = y]
        BY <1>m, <3>1 DEF MigrationCall
      <3>4. y \in MigrationCall /\ y.pc = "walking" /\ y.target = migration[m].target
        BY <1>m, <3>2 DEF MigrationCall
      <3> HIDE DEF y
      <3>. QED BY <1>m, <3>3, <3>4, CallRecord
    <2>3. CallOf(m)'
      BY <1>t, <2>1, <2>2 DEF CallOf, Walking, Stepping
    <2>. QED BY <2>1, <2>2, <2>3, CallStep DEF OnlyMigrationOf
  <1>6. ASSUME NEW m \in Migrator, ReadVersion(m) PROVE SchemaInv'
    <2>0. PICK o : o = Min(migration[m].todo)
      OBVIOUS
    <2> DEFINE walk == Recorded(o) /\ Version(o) <= BuildVersion[m] /\ Version(o) # migration[m].target
               y == [migration[m] EXCEPT !.owner = o, !.todo = @ \ {o},
                                         !.pc = IF walk THEN "stepping" ELSE "walking",
                                         !.version = IF walk THEN NextStep(Version(o), migration[m].target) ELSE 0]
    <2>1. /\ migration[m].pc = "walking" /\ migration[m].todo # {} /\ UNCHANGED schemaRows
          /\ schemaLock' = schemaLock
      BY <1>6 DEF ReadVersion
    <2>2. migration' = [migration EXCEPT ![m] = y]
      BY <1>6, <1>m, <2>0 DEF ReadVersion, MigrationCall
    <2>3. o \in Owner
      <3> DEFINE S == migration[m].todo
      <3>1. S \in SUBSET Nat /\ S # {} /\ S \in SUBSET Owner
        BY <1>m, <1>o, <2>1 DEF MigrationCall
      <3> HIDE DEF S
      <3>2. Min(S) \in S
        BY <3>1, MinOfNaturals
      <3>. QED BY <2>0, <3>1, <3>2 DEF S
    <2>4. walk => Version(o) \in 1 .. MaxVersion /\ o <= knownStreams
      <3>1. o \in Int /\ knownStreams \in Int
        BY <1>i, <2>3
      <3>. QED BY <1>t, <2>3, <3>1 DEF WalkOf
    <2>5. walk => NextStep(Version(o), migration[m].target) \in Int
      BY <2>4 DEF NextStep
    <2> HIDE DEF walk
    <2>6. /\ y \in MigrationCall /\ y.pc = (IF walk THEN "stepping" ELSE "walking")
          /\ y.target = migration[m].target /\ y.owner = o
          /\ y.version = (IF walk THEN NextStep(Version(o), migration[m].target) ELSE 0)
      <3> DEFINE pc == IF walk THEN "stepping" ELSE "walking"
                 v == IF walk THEN NextStep(Version(o), migration[m].target) ELSE 0
      <3>1. pc \in {"stepping", "walking"} /\ v \in Int
        BY <2>5
      <3>2. y = [migration[m] EXCEPT !.owner = o, !.todo = @ \ {o}, !.pc = pc, !.version = v]
        OBVIOUS
      <3> HIDE DEF pc, v, y
      <3>3. /\ y \in MigrationCall /\ y.pc = pc /\ y.target = migration[m].target /\ y.owner = o
            /\ y.version = v
        BY <1>m, <2>3, <3>1, <3>2 DEF MigrationCall
      <3>. QED BY <3>3 DEF pc, v
    <2> HIDE DEF y
    <2>7. OnlyMigrationOf(m) /\ migration'[m] = y
      BY <1>m, <2>2, <2>6, CallRecord
    <2>8. /\ (Recorded(o)' <=> Recorded(o)) /\ Version(o)' = Version(o) /\ knownStreams' = knownStreams
      <3>1. migrationLog' = migrationLog /\ knownStreams' = knownStreams
        BY <2>1 DEF schemaRows
      <3>. QED BY <2>3, <3>1, RowsStand
    <2>9. schemaLock = m /\ migration[m].target \in 1 .. BuildVersion[m]
      BY <1>t, <2>1 DEF CallOf, Walking
    <2>10. CallOf(m)'
      <3>1. CASE walk
        <4>1. Version(o) # migration[m].target
          BY <3>1 DEF walk
        <4>. QED BY <2>4, <2>6, <2>7, <2>8, <2>9, <2>1, <3>1, <4>1 DEF CallOf, Walking, Stepping
      <3>2. CASE ~walk
        BY <2>1, <2>6, <2>7, <2>9, <3>2 DEF CallOf, Walking, Stepping
      <3>. QED BY <3>1, <3>2
    <2>. QED BY <2>1, <2>7, <2>10, CallStep DEF OnlyMigrationOf
  <1>7. ASSUME NEW m \in Migrator, UNCHANGED schemaRows,
               schemaLock' = IF schemaLock = m THEN NoMigrator ELSE schemaLock,
               migration' = [migration EXCEPT ![m] = NoMigration]
        PROVE  SchemaInv'
    <2>1. OnlyMigrationOf(m) /\ migration'[m] = NoMigration
      BY <1>7, <1>m, CallRecord
    <2>2. CallOf(m)'
      BY <1>m, <2>1 DEF CallOf, Walking, Stepping
    <2>. QED BY <1>7, <2>1, <2>2, CallStep DEF OnlyMigrationOf
  <1>8. ASSUME NEW m \in Migrator, ReleaseLock(m) \/ LoseConnection(m) PROVE SchemaInv'
    BY <1>7, <1>8 DEF ReleaseLock, LoseConnection
  <1>9. ASSUME NEW m \in Migrator, runStepWithTx(m) PROVE SchemaInv'
    <2>0. PICK o \in Owner : o = migration[m].owner
      BY <1>o
    <2>1. /\ migration[m].pc \in Stepping /\ Recorded(o) /\ Defined(m)
          /\ StepOf(o, migration[m].version) \notin NoTxn
          /\ Apply(o, migration[m].version) /\ RecordSuccess(o, migration[m].version)
          /\ AfterStep(m) /\ schemaLock' = m /\ UNCHANGED <<halfway, knownStreams>>
      BY <1>9, <2>0 DEF runStepWithTx, LockAfterStep, Stepping
    <2>2. PICK v \in 1 .. MaxVersion : v = migration[m].version
      BY <2>0, <2>1, StepAhead
    <2>3. /\ o <= knownStreams /\ schemaLock = m /\ Version(o) \in 1 .. MaxVersion
          /\ v = Version(o) + 1 \/ v = Version(o) - 1
      BY <2>0, <2>1, <2>2, StepAhead
    <2>4. /\ applied' \in [Owner -> SUBSET Nat] /\ halfway' = halfway
          /\ \A w \in Nat : w \in halfway'[o] \/ (w \in applied'[o] <=> w \in 1 .. v)
          /\ \A u \in Owner : u # o => applied'[u] = applied[u] /\ halfway'[u] = halfway[u]
      <3>1. \A w \in Nat : w \in halfway[o] \/ (w \in applied[o] <=> w \in 1 .. Version(o))
        BY <1>t, <2>1 DEF WalkOf
      <3>2. /\ applied' \in [Owner -> SUBSET Nat]
            /\ \A u \in Owner : u # o => applied'[u] = applied[u]
            /\ StepOf(o, v) \in applied'[o] <=> Up(o, v)
            /\ \A w \in Nat : w # StepOf(o, v) => (w \in applied'[o] <=> w \in applied[o])
            /\ \A w \in Nat : w # StepOf(o, v) => (w \in 1 .. v <=> w \in 1 .. Version(o))
            /\ StepOf(o, v) \in 1 .. v <=> Up(o, v)
        BY <1>t, <2>1, <2>2, <2>3, StepApplied DEF SchemaType
      <3>. QED BY <2>1, <3>1, <3>2
    <2>5. /\ WalkOf(o)' /\ Recorded(o)' /\ Version(o)' = v
          /\ migrationLog' \in [Owner -> Seq(VersionRow)]
          /\ \A u \in Owner : u # o => migrationLog'[u] = migrationLog[u]
      <3>1. 1 \notin halfway'[o]
        BY <1>t, <2>4 DEF WalkOf
      <3>. QED BY <2>1, <2>2, <2>3, <2>4, <3>1, StepTaken
    <2>6. OnlyMigrationOf(m) /\ CallOf(m)'
      BY <2>0, <2>1, <2>2, <2>5, CallAdvances
    <2>7. halfway' \in [Owner -> SUBSET Nat]
      BY <1>t, <2>4 DEF SchemaType
    <2>. QED BY <2>1, <2>3, <2>4, <2>5, <2>6, <2>7, OwnerStep DEF OnlyMigrationOf
  <1>10. ASSUME NEW m \in Migrator, runStepWithoutTx(m) PROVE SchemaInv'
    <2>0. PICK o \in Owner : o = migration[m].owner
      BY <1>o
    <2>1. Recorded(o) /\ UNCHANGED <<knownStreams, schemaLock>>
      BY <1>10, <2>0 DEF runStepWithoutTx
    <2>2. CASE /\ migration[m].pc = "stepping" /\ Defined(m)
               /\ StepOf(o, migration[m].version) \in NoTxn
               /\ Apply(o, migration[m].version)
               /\ halfway' = [halfway EXCEPT ![o] = @ \cup {StepOf(o, migration[m].version)}]
               /\ migration' = [migration EXCEPT ![m].pc = "recording"]
               /\ UNCHANGED migrationLog
      <3>1. PICK v \in 1 .. MaxVersion : v = migration[m].version
        BY <2>0, <2>1, <2>2, StepAhead DEF Stepping
      <3>2. /\ o <= knownStreams /\ schemaLock = m /\ Version(o) \in 1 .. MaxVersion
            /\ v = Version(o) + 1 \/ v = Version(o) - 1
        BY <2>0, <2>1, <2>2, <3>1, StepAhead DEF Stepping
      <3>3. StepOf(o, v) \in Nat
        BY <3>1 DEF StepOf
      <3>4. /\ applied' \in [Owner -> SUBSET Nat] /\ halfway' \in [Owner -> SUBSET Nat]
            /\ \A u \in Owner : u # o => applied'[u] = applied[u] /\ halfway'[u] = halfway[u]
            /\ halfway'[o] = halfway[o] \cup {StepOf(o, v)}
        <4>1. /\ applied' \in [Owner -> SUBSET Nat]
              /\ \A u \in Owner : u # o => applied'[u] = applied[u]
          BY <1>t, <2>1, <2>2, <3>1, <3>2, StepApplied DEF SchemaType
        <4>. QED BY <1>t, <2>2, <3>1, <3>3, <4>1 DEF SchemaType
      <3>5. /\ StepOf(o, v) \in applied'[o] <=> Up(o, v)
            /\ \A w \in Nat : w # StepOf(o, v) => (w \in applied'[o] <=> w \in applied[o])
            /\ StepOf(o, v) # 1
        BY <1>t, <2>1, <2>2, <3>1, <3>2, StepApplied DEF SchemaType
      <3>6. \A w \in Nat : w \in halfway'[o] \/ (w \in applied'[o] <=> w \in 1 .. Version(o))
        <4>1. \A w \in Nat : w \in halfway[o] \/ (w \in applied[o] <=> w \in 1 .. Version(o))
          BY <1>t, <2>1 DEF WalkOf
        <4>. QED BY <3>4, <3>5, <4>1
      <3>7. /\ Successes(o)' = Successes(o) /\ Recorded(o)' /\ Version(o)' = Version(o)
        BY <2>1, <2>2, RowsStand
      <3>8. WalkOf(o)'
        <4>1. 1 \notin halfway'[o]
          BY <1>t, <3>4, <3>5 DEF WalkOf
        <4>. QED BY <1>t, <2>1, <2>2, <3>6, <3>7, <4>1 DEF WalkOf
      <3> DEFINE y == [migration[m] EXCEPT !.pc = "recording"]
      <3>9. y \in MigrationCall /\ y.pc = "recording" /\ y.target = migration[m].target
            /\ y.owner = o /\ y.version = v
        BY <1>m, <2>0, <3>1 DEF MigrationCall
      <3>10. migration' = [migration EXCEPT ![m] = y]
        BY <2>2
      <3> HIDE DEF y
      <3>11. OnlyMigrationOf(m) /\ migration'[m] = y
        BY <1>m, <3>9, <3>10, CallRecord
      <3>12. CallOf(m)'
        <4>1. /\ migration[m].target \in 1 .. BuildVersion[m] /\ Version(o) # migration[m].target
              /\ v = NextStep(Version(o), migration[m].target)
          BY <1>t, <2>0, <2>1, <2>2, <3>1 DEF CallOf, Stepping
        <4>2. /\ migration'[m].owner = o /\ migration'[m].version = v
              /\ migration'[m].target = migration[m].target
          BY <3>9, <3>11
        <4>. QED BY <2>1, <3>2, <3>5, <3>7, <4>1, <4>2 DEF CallOf, Up, StepOf
      <3>13. schemaLock' = m /\ migrationLog' \in [Owner -> Seq(VersionRow)]
        BY <1>t, <2>1, <2>2, <3>2 DEF SchemaType
      <3>. QED BY <2>1, <2>2, <3>2, <3>4, <3>8, <3>11, <3>12, <3>13, OwnerStep DEF OnlyMigrationOf
    <2>3. CASE /\ migration[m].pc = "recording" /\ RecordSuccess(o, migration[m].version)
               /\ halfway' = [halfway EXCEPT ![o] = @ \ {StepOf(o, migration[m].version)}]
               /\ AfterStep(m) /\ UNCHANGED applied
      <3>1. PICK v \in 1 .. MaxVersion : v = migration[m].version
        BY <2>0, <2>1, <2>3, StepAhead DEF Stepping
      <3>2. /\ o <= knownStreams /\ schemaLock = m /\ Version(o) \in 1 .. MaxVersion
        BY <2>0, <2>1, <2>3, StepAhead DEF Stepping
      <3>3. /\ v = Version(o) + 1 \/ v = Version(o) - 1
            /\ halfway' \in [Owner -> SUBSET Nat] /\ halfway'[o] = halfway[o] \ {StepOf(o, v)}
            /\ \A u \in Owner : u # o => halfway'[u] = halfway[u]
            /\ applied'[o] = applied[o]
        <4>1. v = Version(o) + 1 \/ v = Version(o) - 1
          BY <2>0, <2>1, <2>3, <3>1, StepAhead DEF Stepping
        <4>. QED BY <1>t, <2>3, <3>1, <4>1 DEF SchemaType
      <3>7. \A w \in Nat : w \in halfway'[o] \/ (w \in applied'[o] <=> w \in 1 .. v)
        <4>1. \A w \in Nat : w \in halfway[o] \/ (w \in applied[o] <=> w \in 1 .. Version(o))
          BY <1>t, <2>1 DEF WalkOf
        <4>2. StepOf(o, v) \in applied[o] <=> Up(o, v)
          BY <1>t, <2>0, <2>1, <2>3, <3>1 DEF CallOf
        <4>3. \A w \in Nat : w # StepOf(o, v) => (w \in 1 .. v <=> w \in 1 .. Version(o))
          BY <3>1, <3>2, <3>3 DEF StepOf, Up
        <4>4. StepOf(o, v) \in 1 .. v <=> Up(o, v)
          BY <3>1, <3>2, <3>3 DEF StepOf, Up
        <4>. QED BY <3>3, <4>1, <4>2, <4>3, <4>4
      <3>4. /\ WalkOf(o)' /\ Recorded(o)' /\ Version(o)' = v
            /\ migrationLog' \in [Owner -> Seq(VersionRow)]
            /\ \A u \in Owner : u # o => migrationLog'[u] = migrationLog[u]
        <4>1. 1 \notin halfway'[o]
          BY <1>t, <3>3 DEF WalkOf
        <4>. QED BY <2>1, <2>3, <3>1, <3>2, <3>3, <3>7, <4>1, StepTaken
      <3>5. OnlyMigrationOf(m) /\ CallOf(m)'
        BY <2>0, <2>1, <2>3, <3>1, <3>2, <3>4, CallAdvances DEF Stepping
      <3>6. applied' \in [Owner -> SUBSET Nat]
        BY <1>t, <2>3 DEF SchemaType
      <3>. QED BY <2>1, <2>3, <3>2, <3>3, <3>4, <3>5, <3>6, OwnerStep DEF OnlyMigrationOf
    <2>. QED BY <1>10, <2>0, <2>2, <2>3 DEF runStepWithoutTx
  <1>11. ASSUME NEW m \in Migrator, FailStep(m) PROVE SchemaInv'
    <2>0. PICK o \in Owner : o = migration[m].owner
      BY <1>o
    <2> DEFINE y == [migration[m] EXCEPT !.pc = "walking", !.version = 0]
    <2>1. /\ migration[m].pc \in Stepping /\ UNCHANGED <<applied, halfway, knownStreams, schemaLock>>
          /\ migration' = [migration EXCEPT ![m] = y]
      <3>1. /\ migration[m].pc \in Stepping
            /\ UNCHANGED <<applied, halfway, knownStreams, schemaLock>>
            /\ migration' = [migration EXCEPT ![m].pc = "walking", ![m].version = 0]
        BY <1>11 DEF FailStep, Stepping
      <3>2. migration' = [migration EXCEPT ![m] = y]
        BY <1>m, <3>1 DEF MigrationCall
      <3>. QED BY <3>1, <3>2
    <2>2. y \in MigrationCall /\ y.pc = "walking" /\ y.target = migration[m].target
      <3>1. migration[m] \in MigrationCall
        BY <1>m
      <3>. QED BY <3>1, GivenUp, Zenon
    <2> HIDE DEF y
    <2>3. OnlyMigrationOf(m) /\ migration'[m] = y
      BY <1>m, <2>1, <2>2, CallRecord
    <2>4. CallOf(m)' /\ schemaLock = m
      BY <1>t, <2>1, <2>2, <2>3 DEF CallOf, Walking, Stepping
    <2>5. CASE UNCHANGED migrationLog
      BY <2>1, <2>3, <2>4, <2>5, CallStep DEF OnlyMigrationOf, schemaRows
    <2>6. CASE /\ Recorded(o)
               /\ migrationLog' = [migrationLog EXCEPT ![o] = Append(@, Failure(migration[m].version))]
      <3>1. PICK v \in 1 .. MaxVersion : v = migration[m].version
        BY <2>0, <2>1, <2>6, StepAhead
      <3> DEFINE x == Failure(v)
      <3>2. x \in VersionRow /\ ~x.ok
        BY DEF Failure, VersionRow
      <3> HIDE DEF x
      <3>3. migrationLog[o] \in Seq(VersionRow)
        BY <1>t DEF SchemaType
      <3>4. /\ migrationLog'[o] = Append(migrationLog[o], x)
            /\ \A u \in Owner : u # o => migrationLog'[u] = migrationLog[u]
            /\ migrationLog' \in [Owner -> Seq(VersionRow)]
        <4>1. Append(migrationLog[o], x) \in Seq(VersionRow)
          BY <3>2, <3>3
        <4>. QED BY <1>t, <2>6, <3>1, <4>1 DEF SchemaType, x
      <3>5. /\ Successes(o)' = Successes(o)
            /\ \A i \in Successes(o) : migrationLog'[o][i] = migrationLog[o][i]
        BY <3>2, <3>3, <3>4, FailureRecorded
      <3>6. Recorded(o)' /\ Version(o)' = Version(o)
        BY <2>6, <3>3, <3>5, LatestIsThere DEF Recorded, Version, LatestSuccess
      <3>7. WalkOf(o)'
        <4>1. \A i \in Successes(o)' : migrationLog'[o][i].min <= MaxVersion
          BY <1>t, <3>5 DEF WalkOf
        <4>2. ASSUME NEW w \in 2 .. Version(o)
              PROVE  \E i \in Successes(o)' : /\ migrationLog'[o][i].version = w
                                              /\ migrationLog'[o][i].min = MinCompatible[w]
          <5>1. PICK i \in Successes(o) : /\ migrationLog[o][i].version = w
                                          /\ migrationLog[o][i].min = MinCompatible[w]
            BY <1>t, <2>6 DEF WalkOf
          <5>. QED BY <3>5, <5>1
        <4>. QED BY <1>t, <2>1, <2>6, <3>6, <4>1, <4>2 DEF WalkOf
      <3>8. /\ schemaLock' = m /\ applied' \in [Owner -> SUBSET Nat] /\ applied' = applied
            /\ halfway' \in [Owner -> SUBSET Nat] /\ halfway' = halfway
        BY <1>t, <2>1, <2>4 DEF SchemaType
      <3>. QED BY <2>1, <2>3, <2>4, <3>4, <3>7, <3>8, OwnerStep DEF OnlyMigrationOf
    <2>. QED BY <1>11, <2>0, <2>5, <2>6 DEF FailStep
  <1>12. ASSUME NEW s \in StreamOwner, DestroyOneStream(s) \/ DeleteListedStream(s) PROVE SchemaInv'
    BY <1>12, DeletionStep DEF DestroyOneStream, DeleteListedStream
  <1>13. CASE UNCHANGED <<schemaRows, schemaLock, migration>>
    BY <1>13, SchemaStands
  <1>14. CASE DropSystemTables
    <2>1. /\ schemaLock = NoMigrator /\ UNCHANGED <<schemaLock, migration>>
      BY <1>14 DEF DropSystemTables
    <2>2. CASE UNCHANGED schemaRows
      BY <1>13, <2>1, <2>2
    <2>3. CASE /\ Droppable /\ migrationLog' = [o \in Owner |-> <<>>]
               /\ applied' = [applied EXCEPT ![System] = {}]
               /\ halfway' = [halfway EXCEPT ![System] = {}] /\ knownStreams' = 0
      <3>0. \A s \in StreamOwner : halfway[s] = {}
        <4>1. ASSUME NEW s \in StreamOwner PROVE halfway[s] = {}
          <5>1. s \in Owner /\ applied[s] = {}
            BY <2>3 DEF Droppable, Owner
          <5>2. CASE ~Recorded(s)
            BY <1>t, <5>1, <5>2 DEF WalkOf
          <5>3. CASE Recorded(s)
            <6>1. /\ Version(s) \in 1 .. MaxVersion /\ 1 \notin halfway[s]
                  /\ \A w \in Nat : w \in halfway[s] \/ (w \in applied[s] <=> w \in 1 .. Version(s))
              BY <1>t, <5>1, <5>3 DEF WalkOf
            <6>2. 1 \in applied[s]
              BY <6>1
            <6>. QED BY <5>1, <6>2
          <5>. QED BY <5>2, <5>3
        <4>. QED BY <4>1
      <3>1. /\ \A o \in Owner : migrationLog'[o] = <<>> /\ applied'[o] = {} /\ halfway'[o] = {}
            /\ applied' \in [Owner -> SUBSET Nat] /\ halfway' \in [Owner -> SUBSET Nat]
        BY <1>t, <2>3, <3>0 DEF SchemaType, Droppable, Owner
      <3>2. migrationLog' \in [Owner -> Seq(VersionRow)]
        BY <2>3
      <3>3. SchemaType'
        BY <1>t, <2>1, <2>3, <3>1, <3>2 DEF SchemaType
      <3>4. \A o \in Owner : WalkOf(o)'
        BY <3>1, NothingRecorded DEF WalkOf
      <3>5. \A m \in Migrator : CallOf(m)'
        BY <1>t, <1>q, <2>1, CallRests
      <3>. QED BY <3>3, <3>4, <3>5 DEF SchemaInv
    <2>. QED BY <1>14, <2>2, <2>3 DEF DropSystemTables
  <1>15. ASSUME NEW m \in Migrator, Migrate(m) PROVE SchemaInv'
    BY <1>o, <1>4, <1>5, <1>6, <1>8, <1>9, <1>10, <1>11, <1>15 DEF Migrate
  <1>16. CASE DestroySystem
    BY <1>12, <1>13, <1>14, <1>16 DEF DestroySystem, BeginDestroySystem, AbandonDestroySystem
  <1>. QED BY <1>2, <1>3, <1>12, <1>15, <1>16 DEF SchemaVersionsNext

-----------------------------------------------------------------------------
(* The services side by side: a behaviour is one component's.              *)

LogInv ==
    /\ part = "retention" => RetentionInv
    /\ part = "heads" => HeadsInv

ScheduledInv ==
    /\ part = "schedules" => SchedulesInv
    /\ part = "status" => StatusInv

\* A step of another component leaves retention alone.
LEMMA RetentionRests == RetentionInv /\ UNCHANGED retentionVars => RetentionInv'
  BY DEF retentionVars, RetentionInv, RetentionType, DecidedInv, OwedInv, JanitorInv,
     NoDanglingHead, Visible

\* The same of the compaction heads.
LEMMA HeadsRest == HeadsInv /\ UNCHANGED headVars => HeadsInv'
  BY DEF headVars, HeadsInv, HeadsType, HeadTxInv, HeadsMoveForward

\* The same of the streams' registry.
LEMMA StreamsRest == StreamsInv /\ UNCHANGED streamRegistryVars => StreamsInv'
  BY DEF streamRegistryVars, StreamsInv, RegistryType, NamesInv, CallsInv, LogEndsInConfig,
     RowsAndTablesAgree, Registered, Snapshot

\* The same of the schema versions.
LEMMA SchemaRests == SchemaInv /\ UNCHANGED schemaVars => SchemaInv'
  BY SchemaStands DEF schemaVars, schemaRows

\* The same of the schedules.
LEMMA SchedulesRest == SchedulesInv /\ UNCHANGED schedulesVars => SchedulesInv'
  BY DEF schedulesVars, SchedulesInv, SchedulesType, ExpressionInv, LockInv, KeyOfSent,
     ScheduledOnce, NewestDueOnly

\* The same of a status report.
LEMMA StatusRests == StatusInv /\ UNCHANGED statusVars => StatusInv'
  BY DEF statusVars, StatusInv, HeadIdInv, ReportInv, ReplacedOrGone

\* Whatever producers, compaction, retention and the group do on a stream that
\* may not drop past the committed mark: the janitor removes no message the
\* group has not resolved, leaves no exception row and no compaction head
\* without its message, and a key's head only moves to a later or higher ranked
\* message (sweep.go, drop.go, orphaned heads, the compaction upsert).
THEOREM LogKept ==
  ASSUME ~AllowDropPastCommitted
  PROVE  ServicesSpec => []LogIsKept
  <1>1. ServicesInit => LogInv
    BY RetentionStarts, HeadsStart DEF ServicesInit, LogInv
  <1>2. LogInv /\ [ServicesNext]_servicesVars => LogInv'
    <2> SUFFICES ASSUME LogInv, [ServicesNext]_servicesVars PROVE LogInv'
      OBVIOUS
    <2>1. part' = part
      BY DEF ServicesNext, servicesVars
    <2>2. CASE part = "retention"
      <3>1. RetentionNext \/ UNCHANGED retentionVars
        BY <2>2 DEF ServicesNext, servicesVars
      <3>. QED BY <2>1, <2>2, <3>1, RetentionStep, RetentionRests DEF LogInv
    <2>3. CASE part = "heads"
      <3>1. CompactionHeadsNext \/ UNCHANGED headVars
        BY <2>3 DEF ServicesNext, servicesVars
      <3>. QED BY <2>1, <2>3, <3>1, HeadsStep, HeadsRest DEF LogInv
    <2>. QED BY <2>1, <2>2, <2>3 DEF LogInv
  <1>3. LogInv => LogIsKept
    BY RetentionSafe DEF LogInv, LogIsKept, HeadsInv
  <1>. QED BY <1>1, <1>2, <1>3, PTL DEF ServicesSpec

\* Whatever registrations, renames, producers and destructions race, crash and
\* are called again: the newest snapshot of a stream's configuration is its row,
\* a stream has its tables exactly while it has a row, and one that is gone has
\* left no partition and no worker row (register, replaceConfig, DestroyStream).
THEOREM StreamsRight == ServicesSpec => []StreamRegistrySound
  <1> DEFINE I == part = "streams" => StreamsInv
  <1>1. ServicesInit => I
    BY StreamsStart DEF ServicesInit
  <1>2. I /\ [ServicesNext]_servicesVars => I'
    <2> SUFFICES ASSUME I, [ServicesNext]_servicesVars, part' = "streams" PROVE StreamsInv'
      OBVIOUS
    <2>1. part = "streams"
      BY DEF ServicesNext, servicesVars
    <2>2. StreamRegistryNext \/ UNCHANGED streamRegistryVars
      BY <2>1 DEF ServicesNext, servicesVars
    <2>. QED BY <2>1, <2>2, StreamsStep, StreamsRest
  <1>3. I => StreamRegistrySound
    BY DEF StreamsInv, StreamRegistrySound
  <1>. QED BY <1>1, <1>2, <1>3, PTL DEF ServicesSpec

\* Whatever migrations race, fail or lose their connection, and whatever is
\* destroyed under them: migration_log says what an owner's tables went through,
\* and the gate admits a build only to a schema that serves it, each but for the
\* NoTxn steps left halfway (runStepWithTx, runStepWithoutTx,
\* ClassifySchemaSupport).
THEOREM SchemaRight == ServicesSpec => []SchemaSound
  <1> DEFINE I == part = "schema" => SchemaInv
  <1>1. ServicesInit => I
    BY SchemaStart DEF ServicesInit
  <1>2. I /\ [ServicesNext]_servicesVars => I'
    <2> SUFFICES ASSUME I, [ServicesNext]_servicesVars, part' = "schema" PROVE SchemaInv'
      OBVIOUS
    <2>1. part = "schema"
      BY DEF ServicesNext, servicesVars
    <2>2. SchemaVersionsNext \/ UNCHANGED schemaVars
      BY <2>1 DEF ServicesNext, servicesVars
    <2>. QED BY <2>1, <2>2, SchemaStep, SchemaRests
  <1>3. I => SchemaSound
    BY SchemaSafe DEF SchemaSound
  <1>. QED BY <1>1, <1>2, <1>3, PTL DEF ServicesSpec

\* What runs below keeps: no schedule produces a time twice, and a status
\* report never takes a message for replaced that is the newest there is.
LEMMA ScheduledHolds == ServicesSpec => []ScheduledInv
  <1>1. ServicesInit => ScheduledInv
    BY SchedulesStart, StatusStart DEF ServicesInit, ScheduledInv
  <1>2. ScheduledInv /\ [ServicesNext]_servicesVars => ScheduledInv'
    <2> SUFFICES ASSUME ScheduledInv, [ServicesNext]_servicesVars PROVE ScheduledInv'
      OBVIOUS
    <2>1. part' = part
      BY DEF ServicesNext, servicesVars
    <2>2. CASE part = "schedules"
      <3>1. SchedulesNext \/ UNCHANGED schedulesVars
        BY <2>2 DEF ServicesNext, servicesVars
      <3>. QED BY <2>1, <2>2, <3>1, SchedulesStep, SchedulesRest DEF ScheduledInv
    <2>3. CASE part = "status"
      <3>1. ScheduleStatusNext \/ UNCHANGED statusVars
        BY <2>3 DEF ServicesNext, servicesVars
      <3>. QED BY <2>1, <2>3, <3>1, StatusStep, StatusRests DEF ScheduledInv
    <2>. QED BY <2>1, <2>2, <2>3 DEF ScheduledInv
  <1>. QED BY <1>1, <1>2, PTL DEF ServicesSpec

\* Whatever callers and scheduler instances do, and whatever a crash rolls back:
\* a scheduled time is produced at most once, and only the newest due time is;
\* and a message the status calls superseded has a later one on its key, or is
\* gone by now (produceDue, replaceConfig, toScheduleMessageOutcome).
THEOREM SchedulesRight == ServicesSpec => []SchedulesSound
  <1>1. ScheduledInv => SchedulesSound
    BY StatusSafe DEF ScheduledInv, SchedulesSound, SchedulesInv
  <1>. QED BY <1>1, ScheduledHolds, PTL

\* No step produces a message of a schedule that is suspended or deleted: the
\* row is claimed under its lock and nothing suspends it until the commit
\* (claimDue's FOR UPDATE).
THEOREM SuspendedSilent == ServicesSpec => SuspendedIsSilent
  <1>1. ScheduledInv /\ [ServicesNext]_servicesVars /\ (part # "schedules" => UNCHANGED sent)
          => [sent' # sent => schedule.id # NoSchedule /\ ~schedule.suspended]_schedulesVars
    BY OnlyDueIsSent DEF ScheduledInv, ServicesNext, servicesVars, schedulesVars
  <1>2. [ServicesNext]_servicesVars => (part # "schedules" => UNCHANGED sent)
    BY DEF ServicesNext, servicesVars, schedulesVars
  <1>3. ScheduledInv /\ [ServicesNext]_servicesVars
          => [sent' # sent => schedule.id # NoSchedule /\ ~schedule.suspended]_schedulesVars
    BY <1>1, <1>2
  <1>. QED BY <1>3, ScheduledHolds, PTL DEF ServicesSpec, SuspendedIsSilent

-----------------------------------------------------------------------------
(* The lab: its manager and its consumer processes. *)

IsProcess(p) ==
    p = [state |-> p.state, code |-> p.code, stopping |-> p.stopping] /\ p.code \in -1 .. 3
AreProcesses(all) == all = [r \in Role |-> all[r]] /\ \A r \in Role : IsProcess(all[r])

\* The worst of the first n exit codes.
WorstFits(n) ==
    /\ \A i \in 1 .. n : codes[i] = 1 => worst \in {1, 3}
    /\ worst = 0 <=> \A i \in 1 .. n : codes[i] = 0

ManagerInv ==
    /\ step \in {"start", "settle", "producing", "observed", "checking", "stopping", "stopped", "done"}
    /\ AreProcesses(process)
    /\ codes \in Seq(0 .. 3) /\ worst \in 0 .. 3
    /\ outcome \in {"none", "error", "verdict"}
    /\ step \in {"start", "done"} => \A r \in Role : process[r].state # "running"
    /\ step \in {"start", "settle", "producing", "observed", "checking"} => outcome = "none"
    /\ step = "done" => outcome # "none"
    /\ outcome = "none" =>
         IF step \in {"stopping", "stopped"}
         THEN Len(codes) \in 1 .. Repetitions /\ WorstFits(Len(codes) - 1)
         ELSE Len(codes) < Repetitions /\ WorstFits(Len(codes))
    /\ outcome = "verdict" =>
         step = "done" /\ Len(codes) = Repetitions /\ WorstFits(Len(codes))

\* At the start the manager has started no process.
LEMMA ManagerStart == LabManagerInit => ManagerInv
  <1> SUFFICES ASSUME LabManagerInit PROVE ManagerInv
    OBVIOUS
  <1>1. codes \in Seq(0 .. 3) /\ Len(codes) = 0 /\ worst = 0 /\ outcome = "none" /\ step = "start"
    BY DEF LabManagerInit
  <1>2. AreProcesses(process) /\ \A r \in Role : process[r].state # "running"
    BY DEF LabManagerInit, Unstarted, IsProcess, AreProcesses
  <1>3. WorstFits(Len(codes)) /\ Len(codes) < Repetitions
    BY <1>1, ManagerConfigIsValid DEF WorstFits
  <1>. QED BY <1>1, <1>2, <1>3 DEF ManagerInv

\* A process that starts is not one of a repetition that is over.
LEMMA StartsProcesses ==
  ASSUME ManagerInv, NEW R, Start(R), UNCHANGED <<codes, worst, outcome>>,
         step \in {"start", "settle", "observed"}, step' \in {"settle", "producing", "checking"}
  PROVE  ManagerInv'
  <1>1. AreProcesses(process')
    <2>1. PICK p : p = [Unstarted EXCEPT !.state = "running"] /\ IsProcess(p)
      <3>0. PICK f, u : f = "none" /\ u = [state |-> "unstarted", code |-> 0, stopping |-> f]
        OBVIOUS
      <3>u. Unstarted = u
        BY <3>0 DEF Unstarted
      <3>1. PICK p : p = [state |-> "running", code |-> 0, stopping |-> f]
        OBVIOUS
      <3>r. p = [u EXCEPT !.state = "running"]
        <4>1. u = [state |-> "unstarted", code |-> 0, stopping |-> f]
          BY <3>0
        <4>. QED BY <3>1, <4>1
      <3>2. p = [Unstarted EXCEPT !.state = "running"]
        BY <3>u, <3>r
      <3>3. IsProcess(p)
        BY <3>1 DEF IsProcess
      <3>. QED BY <3>2, <3>3
    <2>2. process' = [r \in Role |-> IF r \in R THEN p ELSE process[r]]
      BY <2>1 DEF Start
    <2>. QED BY <2>1, <2>2 DEF ManagerInv, AreProcesses
  <1>2. outcome = "none" /\ Len(codes) < Repetitions /\ WorstFits(Len(codes))
    BY DEF ManagerInv
  <1>3. WorstFits(Len(codes))'
    BY <1>2 DEF WorstFits
  <1>. QED BY <1>1, <1>2, <1>3 DEF ManagerInv

\* A process exits or is signalled, which may fail the run; none begins to run.
LEMMA ProcessMoves ==
  ASSUME ManagerInv, AreProcesses(process'),
         \A r \in Role : process'[r].state = "running" => process[r].state = "running",
         UNCHANGED <<codes, worst>>,
         \/ outcome' = outcome /\ (step' = step \/ (step = "stopping" /\ step' = "stopped"))
         \/ outcome' = "error" /\ step' \in {"stopping", "stopped"}
  PROVE  ManagerInv'
  <1>1. \A n : WorstFits(n) => WorstFits(n)'
    BY DEF WorstFits
  <1>2. WorstFits(Len(codes)) => WorstFits(Len(codes))'
    BY DEF WorstFits
  <1>3. WorstFits(Len(codes) - 1) => WorstFits(Len(codes) - 1)'
    BY DEF WorstFits
  <1>. QED BY <1>2, <1>3 DEF ManagerInv

\* A run that fails goes on to stop its processes.
LEMMA RunFails ==
  ASSUME ManagerInv, Fail, UNCHANGED <<process, codes, worst>>
  PROVE  ManagerInv'
  BY DEF ManagerInv, Fail

\* Every step of the manager keeps its invariant.
LEMMA ManagerStep == ManagerInv /\ LabManagerNext => ManagerInv'
  <1> SUFFICES ASSUME ManagerInv, LabManagerNext PROVE ManagerInv'
    OBVIOUS
  <1>1. CASE StartConsumers \/ StartProducer \/ StartChecker
    BY <1>1, StartsProcesses DEF StartConsumers, StartProducer, StartChecker
  <1>2. CASE LookAtRoles \/ Cancel
    BY <1>2, RunFails DEF LookAtRoles, Cancel
  <1>3. CASE ProducerEnded
    <2>1. CASE process["producer"].code = 0
      <3>1. step = "producing" /\ step' = "observed" /\ UNCHANGED <<process, codes, worst, outcome>>
        BY <1>3, <2>1 DEF ProducerEnded
      <3>2. WorstFits(Len(codes))' <=> WorstFits(Len(codes))
        BY <3>1 DEF WorstFits
      <3>. QED BY <3>1, <3>2 DEF ManagerInv
    <2>2. CASE process["producer"].code # 0
      BY <1>3, <2>2, RunFails DEF ProducerEnded
    <2>. QED BY <2>1, <2>2
  <1>4. CASE CheckerEnded
    <2> DEFINE k == process["checker"].code
    <2>1. CASE k < 0
      BY <1>4, <2>1, RunFails DEF CheckerEnded
    <2>2. CASE ~(k < 0)
      <3>1. /\ step = "checking" /\ step' = "stopping" /\ codes' = Append(codes, k)
            /\ UNCHANGED <<process, worst, outcome>>
        BY <1>4, <2>2 DEF CheckerEnded
      <3>2. codes \in Seq(0 .. 3) /\ Len(codes) \in Nat /\ Len(codes) < Repetitions
            /\ WorstFits(Len(codes)) /\ outcome = "none" /\ worst \in 0 .. 3
        BY <3>1, LenProperties DEF ManagerInv
      <3>3. k \in 0 .. 3
        <4>1. "checker" \in Role
          BY DEF Role
        <4>. QED BY <2>2, <4>1 DEF ManagerInv, IsProcess, AreProcesses
      <3>4. codes' \in Seq(0 .. 3) /\ Len(codes') = Len(codes) + 1
            /\ \A i \in 1 .. Len(codes) : codes'[i] = codes[i]
        BY <3>1, <3>2, <3>3, AppendProperties
      <3>5. WorstFits(Len(codes) - 1)'
        <4>1. Len(codes') - 1 = Len(codes)
          BY <3>2, <3>4
        <4>. QED BY <3>1, <3>2, <3>4, <4>1 DEF WorstFits
      <3>6. Len(codes') \in 1 .. Repetitions
        BY <3>2, <3>4, ManagerConfigIsValid
      <3>. QED BY <3>1, <3>2, <3>4, <3>5, <3>6 DEF ManagerInv
    <2>. QED BY <2>1, <2>2
  <1>5. CASE SignalObserver
    <2>1. PICK v \in {"sent", "failed"} : process' = [process EXCEPT !["observer"].stopping = v]
      BY <1>5 DEF SignalObserver
    <2>2. AreProcesses(process)
      BY DEF ManagerInv
    <2>3. AreProcesses(process')
      <3>1. PICK p, q : p = process["observer"] /\ q = [p EXCEPT !.stopping = v]
        OBVIOUS
      <3>2. process' = [process EXCEPT !["observer"] = q]
        BY <2>1, <3>1
      <3>3. "observer" \in Role
        BY DEF Role
      <3>4. IsProcess(q)
        BY <2>2, <3>1, <3>3 DEF IsProcess, AreProcesses
      <3>. QED BY <2>2, <3>2, <3>4 DEF AreProcesses
    <2>4. \A r \in Role : process'[r].state = "running" => process[r].state = "running"
      BY <1>5, <2>1, <2>2 DEF SignalObserver, Running, AreProcesses
    <2>5. UNCHANGED <<codes, worst>>
          /\ (UNCHANGED <<step, outcome>> \/ (outcome' = "error" /\ step' = "stopping"))
      BY <1>5 DEF SignalObserver, Fail
    <2>. QED BY <2>3, <2>4, <2>5, ProcessMoves
  <1>6. CASE SignalAll
    <2>1. PICK unreached :
            /\ process' = [r \in Role |->
                 IF Running(r) /\ process[r].stopping = "none"
                 THEN [process[r] EXCEPT !.stopping = IF r \in unreached THEN "failed" ELSE "sent"]
                 ELSE process[r]]
            /\ outcome' = IF unreached = {} THEN outcome ELSE "error"
      BY <1>6 DEF SignalAll
    <2>2. ASSUME NEW r \in Role
          PROVE  /\ IsProcess(process'[r])
                 /\ process'[r].state = "running" => process[r].state = "running"
      <3>1. PICK p : p = process[r] /\ IsProcess(p)
        BY DEF ManagerInv, AreProcesses
      <3>2. CASE Running(r) /\ process[r].stopping = "none"
        <4>1. PICK t : t = IF r \in unreached THEN "failed" ELSE "sent"
          OBVIOUS
        <4>2. PICK q : q = [p EXCEPT !.stopping = t]
          OBVIOUS
        <4>3. process'[r] = q
          BY <2>1, <3>1, <3>2, <4>1, <4>2
        <4>4. IsProcess(q)
          BY <3>1, <4>2 DEF IsProcess
        <4>. QED BY <3>2, <4>3, <4>4 DEF Running
      <3>3. CASE ~(Running(r) /\ process[r].stopping = "none")
        <4>1. process'[r] = process[r]
          BY <2>1, <3>3
        <4>. QED BY <3>1, <4>1
      <3>. QED BY <3>2, <3>3
    <2>3. process' = [r \in Role |-> process'[r]]
      BY <2>1
    <2>4. AreProcesses(process')
      BY <2>2, <2>3 DEF AreProcesses
    <2>5. step = "stopping" /\ step' = "stopped" /\ UNCHANGED <<codes, worst>>
      BY <1>6 DEF SignalAll
    <2>6. outcome' = outcome \/ outcome' = "error"
      BY <2>1
    <2>. QED BY <2>2, <2>4, <2>5, <2>6, ProcessMoves
  <1>7. ASSUME NEW r \in Role, ExitOnItsOwn(r) \/ ExitWhenSignalled(r) \/ Kill(r) PROVE ManagerInv'
    <2>1. UNCHANGED <<step, codes, worst, outcome>> /\ process[r].state = "running"
      BY <1>7 DEF ExitOnItsOwn, ExitWhenSignalled, Kill, Running
    <2>2. AreProcesses(process')
          /\ \A s \in Role : s # r => process'[s] = process[s]
      <3>1. AreProcesses(process)
        BY DEF ManagerInv
      <3>2. CASE ExitOnItsOwn(r)
        <4>0. PICK k \in Codes(r) : process' = [process EXCEPT ![r].state = "exited", ![r].code = k]
          BY <3>2 DEF ExitOnItsOwn
        <4>1. k \in -1 .. 3
          BY <4>0 DEF Codes
        <4>2. PICK p : p = process[r] /\ IsProcess(p)
          BY <3>1 DEF AreProcesses
        <4>3. PICK M, q : M = [process EXCEPT ![r].state = "exited"] /\ q = [p EXCEPT !.state = "exited"]
          OBVIOUS
        <4>4. M = [process EXCEPT ![r] = q] /\ process' = [M EXCEPT ![r].code = k]
          BY <4>0, <4>2, <4>3
        <4>5. M[r] = q
          BY <3>1, <4>4 DEF AreProcesses
        <4>6. PICK n : n = [q EXCEPT !.code = k]
          OBVIOUS
        <4>7. q = [state |-> "exited", code |-> p.code, stopping |-> p.stopping]
          BY <4>2, <4>3 DEF IsProcess
        <4>8. IsProcess(n)
          BY <4>1, <4>6, <4>7 DEF IsProcess
        <4>9. process' = [process EXCEPT ![r] = n]
          BY <3>1, <4>4, <4>5, <4>6 DEF AreProcesses
        <4>. QED BY <3>1, <4>8, <4>9 DEF AreProcesses
      <3>3. CASE ExitWhenSignalled(r)
        BY <3>1, <3>3 DEF ExitWhenSignalled, IsProcess, AreProcesses
      <3>4. CASE Kill(r)
        <4>1. process' = [process EXCEPT ![r].state = "exited", ![r].code = -1]
          BY <3>4 DEF Kill
        <4>2. PICK p : p = process[r] /\ IsProcess(p)
          BY <3>1 DEF AreProcesses
        <4>3. PICK M, q : M = [process EXCEPT ![r].state = "exited"] /\ q = [p EXCEPT !.state = "exited"]
          OBVIOUS
        <4>4. M = [process EXCEPT ![r] = q] /\ process' = [M EXCEPT ![r].code = -1]
          BY <4>1, <4>2, <4>3
        <4>5. M[r] = q
          BY <3>1, <4>4 DEF AreProcesses
        <4>6. PICK n : n = [q EXCEPT !.code = -1]
          OBVIOUS
        <4>7. q = [state |-> "exited", code |-> p.code, stopping |-> p.stopping]
          BY <4>2, <4>3 DEF IsProcess
        <4>8. IsProcess(n)
          BY <4>1, <4>6, <4>7 DEF IsProcess
        <4>9. process' = [process EXCEPT ![r] = n]
          BY <3>1, <4>4, <4>5, <4>6 DEF AreProcesses
        <4>. QED BY <3>1, <4>8, <4>9 DEF AreProcesses
      <3>. QED BY <1>7, <3>2, <3>3, <3>4
    <2>3. \A s \in Role : process'[s].state = "running" => process[s].state = "running"
      BY <2>1, <2>2
    <2>. QED BY <2>1, <2>2, <2>3, ProcessMoves
  <1>8. CASE NextRepetition
    <2>1. step = "stopped" /\ (\A r \in Role : process[r].state # "running") /\ codes' = codes
      BY <1>8 DEF NextRepetition, StopWaits, Running
    <2>2. CASE outcome = "error"
      <3>1. step' = "done" /\ UNCHANGED <<process, worst, outcome>>
        BY <1>8, <2>2 DEF NextRepetition
      <3>. QED BY <2>1, <2>2, <3>1 DEF ManagerInv
    <2>3. CASE outcome # "error"
      <3> DEFINE n == Len(codes)
                 w == codes[n]
      <3>1. outcome = "none" /\ n \in 1 .. Repetitions /\ WorstFits(n - 1) /\ worst \in 0 .. 3
        BY <2>1, <2>3 DEF ManagerInv
      <3>2. w \in 0 .. 3 /\ n \in Nat /\ n # 0
        <4>1. codes \in Seq(0 .. 3)
          BY DEF ManagerInv
        <4>. QED BY <3>1, <4>1, ElementOfSeq, LenProperties
      <3>3. worst' = IF w = 3 \/ (w = 1 /\ worst # 3) \/ (w = 2 /\ worst = 0) THEN w ELSE worst
        BY <1>8, <2>3 DEF NextRepetition, Worst
      <3>4. worst' \in 0 .. 3
        BY <3>1, <3>2, <3>3
      <3>5. WorstFits(n)'
        <4>1. \A i \in 1 .. n : i \in 1 .. (n - 1) \/ i = n
          BY <3>2
        <4>2. \A i \in 1 .. (n - 1) : i \in 1 .. n
          BY <3>2
        <4>3. n \in 1 .. n
          BY <3>2
        <4>. QED BY <2>1, <3>1, <3>2, <3>3, <4>1, <4>2, <4>3 DEF WorstFits
      <3>6. CASE n = Repetitions
        <4>1. step' = "done" /\ outcome' = "verdict" /\ process' = process
          BY <1>8, <2>3, <3>6 DEF NextRepetition
        <4>. QED BY <2>1, <3>4, <3>5, <3>6, <4>1 DEF ManagerInv
      <3>7. CASE n # Repetitions
        <4>1. step' = "start" /\ outcome' = outcome /\ process' = [r \in Role |-> Unstarted]
          BY <1>8, <2>3, <3>7 DEF NextRepetition
        <4>2. AreProcesses(process')
              /\ \A r \in Role : process'[r].state # "running"
          BY <4>1 DEF Unstarted, IsProcess, AreProcesses
        <4>3. n < Repetitions
          BY <3>1, <3>7, ManagerConfigIsValid
        <4>. QED BY <2>1, <3>1, <3>4, <3>5, <4>1, <4>2, <4>3 DEF ManagerInv
      <3>. QED BY <3>6, <3>7
    <2>. QED BY <2>2, <2>3
  <1>. QED BY <1>1, <1>2, <1>3, <1>4, <1>5, <1>6, <1>7, <1>8 DEF LabManagerNext

\* A step of another component leaves the manager alone.
LEMMA ManagerRests == ManagerInv /\ UNCHANGED managerVars => ManagerInv'
  BY DEF managerVars, ManagerInv, WorstFits

\* The invariant accounts for the run.
LEMMA ManagerSafe == ManagerInv => RunIsAccountedFor
  <1> SUFFICES ASSUME ManagerInv PROVE RunIsAccountedFor
    OBVIOUS
  <1>1. DOMAIN codes = 1 .. Len(codes)
    BY LenProperties DEF ManagerInv
  <1>. QED BY <1>1 DEF ManagerInv, RunIsAccountedFor, WorstFits, Running

\* A message that was taken has been handled once at least; what the counters
\* have is what the snapshots can have; and once the checker has seen the drain
\* no first delivery is left to count.
OrdersInv ==
    /\ order \in [LabOrder -> [at : {"log", "first", "retry", "counted", "resolved", "parked"},
                               by : LabProcess \cup {NoLabProcess}, runs : Nat]]
    /\ \A m \in LabOrder :
         /\ order[m].at = "log" => order[m].runs = 0
         /\ order[m].at = "first" => order[m].runs = 1
         /\ order[m].at = "retry" => order[m].runs > 1
         /\ order[m].at \in {"counted", "resolved", "parked"} => order[m].runs > 0

SettleInv ==
    /\ counter \in [LabProcess -> Nat] /\ firsts \in [LabProcess -> Nat]
    /\ \A p \in LabProcess : firsts[p] <= counter[p]
    /\ written \in [LabProcess -> [after : BOOLEAN, count : Int]]
    /\ snapshot \in [LabProcess -> {"none", "before", "after"}]
    /\ settle.pc \in {"settle", "settled"} => \A m \in LabOrder : PassedOrders(m)
    /\ settle.pc = "drain" => \A p \in LabProcess : ~written[p].after /\ snapshot[p] # "after"
    /\ settle.pc \in {"settle", "settled"} =>
         \A p \in LabProcess : written[p].after => written[p].count >= firsts[p]

ConsumersInv == OrdersInv /\ SettleInv /\ SettledTotalIsWhole

\* At the start no process counts.
LEMMA LabConsumersStart == LabConsumersInit => ConsumersInv
  BY DEF LabConsumersInit, ConsumersInv, OrdersInv, SettleInv, SettledTotalIsWhole, Untaken,
         NoSnapshot

\* Nothing a delivery does makes it one the cursor has not passed.
LEMMA OrderMoves ==
  ASSUME ConsumersInv, NEW m \in LabOrder,
         NEW o \in [at : {"log", "first", "retry", "counted", "resolved", "parked"},
                    by : LabProcess \cup {NoLabProcess}, runs : Nat],
         order' = [order EXCEPT ![m] = o],
         o.at = "log" => o.runs = 0,
         o.at = "first" => o.runs = 1,
         o.at = "retry" => o.runs > 1,
         o.at \in {"counted", "resolved", "parked"} => o.runs > 0,
         PassedOrders(m) => o.at \in {"resolved", "parked"} \/ o.runs > 1,
         UNCHANGED <<snapshot, written, settle>>,
         \/ UNCHANGED <<counter, firsts>>
         \/ \E p \in LabProcess :
              /\ counter' = [counter EXCEPT ![p] = @ + 1]
              /\ \/ firsts' = firsts
                 \/ firsts' = [firsts EXCEPT ![p] = @ + 1] /\ ~PassedOrders(m)
  PROVE  ConsumersInv'
  <1>1. OrdersInv'
    BY DEF ConsumersInv, OrdersInv
  <1>2. \A n \in LabOrder : order'[n] = IF n = m THEN o ELSE order[n]
    BY DEF ConsumersInv, OrdersInv
  <1>3. \A n \in LabOrder : PassedOrders(n) => PassedOrders(n)'
    BY <1>2 DEF PassedOrders
  <1>4. /\ counter' \in [LabProcess -> Nat] /\ firsts' \in [LabProcess -> Nat]
        /\ \A p \in LabProcess : firsts'[p] <= counter'[p]
    <2>0. /\ counter \in [LabProcess -> Nat] /\ firsts \in [LabProcess -> Nat]
          /\ \A p \in LabProcess : firsts[p] <= counter[p]
      BY DEF ConsumersInv, SettleInv
    <2>1. CASE UNCHANGED <<counter, firsts>>
      BY <2>0, <2>1
    <2>2. ASSUME NEW p \in LabProcess, counter' = [counter EXCEPT ![p] = @ + 1], firsts' = firsts
          PROVE  /\ counter' \in [LabProcess -> Nat] /\ firsts' \in [LabProcess -> Nat]
                 /\ \A q \in LabProcess : firsts'[q] <= counter'[q]
      BY <2>0, <2>2
    <2>3. ASSUME NEW p \in LabProcess, counter' = [counter EXCEPT ![p] = @ + 1],
                 firsts' = [firsts EXCEPT ![p] = @ + 1]
          PROVE  /\ counter' \in [LabProcess -> Nat] /\ firsts' \in [LabProcess -> Nat]
                 /\ \A q \in LabProcess : firsts'[q] <= counter'[q]
      BY <2>0, <2>3
    <2>. QED BY <2>1, <2>2, <2>3
  <1>5. settle.pc \in {"settle", "settled"} => firsts' = firsts
    BY DEF ConsumersInv, SettleInv
  <1>6. SettleInv'
    BY <1>3, <1>4, <1>5 DEF ConsumersInv, SettleInv
  <1>7. SettledTotalIsWhole'
    BY <1>5 DEF ConsumersInv, SettledTotalIsWhole, NoSnapshot
  <1>. QED BY <1>1, <1>6, <1>7 DEF ConsumersInv

\* Every step of the consumer processes keeps their invariant.
LEMMA LabConsumersStep == ConsumersInv /\ LabConsumersNext => ConsumersInv'
  <1> SUFFICES ASSUME ConsumersInv, LabConsumersNext PROVE ConsumersInv'
    OBVIOUS
  <1>1. CASE \E p \in LabProcess :
               StartConsumer(p) \/ StopConsumer(p) \/ NextChange(p) \/ StopRole(p)
    <2>1. UNCHANGED <<order, counter, firsts, snapshot, written, settle>>
      BY <1>1 DEF StartConsumer, StopConsumer, NextChange, StopRole
    <2>. QED BY <2>1 DEF ConsumersInv, OrdersInv, SettleInv, SettledTotalIsWhole, PassedOrders,
                         NoSnapshot
  <1>2. ASSUME NEW p \in LabProcess, NEW m \in LabOrder, TakeOrder(p, m) PROVE ConsumersInv'
    <2>1. /\ order[m].at \in {"log", "parked"}
          /\ order' = [order EXCEPT ![m] = [at |-> IF order[m].at = "log" THEN "first" ELSE "retry",
                                            by |-> p, runs |-> order[m].runs + 1]]
          /\ UNCHANGED <<counter, firsts, snapshot, written, settle>>
      BY <1>2 DEF TakeOrder, ConsumersInv, OrdersInv
    <2>2. PICK o : o = [at |-> IF order[m].at = "log" THEN "first" ELSE "retry",
                         by |-> p, runs |-> order[m].runs + 1]
      OBVIOUS
    <2>3. /\ order[m].runs \in Nat
          /\ order[m].at = "log" => order[m].runs = 0
          /\ order[m].at = "parked" => order[m].runs > 0
      BY DEF ConsumersInv, OrdersInv
    <2>4. /\ o.at = (IF order[m].at = "log" THEN "first" ELSE "retry") /\ o.runs = order[m].runs + 1
          /\ o \in [at : {"log", "first", "retry", "counted", "resolved", "parked"},
                    by : LabProcess \cup {NoLabProcess}, runs : Nat]
      BY <2>2, <2>3
    <2>5. /\ o.at # "log" /\ o.at \notin {"counted", "resolved", "parked"}
          /\ o.at = "first" => o.runs = 1
          /\ o.at = "retry" => o.runs > 1
          /\ PassedOrders(m) => o.runs > 1
      BY <2>1, <2>3, <2>4 DEF PassedOrders
    <2>6. order' = [order EXCEPT ![m] = o]
      BY <2>1, <2>2
    <2>. QED BY <1>2, <2>1, <2>4, <2>5, <2>6, OrderMoves
  <1>3. ASSUME NEW p \in LabProcess, NEW m \in LabOrder, CountOrder(p, m) PROVE ConsumersInv'
    <2>1. /\ order[m].at \in {"first", "retry"} /\ order' = [order EXCEPT ![m].at = "counted"]
          /\ counter' = [counter EXCEPT ![p] = @ + 1]
          /\ firsts' = IF order[m].at = "first" THEN [firsts EXCEPT ![p] = @ + 1] ELSE firsts
          /\ UNCHANGED <<snapshot, written, settle>>
      BY <1>3 DEF CountOrder
    <2>2. PICK o : o = [order[m] EXCEPT !.at = "counted"]
      OBVIOUS
    <2>3. /\ order[m] \in [at : {"log", "first", "retry", "counted", "resolved", "parked"},
                           by : LabProcess \cup {NoLabProcess}, runs : Nat]
          /\ order[m].at = "first" => order[m].runs = 1
      BY DEF ConsumersInv, OrdersInv
    <2>4. order[m].at = "retry" => order[m].runs > 1
      BY DEF ConsumersInv, OrdersInv
    <2>5. /\ o \in [at : {"log", "first", "retry", "counted", "resolved", "parked"},
                    by : LabProcess \cup {NoLabProcess}, runs : Nat]
          /\ o.at = "counted" /\ o.runs = order[m].runs
      BY <2>2, <2>3
    <2>6. order' = [order EXCEPT ![m] = o]
      BY <2>1, <2>2
    <2>7. \E q \in LabProcess :
            /\ counter' = [counter EXCEPT ![q] = @ + 1]
            /\ \/ firsts' = firsts
               \/ firsts' = [firsts EXCEPT ![q] = @ + 1] /\ ~PassedOrders(m)
      <3>1. \/ firsts' = firsts
            \/ firsts' = [firsts EXCEPT ![p] = @ + 1] /\ ~PassedOrders(m)
        <4>1. CASE order[m].at = "first"
          <5>1. ~PassedOrders(m)
            BY <2>3, <4>1 DEF PassedOrders
          <5>. QED BY <2>1, <4>1, <5>1
        <4>2. CASE order[m].at # "first"
          BY <2>1, <4>2
        <4>. QED BY <4>1, <4>2
      <3>. QED BY <2>1, <3>1
    <2>8. order[m].runs > 0 /\ (PassedOrders(m) => o.runs > 1)
      BY <2>1, <2>3, <2>4, <2>5 DEF PassedOrders
    <2>. QED BY <1>3, <2>1, <2>5, <2>6, <2>7, <2>8, OrderMoves
  <1>4. ASSUME NEW m \in LabOrder, CommitOrder(m) PROVE ConsumersInv'
    <2>1. /\ order[m].at = "counted" /\ UNCHANGED <<counter, firsts, snapshot, written, settle>>
      BY <1>4 DEF CommitOrder
    <2>2. PICK fate \in {"resolved", "parked"} :
            order' = [order EXCEPT ![m].at = fate, ![m].by = NoLabProcess]
      BY <1>4 DEF CommitOrder
    <2>3. /\ order \in [LabOrder -> [at : {"log", "first", "retry", "counted", "resolved", "parked"},
                                     by : LabProcess \cup {NoLabProcess}, runs : Nat]]
          /\ order[m].runs > 0
      BY <2>1 DEF ConsumersInv, OrdersInv
    <2>4. PICK o : o = [at |-> fate, by |-> NoLabProcess, runs |-> order[m].runs]
      OBVIOUS
    <2>5. /\ o \in [at : {"log", "first", "retry", "counted", "resolved", "parked"},
                    by : LabProcess \cup {NoLabProcess}, runs : Nat]
          /\ o.at = fate /\ o.runs = order[m].runs
      BY <2>3, <2>4
    <2>6. order' = [order EXCEPT ![m] = o]
      <3>1. PICK M, q : M = [order EXCEPT ![m].at = fate] /\ q = [order[m] EXCEPT !.at = fate]
        OBVIOUS
      <3>2. M = [order EXCEPT ![m] = q] /\ order' = [M EXCEPT ![m].by = NoLabProcess]
        BY <2>2, <3>1
      <3>3. M[m] = q
        BY <2>3, <3>2
      <3>4. o = [q EXCEPT !.by = NoLabProcess]
        <4>1. PICK r : r = order[m] /\ r = [at |-> r.at, by |-> r.by, runs |-> r.runs]
          BY <2>3
        <4>2. q = [at |-> fate, by |-> r.by, runs |-> r.runs]
          BY <3>1, <4>1
        <4>. QED BY <2>4, <4>1, <4>2
      <3>5. order' = [M EXCEPT ![m] = o]
        BY <3>2, <3>3, <3>4
      <3>. QED BY <2>3, <3>2, <3>5
    <2>. QED BY <1>4, <2>1, <2>2, <2>3, <2>5, <2>6, OrderMoves
  <1>5. ASSUME NEW p \in LabProcess, BeginSnapshot(p) PROVE ConsumersInv'
    <2>1. snapshot' = [snapshot EXCEPT ![p] = SnapshotTime]
          /\ UNCHANGED <<order, counter, firsts, written, settle>>
      BY <1>5 DEF BeginSnapshot
    <2>2. SettleInv'
      BY <2>1 DEF ConsumersInv, SettleInv, SnapshotTime, PassedOrders
    <2>. QED BY <2>1, <2>2 DEF ConsumersInv, OrdersInv, SettledTotalIsWhole, NoSnapshot
  <1>6. ASSUME NEW p \in LabProcess, WriteSnapshot(p) PROVE ConsumersInv'
    <2>1. /\ written' = [written EXCEPT ![p] = [after |-> snapshot[p] = "after", count |-> counter[p]]]
          /\ snapshot' = [snapshot EXCEPT ![p] = "none"]
          /\ UNCHANGED <<order, counter, firsts, settle>>
      BY <1>6 DEF WriteSnapshot
    <2>0. PICK f : f = (snapshot[p] = "after")
      OBVIOUS
    <2>f. f \in BOOLEAN /\ (f <=> snapshot[p] = "after") /\ counter[p] \in Int
      <3>1. f \in BOOLEAN /\ (f <=> snapshot[p] = "after")
        BY <2>0, Zenon
      <3>2. counter[p] \in Int
        BY DEF ConsumersInv, SettleInv
      <3>. QED BY <3>1, <3>2
    <2>2. PICK w : w = [after |-> f, count |-> counter[p]]
      OBVIOUS
    <2>3. /\ w \in [after : BOOLEAN, count : Int] /\ w.count = counter[p]
          /\ w.after <=> snapshot[p] = "after"
      <3>1. w.after = f /\ w.count = counter[p] /\ w \in [after : BOOLEAN, count : Int]
        BY <2>f, <2>2
      <3>. QED BY <2>f, <3>1
    <2>4. written' = [written EXCEPT ![p] = w]
      BY <2>0, <2>1, <2>2
    <2>5. SettleInv'
      BY <2>1, <2>3, <2>4 DEF ConsumersInv, SettleInv, PassedOrders
    <2>. QED BY <2>1, <2>5 DEF ConsumersInv, OrdersInv, SettledTotalIsWhole, NoSnapshot
  <1>7. CASE DrainSeen
    <2>1. /\ settle.pc = "drain" /\ \A m \in LabOrder : PassedOrders(m)
          /\ settle' = [settle EXCEPT !.pc = "settle"]
          /\ UNCHANGED <<order, counter, firsts, snapshot, written>>
      BY <1>7 DEF DrainSeen
    <2>2. settle'.pc \notin {"drain", "settled"}
      BY <2>1 DEF ConsumersInv, SettleInv
    <2>. QED BY <2>1, <2>2 DEF ConsumersInv, OrdersInv, SettleInv, SettledTotalIsWhole, PassedOrders
  <1>8. CASE ReloadProgress
    <2>1. /\ settle.pc = "settle"
          /\ settle' = [pc |-> IF OldestIsAfterDrain THEN "settled" ELSE "settle", loaded |-> written]
          /\ UNCHANGED <<order, counter, firsts, snapshot, written>>
      BY <1>8 DEF ReloadProgress
    <2>2. settle'.loaded = written /\ settle'.pc \in {"settle", "settled"}
          /\ (settle'.pc = "settled" => OldestIsAfterDrain)
      BY <2>1
    <2>3. SettledTotalIsWhole'
      BY <2>1, <2>2 DEF ConsumersInv, SettleInv, SettledTotalIsWhole, OldestIsAfterDrain,
                        LoadedSeries, NoSnapshot
    <2>. QED BY <2>1, <2>2, <2>3 DEF ConsumersInv, OrdersInv, SettleInv, PassedOrders
  <1>9. CASE SpendBudget
    <2>1. /\ settle.pc \in {"drain", "settle"} /\ settle' = [settle EXCEPT !.pc = "unknown"]
          /\ UNCHANGED <<order, counter, firsts, snapshot, written>>
      BY <1>9 DEF SpendBudget
    <2>2. settle'.pc \notin {"drain", "settle", "settled"}
      BY <2>1 DEF ConsumersInv, SettleInv
    <2>. QED BY <2>1, <2>2 DEF ConsumersInv, OrdersInv, SettleInv, SettledTotalIsWhole, PassedOrders
  <1>. QED BY <1>1, <1>2, <1>3, <1>4, <1>5, <1>6, <1>7, <1>8, <1>9 DEF LabConsumersNext

\* A step of another component leaves the processes alone.
LEMMA LabConsumersRest == ConsumersInv /\ UNCHANGED consumerVars => ConsumersInv'
  BY DEF consumerVars, ConsumersInv, OrdersInv, SettleInv, SettledTotalIsWhole, PassedOrders,
         NoSnapshot

-----------------------------------------------------------------------------
(* The lab's guards. *)

GuardType ==
    /\ declared \in GuardScenario
    /\ instant \in Nat
    /\ phase \in [PacedStream -> Nat \ {0}]
    /\ dueAt \in [PacedStream -> Nat \cup {-1}]
    /\ started \in [PacedStream -> Nat]
    /\ runPhase \subseteq [stream : PacedStream, phase : PhaseNumber, status : {"started", "ended"}, at : Nat]
    /\ \A r \in runPhase : r.at <= instant
    /\ messagesMade \subseteq [stream : PacedStream, phase : PhaseNumber, scheduled : Nat, at : Nat]
    /\ IsFiniteSet(messagesMade)
    /\ diverging \subseteq PhaseNumber \X Target
    /\ breached \subseteq PhaseNumber
    /\ guards \in {"none", "measuring", "unknown", "pass", "fail"}

(* The guards that can fail the run have nothing to count. *)
NothingCounted ==
    /\ Judges("schedule_kept") => countScheduleSlips = 0
    /\ Judges("backlog_bounded") => countDivergingPhases = 0
    /\ Judges("generator_headroom") => countHeadroomBreaches = 0

(* What is measured of a phase stays true, since the run is over then. *)
MeasuredInv ==
    /\ DOMAIN heldUp \in {1..n : n \in 0..Len(Phases)}
    /\ guards = "none" => DOMAIN heldUp = {}
    /\ \A i \in DOMAIN heldUp : Finished(i) /\ (heldUp[i] <=> Held(i))
    /\ guards \in {"pass", "fail"} => DOMAIN heldUp = PhaseNumber /\ (guards = "pass" <=> NothingCounted)

(* How the only stream goes through its phases. *)
PaceInv(s) ==
    /\ phase[s] <= Len(Phases) + 1
    /\ \A r \in runPhase : r.phase <= phase[s]
    /\ dueAt[s] = -1 => RowsOf(phase[s], "started") = {}
    /\ dueAt[s] # -1 => /\ phase[s] \in PhaseNumber
                        /\ RowsOf(phase[s], "started") = {started[s]}
                        /\ started[s] <= dueAt[s] /\ dueAt[s] <= Ends(s)
    /\ RowsOf(phase[s], "ended") = {}
    /\ \A i \in 1..(phase[s] - 1) : \E t, e \in Nat :
          RowsOf(i, "started") = {t} /\ RowsOf(i, "ended") = {e} /\ t + Phases[i].duration <= e
    /\ \A i, j \in PhaseNumber : i < j =>
          \A e \in RowsOf(i, "ended"), t \in RowsOf(j, "started") : e <= t

PacedCallsInv(s) ==
    /\ \A m \in messagesMade :
          /\ Paced(Phases[m.phase]) /\ m.phase <= phase[s]
          /\ \E t \in RowsOf(m.phase, "started") : t <= m.scheduled /\ m.scheduled < t + Phases[m.phase].duration
          /\ m.phase = phase[s] => m.scheduled < dueAt[s]
    /\ \A m, q \in messagesMade : m.scheduled = q.scheduled => m = q

GuardInv ==
    /\ GuardType
    /\ MeasuredInv
    /\ \A s \in PacedStream : PacedStream = {s} => PaceInv(s) /\ PacedCallsInv(s)

\* What the assumption on the phases gives the provers.
LEMMA PhasesAre ==
  /\ Phases \in Seq([warmup : BOOLEAN, unpaced : BOOLEAN, rate : Nat, duration : Nat \ {0}])
  /\ Len(Phases) \in Nat /\ PhaseNumber = 1..Len(Phases)
  /\ \A i \in PhaseNumber : Phases[i].duration \in Nat \ {0}
  /\ IsFiniteSet(PhaseNumber) /\ IsFiniteSet(Judged) /\ Judged \subseteq PhaseNumber
  <1>1. Phases \in Seq([warmup : BOOLEAN, unpaced : BOOLEAN, rate : Nat, duration : Nat \ {0}])
    BY PhasesAreValid
  <1>2. Len(Phases) \in Nat /\ PhaseNumber = 1..Len(Phases)
    BY <1>1 DEF PhaseNumber
  <1>3. \A i \in PhaseNumber : Phases[i].duration \in Nat \ {0}
    <2> DEFINE T == [warmup : BOOLEAN, unpaced : BOOLEAN, rate : Nat, duration : Nat \ {0}]
    <2>1. \A i \in PhaseNumber : Phases[i] \in T
      <3> HIDE DEF T
      <3>. QED BY <1>1, <1>2, ElementOfSeq DEF T
    <2>2. \A x \in T : x.duration \in Nat \ {0}
      OBVIOUS
    <2> HIDE DEF T
    <2>. QED BY <2>1, <2>2
  <1>4. IsFiniteSet(PhaseNumber)
    BY <1>2, FS_Interval
  <1>5. Judged \subseteq PhaseNumber
    BY DEF Judged
  <1>. QED BY <1>1, <1>2, <1>3, <1>4, <1>5, FS_Subset

\* A phase has finitely many late calls.
LEMMA SlipsAreFinite ==
  ASSUME GuardType, NEW i \in PhaseNumber
  PROVE  IsFiniteSet(Slips(i)) /\ Cardinality(Slips(i)) \in Nat
  <1> DEFINE S == {q \in messagesMade : InWindow(i, q.scheduled) /\ q.at - q.scheduled > ScheduleTolerance}
             f == [q \in S |-> q.scheduled]
  <1>1. IsFiniteSet(S)
    BY FS_Subset DEF GuardType
  <1>2. f \in Surjection(S, Slips(i))
    BY DEF Slips, Surjection
  <1> HIDE DEF S, f
  <1>3. IsFiniteSet(Slips(i))
    BY <1>1, <1>2, FS_Surjection
  <1>. QED BY <1>3, FS_CardinalityType

\* The count of late calls is the sum over the judged phases.
LEMMA SlipsAreSummed ==
  countScheduleSlips
    = Total([i \in PhaseNumber |-> Cardinality(Slips(i))], {i \in Judged : Paced(Phases[i])})
  <1> DEFINE S == {i \in Judged : Paced(Phases[i])}
             g == [i \in PhaseNumber |-> Cardinality(Slips(i))]
  <1>1. \A t \in SUBSET S : t # {} =>
          g[CHOOSE x \in t : TRUE] = Cardinality(Slips(CHOOSE x \in t : TRUE))
    <2> SUFFICES ASSUME NEW t \in SUBSET S, t # {} PROVE (CHOOSE x \in t : TRUE) \in PhaseNumber
      OBVIOUS
    <2>1. (CHOOSE x \in t : TRUE) \in t
      OBVIOUS
    <2>2. t \subseteq PhaseNumber
      BY PhasesAre
    <2>. QED BY <2>1, <2>2
  <1> HIDE DEF S, g
  <1>2. \A h : IsSum(S, g, h) <=>
                 h = [t \in SUBSET S |-> IF t = {} THEN 0
                        ELSE Cardinality(Slips(CHOOSE x \in t : TRUE)) + h[t \ {CHOOSE x \in t : TRUE}]]
    BY <1>1 DEF IsSum, SumStep, Chosen
  <1>3. (CHOOSE h : IsSum(S, g, h)) =
          CHOOSE h : h = [t \in SUBSET S |-> IF t = {} THEN 0
                        ELSE Cardinality(Slips(CHOOSE x \in t : TRUE)) + h[t \ {CHOOSE x \in t : TRUE}]]
    BY <1>2, Zenon
  <1>4. countScheduleSlips = (CHOOSE h : h = [t \in SUBSET S |-> IF t = {} THEN 0
                        ELSE Cardinality(Slips(CHOOSE x \in t : TRUE)) + h[t \ {CHOOSE x \in t : TRUE}]])[S]
    BY Zenon DEF countScheduleSlips, MapThenSumSet, MapThenFoldSet, S
  <1>. QED BY <1>3, <1>4 DEF Total, S, g

\* Each count is zero exactly when no judged phase has what it counts.
LEMMA CountsTell ==
  ASSUME GuardType
  PROVE  /\ countScheduleSlips = 0 <=> \A i \in Judged : Paced(Phases[i]) => Slips(i) = {}
         /\ countDivergingPhases = 0 <=> \A i \in Judged : \A t \in Target : <<i, t>> \notin diverging
         /\ countHeadroomBreaches = 0 <=> \A i \in Judged : i \notin breached
  <1> DEFINE I == {i \in Judged : Paced(Phases[i])}
             g == [i \in PhaseNumber |-> Cardinality(Slips(i))]
  <1>1. countScheduleSlips = 0 <=> \A i \in Judged : Paced(Phases[i]) => Slips(i) = {}
    <2>1. IsFiniteSet(I) /\ I \subseteq PhaseNumber
      BY PhasesAre, FS_Subset
    <2>2. \A i \in I : g[i] \in Nat /\ (g[i] = 0 <=> Slips(i) = {})
      <3> SUFFICES ASSUME NEW i \in I PROVE g[i] \in Nat /\ (g[i] = 0 <=> Slips(i) = {})
        OBVIOUS
      <3>1. IsFiniteSet(Slips(i)) /\ Cardinality(Slips(i)) \in Nat /\ g[i] = Cardinality(Slips(i))
        BY <2>1, SlipsAreFinite
      <3>. QED BY <3>1, FS_EmptySet
    <2>3. Total(g, I) = 0 <=> \A i \in I : g[i] = 0
      <3> HIDE DEF I, g
      <3>. QED BY <2>1, <2>2, TotalIsZero
    <2> HIDE DEF g
    <2>4. Total(g, I) = 0 <=> \A i \in Judged : Paced(Phases[i]) => Slips(i) = {}
      BY <2>2, <2>3
    <2>. QED BY <2>4, SlipsAreSummed DEF g
  <1>2. countDivergingPhases = 0 <=> \A i \in Judged : \A t \in Target : <<i, t>> \notin diverging
    <2> DEFINE D == {d \in diverging : d[1] \in Judged}
    <2>1. IsFiniteSet(D)
      <3>1. IsFiniteSet(PhaseNumber \X Target)
        BY PhasesAre, PhasesAreValid, FS_Product
      <3>2. D \subseteq PhaseNumber \X Target
        BY DEF GuardType
      <3>. QED BY <3>1, <3>2, FS_Subset
    <2>2. countDivergingPhases = 0 <=> D = {}
      BY <2>1, FS_EmptySet DEF countDivergingPhases
    <2>3. D = {} <=> \A i \in Judged : \A t \in Target : <<i, t>> \notin diverging
      BY DEF GuardType
    <2>. QED BY <2>2, <2>3
  <1>3. countHeadroomBreaches = 0 <=> \A i \in Judged : i \notin breached
    <2>1. IsFiniteSet(breached \intersect Judged)
      BY PhasesAre, FS_Subset
    <2>. QED BY <2>1, FS_EmptySet DEF countHeadroomBreaches
  <1>. QED BY <1>1, <1>2, <1>3

\* With one stream the windows part the calls by their phases.
LEMMA WindowsPart ==
  ASSUME GuardType, NEW s \in PacedStream, PaceInv(s), PacedCallsInv(s),
         \A i \in PhaseNumber : Finished(i)
  PROVE  \A i \in PhaseNumber, m \in messagesMade : InWindow(i, m.scheduled) <=> m.phase = i
  <1>1. \A i \in PhaseNumber : i \in 1..(phase[s] - 1)
    <2> SUFFICES ASSUME NEW i \in PhaseNumber PROVE i \in 1..(phase[s] - 1)
      OBVIOUS
    <2>1. RowsOf(i, "ended") # {}
      BY DEF Finished
    <2>2. PICK r \in runPhase : r.phase = i
      BY <2>1 DEF RowsOf
    <2>3. i <= phase[s] /\ i # phase[s]
      BY <2>1, <2>2 DEF PaceInv
    <2>. QED BY <2>3, PhasesAre DEF GuardType
  <1>2. \A i \in PhaseNumber : /\ From(i) \in Nat /\ To(i) \in Nat
                               /\ RowsOf(i, "started") = {From(i)} /\ RowsOf(i, "ended") = {To(i)}
                               /\ From(i) + Phases[i].duration <= To(i)
    <2> SUFFICES ASSUME NEW i \in PhaseNumber
                 PROVE  /\ From(i) \in Nat /\ To(i) \in Nat
                        /\ RowsOf(i, "started") = {From(i)} /\ RowsOf(i, "ended") = {To(i)}
                        /\ From(i) + Phases[i].duration <= To(i)
      OBVIOUS
    <2>1. PICK t \in Nat, e \in Nat :
             RowsOf(i, "started") = {t} /\ RowsOf(i, "ended") = {e} /\ t + Phases[i].duration <= e
      BY <1>1 DEF PaceInv
    <2>2. From(i) = t /\ To(i) = e
      <3>1. Min({t}) \in {t}
        BY MinOfNaturals
      <3>2. Max({e}) \in {e}
        BY MaxOfNaturals
      <3>. QED BY <2>1, <3>1, <3>2 DEF From, To
    <2>. QED BY <2>1, <2>2
  <1>3. TAKE i \in PhaseNumber, m \in messagesMade
  <1> DEFINE j == m.phase
             c == m.scheduled
  <1>4. j \in PhaseNumber /\ c \in Nat
    BY DEF GuardType
  <1>5. From(j) <= c /\ c < From(j) + Phases[j].duration
    BY <1>2, <1>4 DEF PacedCallsInv
  <1>6. c < To(j)
    <2>1. /\ From(j) \in Nat /\ To(j) \in Nat /\ Phases[j].duration \in Nat
          /\ From(j) + Phases[j].duration <= To(j)
      BY <1>2, <1>4, PhasesAre
    <2>. QED BY <1>4, <1>5, <2>1
  <1>7. i < j => To(i) <= From(j)
    BY <1>2, <1>4 DEF PaceInv
  <1>8. j < i => To(j) <= From(i)
    BY <1>2, <1>4 DEF PaceInv
  <1>9. i \in Nat /\ j \in Nat
    BY <1>4, PhasesAre
  <1> HIDE DEF j, c
  <1>10. CASE i = j
    BY <1>5, <1>6, <1>10 DEF InWindow, j, c
  <1>11. CASE i < j
    <2>1. ~(c < To(i))
      BY <1>2, <1>4, <1>5, <1>7, <1>11
    <2>. QED BY <1>9, <1>11, <2>1 DEF InWindow, j, c
  <1>12. CASE j < i
    <2>1. ~(From(i) <= c)
      BY <1>2, <1>4, <1>6, <1>8, <1>12
    <2>. QED BY <1>9, <1>12, <2>1 DEF InWindow, j, c
  <1>. QED BY <1>9, <1>10, <1>11, <1>12

\* With one stream the late calls of the phases are those of the run.
LEMMA SlipsOfOneStream ==
  ASSUME GuardType, NEW s \in PacedStream, PaceInv(s), PacedCallsInv(s),
         \A i \in PhaseNumber : Finished(i)
  PROVE  countScheduleSlips
           = Cardinality({p \in messagesMade : p.phase \in Judged /\ p.at - p.scheduled > ScheduleTolerance})
  <1> DEFINE S == {p \in messagesMade : p.phase \in Judged /\ p.at - p.scheduled > ScheduleTolerance}
             I == {i \in Judged : Paced(Phases[i])}
             class == [p \in S |-> p.phase]
             g == [i \in PhaseNumber |-> Cardinality(Slips(i))]
             k == [i \in I |-> Cardinality({x \in S : class[x] = i})]
  <1>1. IsFiniteSet(S) /\ IsFiniteSet(I)
    BY PhasesAre, FS_Subset DEF GuardType
  <1>2. \A x \in S : class[x] \in I
    BY DEF PacedCallsInv
  <1>3. Total(k, I) = Cardinality(S)
    <2> HIDE DEF S, I, class
    <2>. QED BY <1>1, <1>2, TotalOfClasses
  <1>4. ASSUME NEW i \in I PROVE g[i] = k[i]
    <2> DEFINE own == {x \in S : class[x] = i}
               f == [x \in own |-> x.scheduled]
    <2>1. i \in PhaseNumber
      BY PhasesAre
    <2>2. IsFiniteSet(own)
      BY <1>1, FS_Subset
    <2>3. Slips(i) = {x.scheduled : x \in own}
      <3>1. own = {q \in messagesMade : InWindow(i, q.scheduled) /\ q.at - q.scheduled > ScheduleTolerance}
        BY <2>1, WindowsPart
      <3>. QED BY <3>1 DEF Slips
    <2>4. f \in Surjection(own, Slips(i)) /\ f \in Injection(own, Slips(i))
      <3>1. f \in [own -> Slips(i)]
        BY <2>3
      <3>2. \A x, y \in own : f[x] = f[y] => x = y
        BY DEF PacedCallsInv
      <3>3. \A y \in Slips(i) : \E x \in own : f[x] = y
        BY <2>3
      <3> HIDE DEF f, own
      <3>. QED BY <3>1, <3>2, <3>3 DEF Surjection, Injection, IsInjective
    <2> HIDE DEF own, f
    <2>5. Cardinality(Slips(i)) = Cardinality(own)
      BY <2>2, <2>4, FS_Surjection
    <2>. QED BY <2>1, <2>5 DEF own
  <1> HIDE DEF S, I, class, g, k
  <1>5. Total(g, I) = Total(k, I)
    BY <1>1, <1>4, TotalSame
  <1>. QED BY <1>3, <1>5, SlipsAreSummed DEF S, I, g

\* The invariant gives the property.
LEMMA GuardsSafe == GuardInv => GuardsFitPhases
  <1> SUFFICES ASSUME GuardInv PROVE GuardsFitPhases
    OBVIOUS
  <1> USE DEF GuardInv
  <1>1. ASSUME guards \in {"pass", "fail"}, Cardinality(PacedStream) = 1
        PROVE  countScheduleSlips =
                 Cardinality({p \in messagesMade : p.phase \in Judged /\ p.at - p.scheduled > ScheduleTolerance})
    <2>1. PICK s : PacedStream = {s}
      BY <1>1, FS_Singleton, PhasesAreValid
    <2>2. \A i \in PhaseNumber : Finished(i)
      BY <1>1 DEF MeasuredInv
    <2>. QED BY <2>1, <2>2, SlipsOfOneStream
  <1>2. ASSUME guards \in {"pass", "fail"}
        PROVE  /\ \A i \in Judged : heldUp[i] <=> Held(i)
               /\ guards = "pass" <=> NothingCounted
    BY <1>2, PhasesAre DEF MeasuredInv
  <1>w. declared.want["generator_headroom"] \in {"0", "report", "undeclared"}
    BY DEF GuardType, GuardScenario, GuardCheck
  <1>3. ASSUME guards = "pass", GuardsBind, NEW i \in Judged PROVE heldUp[i]
    <2>1. /\ declared.recording
          /\ countScheduleSlips = 0 /\ countDivergingPhases = 0
          /\ HeadroomRequired => countHeadroomBreaches = 0
      BY <1>2, <1>3, <1>w DEF NothingCounted, GuardsBind, Judges, HeadroomRequired
    <2>. QED BY <1>2, <1>3, <2>1, CountsTell DEF Held, ScheduleApplicable
  <1>4. ASSUME guards = "fail" PROVE \E i \in Judged : ~heldUp[i]
    <2>1. \/ declared.recording /\ countScheduleSlips # 0
          \/ countDivergingPhases # 0
          \/ HeadroomRequired /\ countHeadroomBreaches # 0
      BY <1>2, <1>4 DEF NothingCounted, Judges, HeadroomRequired
    <2>2. \E i \in Judged : ~Held(i)
      BY <2>1, CountsTell DEF Held, ScheduleApplicable
    <2>. QED BY <1>2, <1>4, <2>2
  <1>. QED BY <1>1, <1>3, <1>4 DEF GuardsFitPhases

\* The guards start within the invariant.
LEMMA GuardStart == LabGuardsInit => GuardInv
  <1> SUFFICES ASSUME LabGuardsInit PROVE GuardInv
    OBVIOUS
  <1>1. GuardType
    <2>1. declared \in GuardScenario
      BY PhasesAreValid DEF LabGuardsInit
    <2>. QED BY <2>1, FS_EmptySet DEF LabGuardsInit, GuardType
  <1>2. MeasuredInv
    <2>1. DOMAIN heldUp = {}
      BY DEF LabGuardsInit
    <2>2. 1..0 = {} /\ 0 \in 0..Len(Phases)
      BY PhasesAre
    <2>. QED BY <2>1, <2>2 DEF LabGuardsInit, MeasuredInv
  <1>3. ASSUME NEW s \in PacedStream PROVE PaceInv(s) /\ PacedCallsInv(s)
    <2>1. phase[s] = 1 /\ dueAt[s] = -1 /\ runPhase = {} /\ messagesMade = {}
      BY DEF LabGuardsInit
    <2>2. \A i, status : RowsOf(i, status) = {}
      BY <2>1 DEF RowsOf
    <2>. QED BY <2>1, <2>2, PhasesAre DEF PaceInv, PacedCallsInv
  <1>. QED BY <1>1, <1>2, <1>3 DEF GuardInv

\* Once the run is over, what a phase says stands.
LEMMA SameMeasures ==
  ASSUME UNCHANGED <<declared, runPhase, messagesMade, diverging, breached>>
  PROVE  /\ \A j : (Finished(j)' <=> Finished(j)) /\ (Held(j)' <=> Held(j))
         /\ NothingCounted' <=> NothingCounted
  <1>1. \A j : (Finished(j)' <=> Finished(j)) /\ (Held(j)' <=> Held(j))
    BY DEF Finished, Held, HeadroomRequired, RowsOf, ScheduleApplicable, Slips, InWindow, From, To
  <1>2. NothingCounted' <=> NothingCounted
    BY DEF NothingCounted, countScheduleSlips, countDivergingPhases, countHeadroomBreaches,
           MapThenSumSet, MapThenFoldSet, Slips, InWindow, From, To, RowsOf, Judges
  <1>. QED BY <1>1, <1>2

\* While a run goes on nothing has been measured that could change.
LEMMA MeasuresRest ==
  ASSUME MeasuredInv, UNCHANGED <<declared, runPhase, messagesMade, diverging, breached, heldUp, guards>>
  PROVE  MeasuredInv'
  <1>1. UNCHANGED <<declared, runPhase, messagesMade, diverging, breached>>
    OBVIOUS
  <1>. QED BY <1>1, SameMeasures DEF MeasuredInv

\* Before the run is over nothing is measured.
LEMMA MeasuresNone ==
  ASSUME MeasuredInv, guards = "none", guards' \in {"none", "measuring"}, heldUp' = heldUp
  PROVE  MeasuredInv'
  BY DEF MeasuredInv

\* Every step of the pacer and the guards keeps the types.
LEMMA GuardTypeStep == GuardType /\ MeasuredInv /\ LabGuardsNext => GuardType'
  <1> SUFFICES ASSUME GuardType, MeasuredInv, LabGuardsNext PROVE GuardType'
    OBVIOUS
  <1> USE DEF GuardType
  <1>1. CASE PassTime
    BY <1>1 DEF PassTime
  <1>2. CASE EndRun
    BY <1>2 DEF EndRun
  <1>3. CASE MeasurePhase
    BY <1>3 DEF MeasurePhase
  <1>4. CASE CheckGuards
    BY <1>4 DEF CheckGuards
  <1>5. ASSUME NEW s \in PacedStream, StartPhase(s) PROVE GuardType'
    <2>1. phase[s] \in PhaseNumber
      BY <1>5, PhasesAre DEF StartPhase, Producing
    <2>. QED BY <1>5, <2>1 DEF StartPhase, PhaseRow
  <1>6. ASSUME NEW s \in PacedStream, Produce(s) PROVE GuardType'
    <2>1. phase[s] \in PhaseNumber /\ dueAt[s] \in Nat /\ dueAt[s] + 1 \in Nat
      BY <1>6, PhasesAre DEF Produce, Producing
    <2> DEFINE made == [stream |-> s, phase |-> phase[s], scheduled |-> dueAt[s], at |-> instant]
    <2>2. messagesMade' = messagesMade \/ messagesMade' = messagesMade \cup {made}
      BY <1>6 DEF Produce
    <2>3. IsFiniteSet(messagesMade')
      <3>1. IsFiniteSet(messagesMade \cup {made})
        BY FS_AddElement
      <3>. QED BY <2>2, <3>1
    <2>4. messagesMade' \subseteq [stream : PacedStream, phase : PhaseNumber, scheduled : Nat, at : Nat]
      BY <2>1, <2>2
    <2>5. dueAt' \in [PacedStream -> Nat \cup {-1}]
      BY <1>6, <2>1 DEF Produce
    <2>. QED BY <1>6, <2>3, <2>4, <2>5 DEF Produce
  <1>7. ASSUME NEW s \in PacedStream, EndPhase(s) PROVE GuardType'
    <2>1. phase[s] \in PhaseNumber
      BY <1>7, PhasesAre DEF EndPhase, Producing
    <2>. QED BY <1>7, <2>1 DEF EndPhase, PhaseRow
  <1>. QED BY <1>1, <1>2, <1>3, <1>4, <1>5, <1>6, <1>7 DEF LabGuardsNext

\* Every step keeps what was measured.
LEMMA MeasuredStep == GuardType /\ MeasuredInv /\ LabGuardsNext => MeasuredInv'
  <1> SUFFICES ASSUME GuardType, MeasuredInv, LabGuardsNext PROVE MeasuredInv'
    OBVIOUS
  <1>1. CASE PassTime
    BY <1>1, MeasuresRest DEF PassTime
  <1>2. CASE EndRun
    BY <1>2, MeasuresNone DEF EndRun
  <1>3. CASE MeasurePhase
    <2> DEFINE i == Cardinality(DOMAIN heldUp) + 1
    <2>1. PICK n \in 0..Len(Phases) : DOMAIN heldUp = 1..n
      BY DEF MeasuredInv
    <2>2. n \in Nat /\ i = n + 1
      <3>1. n \in Nat
        BY <2>1, PhasesAre
      <3>2. Cardinality(1..n) = n
        BY <3>1, FS_Interval
      <3>. QED BY <2>1, <3>1, <3>2
    <2>3. /\ guards = "measuring" /\ i \in PhaseNumber
          /\ UNCHANGED <<declared, instant, phase, dueAt, started, runPhase, messagesMade, diverging, breached>>
          /\ IF Finished(i) THEN heldUp' = [j \in 1..i |-> IF j = i THEN Held(i) ELSE heldUp[j]] /\ UNCHANGED guards
             ELSE guards' = "unknown" /\ UNCHANGED heldUp
      BY <1>3 DEF MeasurePhase
    <2>4. \A j : (Finished(j)' <=> Finished(j)) /\ (Held(j)' <=> Held(j))
      <3>1. UNCHANGED <<declared, runPhase, messagesMade, diverging, breached>>
        BY <2>3
      <3>. QED BY <3>1, SameMeasures
    <2> HIDE DEF i
    <2>5. CASE ~Finished(i)
      BY <2>3, <2>4, <2>5 DEF MeasuredInv
    <2>6. CASE Finished(i)
      <3>1. DOMAIN heldUp' = 1..i /\ i \in 0..Len(Phases)
        BY <2>2, <2>3, <2>6, PhasesAre
      <3>2. guards' = "measuring"
        BY <2>3, <2>6
      <3>3. \A j \in DOMAIN heldUp' : Finished(j) /\ (heldUp'[j] <=> Held(j))
        <4> SUFFICES ASSUME NEW j \in 1..i PROVE Finished(j) /\ (heldUp'[j] <=> Held(j))
          BY <3>1
        <4>1. CASE j = i
          BY <2>3, <2>6, <4>1
        <4>2. CASE j # i
          <5>1. j \in DOMAIN heldUp
            BY <2>1, <2>2, <4>2
          <5>2. heldUp'[j] = heldUp[j]
            BY <2>3, <2>6, <4>2
          <5>. QED BY <5>1, <5>2 DEF MeasuredInv
        <4>. QED BY <4>1, <4>2
      <3>. QED BY <2>4, <3>1, <3>2, <3>3 DEF MeasuredInv
    <2>. QED BY <2>5, <2>6
  <1>4. CASE CheckGuards
    <2>1. /\ guards = "measuring" /\ DOMAIN heldUp = PhaseNumber
          /\ guards' = IF NothingCounted THEN "pass" ELSE "fail"
          /\ UNCHANGED <<declared, instant, phase, dueAt, started, runPhase, messagesMade, diverging, breached, heldUp>>
      BY <1>4 DEF CheckGuards, NothingCounted
    <2>2. UNCHANGED <<declared, runPhase, messagesMade, diverging, breached>>
      BY <2>1
    <2>. QED BY <2>1, <2>2, SameMeasures DEF MeasuredInv
  <1>5. ASSUME NEW s \in PacedStream, StartPhase(s) \/ Produce(s) \/ EndPhase(s) PROVE MeasuredInv'
    BY <1>5, MeasuresNone DEF StartPhase, Produce, EndPhase, Producing
  <1>. QED BY <1>1, <1>2, <1>3, <1>4, <1>5 DEF LabGuardsNext

\* A row of a phase adds its instant to that phase's, and no other.
LEMMA RowIsAdded ==
  ASSUME NEW r, runPhase' = runPhase \cup {r}
  PROVE  \A i, status : RowsOf(i, status)'
            = RowsOf(i, status) \cup (IF r.phase = i /\ r.status = status THEN {r.at} ELSE {})
  BY DEF RowsOf

\* The rows of a phase are rows of the run.
LEMMA RowsAreOf ==
  ASSUME GuardType, NEW i, NEW status, NEW t \in RowsOf(i, status)
  PROVE  t \in Nat /\ t <= instant
  BY DEF GuardType, RowsOf

\* A step that leaves the pacer alone keeps its invariant.
LEMMA PaceRests ==
  ASSUME NEW s, PaceInv(s), PacedCallsInv(s), UNCHANGED <<phase, dueAt, started, runPhase, messagesMade>>
  PROVE  PaceInv(s)' /\ PacedCallsInv(s)'
  BY DEF PaceInv, PacedCallsInv, RowsOf, Ends

\* Every step of a lone stream keeps its pace and its calls in their phases.
LEMMA PaceStep ==
  ASSUME GuardType, NEW s, PacedStream = {s}, PaceInv(s), PacedCallsInv(s), LabGuardsNext
  PROVE  PaceInv(s)' /\ PacedCallsInv(s)'
  <1>1. CASE PassTime \/ EndRun \/ MeasurePhase \/ CheckGuards
    BY <1>1, PaceRests DEF PassTime, EndRun, MeasurePhase, CheckGuards
  <1>0. PICK p : p = phase[s]
    OBVIOUS
  <1>t. p = phase[s] /\ p \in Nat \ {0} /\ instant \in Nat /\ dueAt[s] \in Nat \cup {-1} /\ started[s] \in Nat
    BY <1>0 DEF GuardType
  <1>2. CASE StartPhase(s)
    <2>1. /\ p \in PhaseNumber /\ dueAt[s] = -1
          /\ phase' = phase /\ messagesMade' = messagesMade
          /\ started'[s] = instant /\ dueAt'[s] = instant
          /\ runPhase' = runPhase \cup {PhaseRow(s, "started")}
      BY <1>2, <1>t, PhasesAre DEF StartPhase, Producing, GuardType
    <2>2. \A i, status : RowsOf(i, status)'
            = RowsOf(i, status) \cup (IF p = i /\ "started" = status THEN {instant} ELSE {})
      <3>1. PICK r : r = PhaseRow(s, "started")
        OBVIOUS
      <3>2. r.phase = p /\ r.status = "started" /\ r.at = instant /\ runPhase' = runPhase \cup {r}
        BY <1>t, <2>1, <3>1 DEF PhaseRow
      <3>. QED BY <3>2, RowIsAdded
    <2>3. RowsOf(p, "started") = {} /\ RowsOf(p, "ended") = {}
      BY <1>t, <2>1 DEF PaceInv
    <2>4. RowsOf(p, "started")' = {instant} /\ RowsOf(p, "ended")' = {}
      BY <2>2, <2>3
    <2>5. \A i, status : i # p => RowsOf(i, status)' = RowsOf(i, status)
      BY <2>2
    <2>6. PaceInv(s)'
      <3>1. \A r \in runPhase' : r.phase <= p
        BY <1>t, <2>1 DEF PaceInv, PhaseRow
      <3>2. instant # -1 /\ instant <= instant /\ instant <= Ends(s)' /\ p <= Len(Phases) + 1
        <4>1. Ends(s)' = instant + Phases[p].duration
          BY <1>t, <2>1 DEF Ends
        <4>2. Phases[p].duration \in Nat
          BY <2>1, PhasesAre
        <4>3. p <= Len(Phases) + 1
          BY <2>1, PhasesAre
        <4>. QED BY <1>t, <4>1, <4>2, <4>3
      <3>3. \A i \in 1..(p - 1) : \E t, e \in Nat :
              RowsOf(i, "started")' = {t} /\ RowsOf(i, "ended")' = {e} /\ t + Phases[i].duration <= e
        <4>1. \A i \in 1..(p - 1) : i # p
          BY <1>t
        <4>. QED BY <1>t, <2>5, <4>1 DEF PaceInv
      <3>4. ASSUME NEW i \in PhaseNumber, NEW j \in PhaseNumber, i < j,
                   NEW e \in RowsOf(i, "ended")', NEW t \in RowsOf(j, "started")'
            PROVE  e <= t
        <4>1. e \in RowsOf(i, "ended")
          BY <2>2, <3>4
        <4>2. e <= instant
          BY <4>1, RowsAreOf
        <4>. QED BY <1>t, <2>3, <2>4, <2>5, <3>4, <4>1, <4>2 DEF PaceInv
      <3>5. phase'[s] = p
        BY <1>t, <2>1
      <3>. QED BY <2>1, <2>4, <3>1, <3>2, <3>3, <3>4, <3>5 DEF PaceInv
    <2>7. PacedCallsInv(s)'
      <3>1. \A m \in messagesMade : m.phase # p
        BY <1>t, <2>3 DEF PacedCallsInv
      <3>. QED BY <1>t, <2>1, <2>5, <3>1 DEF PacedCallsInv
    <2>. QED BY <2>6, <2>7
  <1>3. CASE Produce(s)
    <2> DEFINE made == [stream |-> s, phase |-> p, scheduled |-> dueAt[s], at |-> instant]
    <2>1. /\ p \in PhaseNumber /\ dueAt[s] # -1 /\ dueAt[s] < Ends(s)
          /\ phase' = phase /\ runPhase' = runPhase /\ started' = started
          /\ dueAt'[s] = dueAt[s] + 1
          /\ \/ messagesMade' = messagesMade
             \/ Paced(Phases[p]) /\ messagesMade' = messagesMade \cup {made}
      BY <1>3, <1>t, PhasesAre DEF Produce, Producing, GuardType
    <2>2. \A i, status : RowsOf(i, status)' = RowsOf(i, status)
      BY <2>1 DEF RowsOf
    <2>3. dueAt[s] \in Nat /\ Phases[p].duration \in Nat /\ Ends(s) = started[s] + Phases[p].duration
      BY <1>t, <2>1, PhasesAre DEF Ends
    <2>4. RowsOf(p, "started") = {started[s]} /\ started[s] <= dueAt[s]
      BY <1>t, <2>1 DEF PaceInv
    <2>5. PaceInv(s)'
      <3>1. started[s] <= dueAt[s] + 1 /\ dueAt[s] + 1 <= Ends(s) /\ dueAt[s] + 1 # -1
        BY <1>t, <2>1, <2>3, <2>4
      <3>2. Ends(s)' = Ends(s)
        BY <2>1 DEF Ends
      <3>. QED BY <1>t, <2>1, <2>2, <3>1, <3>2 DEF PaceInv
    <2>6. \A m \in messagesMade : m.scheduled \in Nat /\ m.scheduled < dueAt[s]
      <3> SUFFICES ASSUME NEW m \in messagesMade PROVE m.scheduled \in Nat /\ m.scheduled < dueAt[s]
        OBVIOUS
      <3>1. m.scheduled \in Nat /\ m.phase \in PhaseNumber /\ m.phase <= p
        BY <1>t DEF GuardType, PacedCallsInv
      <3>2. CASE m.phase = p
        BY <1>t, <3>1, <3>2 DEF PacedCallsInv
      <3>3. CASE m.phase # p
        <4> DEFINE i == m.phase
        <4>1. i \in 1..(p - 1) /\ i < p
          BY <1>t, <3>1, <3>3, PhasesAre
        <4>2. PICK t \in Nat, e \in Nat :
                RowsOf(i, "started") = {t} /\ RowsOf(i, "ended") = {e} /\ t + Phases[i].duration <= e
          BY <1>t, <4>1 DEF PaceInv
        <4>3. m.scheduled < t + Phases[i].duration
          BY <1>t, <4>2 DEF PacedCallsInv
        <4>4. e <= started[s]
          BY <1>t, <2>1, <2>4, <3>1, <4>1, <4>2 DEF PaceInv
        <4>5. Phases[i].duration \in Nat
          BY <3>1, PhasesAre
        <4> HIDE DEF i
        <4>. QED BY <1>t, <2>3, <2>4, <3>1, <4>2, <4>3, <4>4, <4>5
      <3>. QED BY <3>2, <3>3
    <2>7. PacedCallsInv(s)'
      <3>1. ASSUME NEW m \in messagesMade
            PROVE  /\ Paced(Phases[m.phase]) /\ m.phase <= p
                   /\ \E t \in RowsOf(m.phase, "started") : t <= m.scheduled /\ m.scheduled < t + Phases[m.phase].duration
                   /\ m.scheduled < dueAt[s] + 1
        BY <1>t, <2>3, <2>6 DEF PacedCallsInv
      <3>2. /\ made.phase = p /\ made.scheduled = dueAt[s]
            /\ \E t \in RowsOf(p, "started") : t <= dueAt[s] /\ dueAt[s] < t + Phases[p].duration
            /\ dueAt[s] < dueAt[s] + 1 /\ p <= p
        BY <1>t, <2>1, <2>3, <2>4
      <3>3. \A m, q \in messagesMade' : m.scheduled = q.scheduled => m = q
        <4>1. \A m \in messagesMade : m.scheduled # made.scheduled
          BY <2>3, <2>6
        <4> HIDE DEF made
        <4>. QED BY <1>t, <2>1, <4>1 DEF PacedCallsInv
      <3>4. ASSUME NEW m \in messagesMade'
            PROVE  /\ Paced(Phases[m.phase]) /\ m.phase <= p
                   /\ \E t \in RowsOf(m.phase, "started") : t <= m.scheduled /\ m.scheduled < t + Phases[m.phase].duration
                   /\ m.scheduled < dueAt[s] + 1
        <4>1. CASE m \in messagesMade
          BY <3>1, <4>1
        <4>2. CASE m \notin messagesMade
          <5>1. m = made /\ Paced(Phases[p])
            BY <2>1, <4>2
          <5> HIDE DEF made
          <5>. QED BY <3>2, <5>1
        <4>. QED BY <4>1, <4>2
      <3>. QED BY <1>t, <2>1, <2>2, <3>3, <3>4 DEF PacedCallsInv
    <2>. QED BY <2>5, <2>7
  <1>4. CASE EndPhase(s)
    <2>1. /\ p \in PhaseNumber /\ dueAt[s] # -1 /\ dueAt[s] >= Ends(s) /\ instant >= Ends(s)
          /\ phase'[s] = p + 1 /\ messagesMade' = messagesMade /\ dueAt'[s] = -1 /\ started' = started
          /\ runPhase' = runPhase \cup {PhaseRow(s, "ended")}
      BY <1>4, <1>t, PhasesAre DEF EndPhase, Producing, GuardType
    <2>2. \A i, status : RowsOf(i, status)'
            = RowsOf(i, status) \cup (IF p = i /\ "ended" = status THEN {instant} ELSE {})
      <3>1. PICK r : r = PhaseRow(s, "ended")
        OBVIOUS
      <3>2. r.phase = p /\ r.status = "ended" /\ r.at = instant /\ runPhase' = runPhase \cup {r}
        BY <1>t, <2>1, <3>1 DEF PhaseRow
      <3>. QED BY <3>2, RowIsAdded
    <2>3. RowsOf(p, "started")' = {started[s]} /\ RowsOf(p, "ended")' = {instant}
      BY <1>t, <2>1, <2>2 DEF PaceInv
    <2>4. \A i, status : i # p => RowsOf(i, status)' = RowsOf(i, status)
      BY <2>2
    <2>5. \A i \in Nat : \A status : i > p => RowsOf(i, status)' = {}
      <3> SUFFICES ASSUME NEW i \in Nat, NEW status, i > p PROVE RowsOf(i, status) = {}
        BY <1>t, <2>4
      <3>1. \A r \in runPhase : r.phase \in Nat /\ r.phase <= p
        BY <1>t, PhasesAre DEF PaceInv, GuardType
      <3>2. \A r \in runPhase : r.phase # i
        BY <1>t, <3>1
      <3>. QED BY <3>2 DEF RowsOf
    <2>6. PaceInv(s)'
      <3>1. \A r \in runPhase' : r.phase <= p + 1
        BY <1>t, <2>1, PhasesAre DEF PaceInv, PhaseRow, GuardType
      <3>2. \A i \in 1..((p + 1) - 1) : \E t, e \in Nat :
              RowsOf(i, "started")' = {t} /\ RowsOf(i, "ended")' = {e} /\ t + Phases[i].duration <= e
        <4> SUFFICES ASSUME NEW i \in 1..p
                     PROVE  \E t, e \in Nat : RowsOf(i, "started")' = {t} /\ RowsOf(i, "ended")' = {e}
                                              /\ t + Phases[i].duration <= e
          BY <1>t
        <4>1. CASE i = p
          BY <1>t, <2>1, <2>3, <4>1 DEF Ends
        <4>2. CASE i # p
          <5>1. i \in 1..(p - 1)
            BY <1>t, <4>2
          <5>. QED BY <1>t, <2>4, <4>2, <5>1 DEF PaceInv
        <4>. QED BY <4>1, <4>2
      <3>3. ASSUME NEW i \in PhaseNumber, NEW j \in PhaseNumber, i < j,
                   NEW e \in RowsOf(i, "ended")', NEW t \in RowsOf(j, "started")'
            PROVE  e <= t
        <4>1. t \in RowsOf(j, "started")
          BY <2>2, <3>3
        <4>2. j <= p /\ i # p
          <5>1. PICK r \in runPhase : r.phase = j
            BY <4>1 DEF RowsOf
          <5>2. j <= p
            BY <1>t, <5>1 DEF PaceInv
          <5>. QED BY <1>t, <3>3, <5>2, PhasesAre
        <4>3. e \in RowsOf(i, "ended")
          BY <2>4, <3>3, <4>2
        <4>. QED BY <1>t, <3>3, <4>1, <4>3 DEF PaceInv
      <3>4. p + 1 \in Nat /\ p + 1 > p /\ p + 1 <= Len(Phases) + 1
        BY <1>t, <2>1, PhasesAre
      <3>5. RowsOf(p + 1, "started")' = {} /\ RowsOf(p + 1, "ended")' = {}
        BY <2>5, <3>4
      <3>. QED BY <1>t, <2>1, <3>1, <3>2, <3>3, <3>4, <3>5 DEF PaceInv
    <2>7. PacedCallsInv(s)'
      <3>1. \A i : RowsOf(i, "started")' = RowsOf(i, "started")
        BY <2>2
      <3>2. \A m \in messagesMade : m.phase <= p + 1 /\ m.phase # p + 1
        <4>1. \A m \in messagesMade : m.phase \in Nat /\ m.phase <= p
          BY <1>t, PhasesAre DEF PacedCallsInv, GuardType
        <4>. QED BY <1>t, <4>1
      <3>. QED BY <1>t, <2>1, <3>1, <3>2 DEF PacedCallsInv
    <2>. QED BY <2>6, <2>7
  <1>5. (StartPhase(s) \/ Produce(s) \/ EndPhase(s)) \/ (PassTime \/ EndRun \/ MeasurePhase \/ CheckGuards)
    BY DEF LabGuardsNext
  <1>. QED BY <1>1, <1>2, <1>3, <1>4, <1>5

\* Every step of the guards keeps their invariant.
LEMMA GuardStep == GuardInv /\ LabGuardsNext => GuardInv'
  BY GuardTypeStep, MeasuredStep, PaceStep DEF GuardInv

\* A step of another component leaves the guards alone.
LEMMA GuardRests == GuardInv /\ UNCHANGED guardVars => GuardInv'
  <1> SUFFICES ASSUME GuardInv, UNCHANGED guardVars PROVE GuardInv'
    OBVIOUS
  <1>1. GuardType'
    BY DEF GuardInv, GuardType, guardVars
  <1>2. MeasuredInv'
    BY MeasuresRest DEF GuardInv, guardVars
  <1>3. \A s \in PacedStream : PacedStream = {s} => PaceInv(s)' /\ PacedCallsInv(s)'
    BY PaceRests DEF GuardInv, guardVars
  <1>. QED BY <1>1, <1>2, <1>3 DEF GuardInv

-----------------------------------------------------------------------------
(* The lab's verdict. *)

(* The scenario records its messages, and of the checks only the four the  *)
(* scenario must have can fail.                                             *)
SafetyIsJudged ==
    /\ ~DisableMessageRecording
    /\ \A i \in DOMAIN Expect :
          Expect[i].want = "report" \/ Expect[i].check \in {"lost", "unexpected", "undelivered", "unbucketed"}

VerdictType ==
    /\ answer \in [Key -> {"none", "attempted", "committed", "duplicate", "rejected", "unknown"}]
    /\ log \in Seq(Key)
    /\ \A i, j \in DOMAIN log : log[i] = log[j] => i = j
    /\ rows \subseteq DOMAIN log
    /\ delivery \in [Group -> [RowId -> {"fresh", "ready", "handled", "done", "dead", "abandoned"}]]
    /\ successes \in [Group -> [RowId -> Nat]]
    /\ cursor \in [Group -> Nat]
    /\ \A g \in Group : cursor[g] <= Len(log)
    /\ fault \subseteq {"lost", "unexpected", "skipped", "abandoned"}
    /\ stage \in {"producing", "loading", "draining", "checking", "judged"}
    /\ handled.success \in [Group -> [RowId -> Nat]]

(* What the producer's records say of the log. *)
AnswersInv ==
    /\ \A k \in Key : answer[k] \in {"committed", "duplicate"} => Landed(k)
    /\ \A i \in DOMAIN log : answer[log[i]] # "none"
    /\ stage # "producing" => \A k \in Key : answer[k] \notin {"none", "attempted"}
    /\ "unexpected" \in fault <=> \E i \in DOMAIN log : answer[log[i]] = "rejected"

(* Where the rows went that are not there. *)
LogRowsInv ==
    /\ \A k \in expired : Landed(k)
    /\ \A i \in DOMAIN log :
          i \in rows \/ log[i] \in expired \/ ("lost" \in fault /\ log[i] \in Committed)
    /\ \A i \in rows : log[i] \notin expired
    /\ \A i \in DOMAIN log : log[i] \in expired => \A g \in Group : i <= cursor[g]
    /\ "lost" \in fault => \E i \in LostRows : log[i] \in Committed
    /\ expired \subseteq agedRecords \cup hasty

(* What the handlers and the cursors have done with them. *)
DeliveriesInv ==
    /\ \A g \in Group, i \in RowId :
          /\ i <= cursor[g] => delivery[g][i] \in {"done", "dead", "abandoned"} \/ "lost" \in fault
          /\ delivery[g][i] = "done" => successes[g][i] > 0 \/ "skipped" \in fault
          /\ delivery[g][i] = "handled" => successes[g][i] > 0
          /\ delivery[g][i] = "abandoned" => "abandoned" \in fault
          /\ handled.success[g][i] <= successes[g][i]
    /\ "skipped" \in fault =>
          \E g \in Group, i \in DOMAIN log : delivery[g][i] = "done" /\ successes[g][i] = 0
    /\ "abandoned" \in fault =>
          \E g \in Group, i \in DOMAIN log : delivery[g][i] = "abandoned"

LibraryInv == VerdictType /\ AnswersInv /\ LogRowsInv /\ DeliveriesInv

(* The expired rows all have a record that names their id. *)
ExpiredOnRecord == \A k \in expired : answer[k] = "committed"

(* A check that did not fail has cleared the run of what it looks for. *)
Cleared(kind) ==
    \/ kind = "lost" /\ ("lost" \notin fault \/ \E i \in LostRows : log[i] \in Committed /\ log[i] \in agedRecords)
    \/ kind = "unexpected" /\ ("unexpected" \notin fault \/ ~ExpiredOnRecord)
    \/ kind = "undelivered" /\ ("skipped" \notin fault \/ "lost" \in fault \/ ~ExpiredOnRecord)
                            /\ \A i \in LostRows : answer[log[i]] = "committed" => Handled(i)
    \/ kind = "unbucketed" /\ ("abandoned" \notin fault \/ "lost" \in fault \/ ~ExpiredOnRecord)

(* With nothing wrong, every message the checks ask about is settled. *)
SettledInv ==
    fault = {} => \A g \in Group, i \in Messages :
       /\ delivery[g][i] \in {"done", "dead"} /\ i <= cursor[g]
       /\ delivery[g][i] = "done" => handled.success[g][i] > 0

CheckedInv ==
    /\ checkResults \in Seq({"pass", "fail", "report", "unavailable"})
    /\ at = Len(checkResults) + 1 /\ at <= Len(Expect) + 1
    /\ \A j \in DOMAIN checkResults : checkResults[j] = "fail" => fault # {} \/ hasty # {}
    /\ \A j \in DOMAIN checkResults : Expect[j].want = "0" /\ checkResults[j] # "fail" => Cleared(Expect[j].check)

CheckerInv ==
    /\ stage \in {"producing", "loading", "draining"} => checkResults = <<>> 
    /\ stage # "judged" => verdict = ""
    /\ stage = "draining" =>
          /\ at \in Nat \ {0} /\ at <= Len(Groups) + 1
          /\ \A t \in 1..(at - 1) : \A i \in Messages : i <= cursor[Groups[t]]
    /\ stage = "checking" => SettledInv /\ CheckedInv
    /\ verdict = "fail" => fault # {} \/ hasty # {}
    /\ verdict = "pass" => fault = {} \/ Hidden

VerdictInv == LibraryInv /\ CheckerInv

\* The invariant gives the property.
LEMMA VerdictSafe == VerdictInv => VerdictFitsRun
  BY DEF VerdictInv, CheckerInv, VerdictFitsRun

\* What the assumption on the scenario gives the provers.
LEMMA ScenarioIs ==
  /\ Len(Groups) \in Nat /\ Group = {Groups[i] : i \in 1..Len(Groups)} /\ IsFiniteSet(Group)
  /\ Len(Expect) \in Nat /\ DOMAIN Expect = 1..Len(Expect)
  /\ \A i \in DOMAIN Expect : Expect[i].want \in {"0", "report"}
  /\ Cardinality(Key) \in Nat /\ RowId = 1..Cardinality(Key) /\ IsFiniteSet(RowId)
  <1>1. Len(Groups) \in Nat /\ DOMAIN Groups = 1..Len(Groups)
    BY ScenarioIsValid
  <1>2. Group = {Groups[i] : i \in 1..Len(Groups)}
    BY <1>1 DEF Group
  <1>3. IsFiniteSet(Group)
    <2> DEFINE f == [i \in 1..Len(Groups) |-> Groups[i]]
    <2>1. f \in Surjection(1..Len(Groups), Group)
      BY <1>2 DEF Surjection
    <2>2. IsFiniteSet(1..Len(Groups))
      BY <1>1, FS_Interval
    <2> HIDE DEF f
    <2>. QED BY <2>1, <2>2, FS_Surjection
  <1>4. Len(Expect) \in Nat /\ DOMAIN Expect = 1..Len(Expect)
    BY ScenarioIsValid
  <1>5. \A i \in DOMAIN Expect : Expect[i].want \in {"0", "report"}
    <2> DEFINE T == [check : STRING, want : {"0", "report"}]
    <2>1. \A i \in DOMAIN Expect : Expect[i] \in T
      <3>1. Expect \in Seq(T)
        BY ScenarioIsValid
      <3> HIDE DEF T
      <3>. QED BY <1>4, <3>1, ElementOfSeq
    <2>2. \A x \in T : x.want \in {"0", "report"}
      OBVIOUS
    <2> HIDE DEF T
    <2>. QED BY <2>1, <2>2
  <1>6. Cardinality(Key) \in Nat
    BY ScenarioIsValid, FS_CardinalityType
  <1>7. IsFiniteSet(1..Cardinality(Key))
    BY <1>6, FS_Interval
  <1>. QED BY <1>1, <1>2, <1>3, <1>4, <1>5, <1>6, <1>7 DEF RowId

\* A key lands once, so there are ids for the whole log.
LEMMA LogFits ==
  ASSUME VerdictType
  PROVE  /\ Len(log) \in Nat /\ DOMAIN log = 1..Len(log) /\ DOMAIN log \subseteq RowId
         /\ \A i \in DOMAIN log : log[i] \in Key
         /\ IsFiniteSet(rows)
  <1>1. Len(log) \in Nat /\ DOMAIN log = 1..Len(log) /\ \A i \in DOMAIN log : log[i] \in Key
    BY ElementOfSeq DEF VerdictType
  <1>2. Len(log) <= Cardinality(Key)
    <2>1. log \in Injection(DOMAIN log, Key)
      BY <1>1 DEF VerdictType, Injection, IsInjective
    <2>2. Cardinality(DOMAIN log) <= Cardinality(Key)
      BY <2>1, ScenarioIsValid, FS_Injection
    <2>3. Cardinality(1..Len(log)) = Len(log)
      BY <1>1, FS_Interval
    <2>. QED BY <1>1, <2>2, <2>3
  <1>3. DOMAIN log \subseteq RowId
    BY <1>1, <1>2, ScenarioIs
  <1>4. IsFiniteSet(rows)
    BY <1>3, ScenarioIs, FS_Subset DEF VerdictType
  <1>. QED BY <1>1, <1>3, <1>4

\* The id of a key that landed is where the log has it.
LEMMA IdOfIs ==
  ASSUME VerdictType, NEW k, Landed(k)
  PROVE  IdOf(k) \in DOMAIN log /\ log[IdOf(k)] = k
  BY DEF Landed, IdOf

\* The messages the checks ask about are the rows and the committed ids.
LEMMA MessagesAre ==
  ASSUME VerdictType, AnswersInv
  PROVE  /\ \A i \in Messages : i \in DOMAIN log /\ i \in RowId /\ (i \in rows \/ answer[log[i]] = "committed")
         /\ \A i \in DOMAIN log : i \in rows \/ answer[log[i]] = "committed" => i \in Messages
  <1>1. \A k \in Key : answer[k] = "committed" => IdOf(k) \in DOMAIN log /\ log[IdOf(k)] = k
    BY IdOfIs DEF AnswersInv
  <1>2. \A i \in Messages : i \in DOMAIN log /\ i \in RowId /\ (i \in rows \/ answer[log[i]] = "committed")
    BY <1>1, LogFits DEF Messages, VerdictType
  <1>3. ASSUME NEW i \in DOMAIN log, answer[log[i]] = "committed" PROVE i \in Messages
    <2>1. log[i] \in Key
      BY LogFits
    <2>2. IdOf(log[i]) = i
      BY <1>1, <1>3, <2>1 DEF VerdictType
    <2>. QED BY <1>3, <2>1, <2>2 DEF Messages
  <1>4. rows \subseteq Messages
    BY DEF Messages
  <1>. QED BY <1>2, <1>3, <1>4

\* A drained group has passed every message the checks ask about.
LEMMA DrainedCovers ==
  ASSUME VerdictType, AnswersInv, NEW g \in Group, Drained(g)
  PROVE  \A i \in Messages : i <= cursor[g]
  <1> DEFINE ids == {IdOf(k) : k \in {c \in Key : answer[c] = "committed"}}
  <1>1. Len(log) \in Nat /\ cursor[g] \in Nat /\ \A i \in DOMAIN log : i \in Nat /\ i <= Len(log)
    BY LogFits DEF VerdictType
  <1>2. ids \subseteq DOMAIN log /\ rows \subseteq DOMAIN log
    BY IdOfIs DEF AnswersInv, VerdictType
  <1>3. \A S \in SUBSET DOMAIN log : Highest(S) \in Nat /\ Highest(S) <= Len(log) /\ \A i \in S : i <= Highest(S)
    <2> SUFFICES ASSUME NEW S \in SUBSET DOMAIN log
                 PROVE  Highest(S) \in Nat /\ Highest(S) <= Len(log) /\ \A i \in S : i <= Highest(S)
      OBVIOUS
    <2>1. S \cup {0} \in SUBSET Nat /\ S \cup {0} # {} /\ \A i \in S \cup {0} : i <= Len(log)
      BY <1>1
    <2>2. Max(S \cup {0}) \in S \cup {0} /\ \A i \in S \cup {0} : i <= Max(S \cup {0})
      BY <1>1, <2>1, MaxOfNaturals
    <2>. QED BY <2>1, <2>2 DEF Highest
  <1> DEFINE both == {Highest(ids), Highest(rows)}
  <1>4. both \in SUBSET Nat /\ both # {} /\ \A h \in both : h <= Len(log)
    BY <1>2, <1>3
  <1>5. Max(both) \in both /\ \A h \in both : h <= Max(both)
    <2> HIDE DEF both
    <2>. QED BY <1>1, <1>4, MaxOfNaturals
  <1>6. HighestMessage = Max(both)
    BY DEF HighestMessage
  <1>7. Highest(ids) <= cursor[g] /\ Highest(rows) <= cursor[g]
    <2>1. Max(both) <= cursor[g] /\ Max(both) \in Nat
      BY <1>1, <1>4, <1>5, <1>6 DEF Drained
    <2>2. Highest(ids) \in Nat /\ Highest(rows) \in Nat
      BY <1>2, <1>3
    <2>3. Highest(ids) <= Max(both) /\ Highest(rows) <= Max(both)
      BY <1>5
    <2> HIDE DEF both, ids
    <2>. QED BY <1>1, <2>1, <2>2, <2>3
  <1>8. \A i \in ids \cup rows : i \in Nat /\ i <= cursor[g]
    BY <1>1, <1>2, <1>3, <1>7
  <1>. QED BY <1>8 DEF Messages

(* ------------------------------ the counts ------------------------------ *)

\* A sum over the targets is zero when every target counts nothing.
LEMMA TargetsAreSummed ==
  ASSUME NEW count \in [Group -> Nat]
  PROVE  sumOverTargets(count) = 0 <=> \A g \in Group : count[g] = 0
  <1> DEFINE S == Group
  <1> HIDE DEF S
  <1>1. \A h : IsSum(S, count, h) <=>
                 h = [t \in SUBSET S |-> IF t = {} THEN 0
                        ELSE count[CHOOSE x \in t : TRUE] + h[t \ {CHOOSE x \in t : TRUE}]]
    BY Zenon DEF IsSum, SumStep, Chosen
  <1>2. (CHOOSE h : IsSum(S, count, h)) =
          CHOOSE h : h = [t \in SUBSET S |-> IF t = {} THEN 0
                        ELSE count[CHOOSE x \in t : TRUE] + h[t \ {CHOOSE x \in t : TRUE}]]
    BY <1>1, Zenon
  <1>3. sumOverTargets(count) = (CHOOSE h : h = [t \in SUBSET S |-> IF t = {} THEN 0
                        ELSE count[CHOOSE x \in t : TRUE] + h[t \ {CHOOSE x \in t : TRUE}]])[S]
    BY Zenon DEF sumOverTargets, MapThenSumSet, MapThenFoldSet, S
  <1>4. sumOverTargets(count) = Total(count, Group)
    BY <1>2, <1>3 DEF Total, S
  <1>. QED BY <1>4, ScenarioIs, TotalIsZero

\* What a count of zero says.
LEMMA CountsAre ==
  ASSUME VerdictType, AnswersInv
  PROVE  /\ CountLost = 0 <=> \A k \in Committed : k \in RowKeys \/ k \in agedRecords
         /\ CountUnexpected = 0 <=> \A i \in rows : answer[log[i]] \in {"committed", "duplicate", "unknown"}
         /\ Count("undelivered") = 0 <=>
               \A g \in Group, i \in Messages : handled.success[g][i] # 0 \/ delivery[g][i] = "dead"
         /\ Count("unbucketed") = 0 <=>
               \A g \in Group, i \in Messages :
                  (i <= cursor[g] /\ ~OpenException(g, i)) # (delivery[g][i] = "dead")
  <1>0. IsFiniteSet(Messages)
    <2>1. Messages \subseteq RowId
      BY MessagesAre
    <2>. QED BY <2>1, ScenarioIs, FS_Subset
  <1>1. CountLost = 0 <=> \A k \in Committed : k \in RowKeys \/ k \in agedRecords
    <2> DEFINE S == {k \in Committed : k \notin RowKeys /\ k \notin agedRecords}
    <2>1. S \subseteq Key
      BY DEF Committed
    <2>2. IsFiniteSet(S)
      BY <2>1, ScenarioIsValid, FS_Subset
    <2>3. Cardinality(S) = 0 <=> S = {}
      BY <2>2, FS_EmptySet
    <2>. QED BY <2>3 DEF CountLost
  <1>2. CountUnexpected = 0 <=> \A i \in rows : answer[log[i]] \in {"committed", "duplicate", "unknown"}
    <2> DEFINE S == {i \in rows : answer[log[i]] \notin {"committed", "duplicate", "unknown"}}
    <2>1. IsFiniteSet(S)
      BY LogFits, FS_Subset
    <2>2. Cardinality(S) = 0 <=> S = {}
      BY <2>1, FS_EmptySet
    <2>. QED BY <2>2 DEF CountUnexpected
  <1>3. Count("undelivered") = 0 <=>
               \A g \in Group, i \in Messages : handled.success[g][i] # 0 \/ delivery[g][i] = "dead"
    <2> DEFINE S(g) == {i \in Messages : handled.success[g][i] = 0 /\ delivery[g][i] # "dead"}
               count == [g \in Group |-> CountUndelivered(g)]
    <2>1. \A g \in Group : IsFiniteSet(S(g))
      BY <1>0, FS_Subset
    <2>2. \A g \in Group : CountUndelivered(g) \in Nat /\ (CountUndelivered(g) = 0 <=> S(g) = {})
      BY <2>1, FS_EmptySet, FS_CardinalityType DEF CountUndelivered
    <2>3. Count("undelivered") = sumOverTargets(count)
      BY DEF Count
    <2>4. count \in [Group -> Nat]
      BY <2>2
    <2>5. sumOverTargets(count) = 0 <=> \A g \in Group : count[g] = 0
      <3> HIDE DEF count
      <3>. QED BY <2>4, TargetsAreSummed
    <2>6. \A g \in Group : count[g] = 0 <=> S(g) = {}
      BY <2>2
    <2>. QED BY <2>3, <2>5, <2>6
  <1>4. Count("unbucketed") = 0 <=>
               \A g \in Group, i \in Messages :
                  (i <= cursor[g] /\ ~OpenException(g, i)) # (delivery[g][i] = "dead")
    <2> DEFINE S(g) == {i \in Messages : (i <= cursor[g] /\ ~OpenException(g, i)) = (delivery[g][i] = "dead")}
               count == [g \in Group |-> CountUnbucketed(g)]
    <2>1. \A g \in Group : IsFiniteSet(S(g))
      BY <1>0, FS_Subset
    <2>2. \A g \in Group : CountUnbucketed(g) \in Nat /\ (CountUnbucketed(g) = 0 <=> S(g) = {})
      BY <2>1, FS_EmptySet, FS_CardinalityType DEF CountUnbucketed
    <2>3. Count("unbucketed") = sumOverTargets(count)
      BY DEF Count
    <2>4. count \in [Group -> Nat]
      BY <2>2
    <2>5. sumOverTargets(count) = 0 <=> \A g \in Group : count[g] = 0
      <3> HIDE DEF count
      <3>. QED BY <2>4, TargetsAreSummed
    <2>6. \A g \in Group : count[g] = 0 <=> S(g) = {}
      BY <2>2
    <2>. QED BY <2>3, <2>5, <2>6
  <1>. QED BY <1>1, <1>2, <1>3, <1>4

\* With nothing wrong no safety check counts anything.
LEMMA NothingToCount ==
  ASSUME LibraryInv, SettledInv, stage = "checking", fault = {}, hasty = {},
         NEW kind \in {"lost", "unexpected", "undelivered", "unbucketed"}
  PROVE  Count(kind) = 0
  <1> USE DEF LibraryInv
  <1>1. CountLost = 0
    <2> SUFFICES ASSUME NEW k \in Committed PROVE k \in RowKeys \/ k \in agedRecords
      BY CountsAre
    <2>1. PICK i \in DOMAIN log : log[i] = k
      BY DEF Committed, AnswersInv, Landed
    <2>. QED BY <2>1 DEF LogRowsInv, RowKeys
  <1>2. CountUnexpected = 0
    <2> SUFFICES ASSUME NEW i \in rows PROVE answer[log[i]] \in {"committed", "duplicate", "unknown"}
      BY CountsAre
    <2>1. i \in DOMAIN log /\ log[i] \in Key
      BY LogFits DEF VerdictType
    <2>. QED BY <2>1 DEF VerdictType, AnswersInv
  <1>3. Count("undelivered") = 0
    <2> SUFFICES ASSUME NEW g \in Group, NEW i \in Messages
                 PROVE  handled.success[g][i] # 0 \/ delivery[g][i] = "dead"
      BY CountsAre
    <2>1. i \in RowId
      BY MessagesAre
    <2>2. handled.success[g][i] \in Nat
      BY <2>1 DEF VerdictType
    <2>. QED BY <2>2 DEF SettledInv
  <1>4. Count("unbucketed") = 0
    <2> SUFFICES ASSUME NEW g \in Group, NEW i \in Messages
                 PROVE  (i <= cursor[g] /\ ~OpenException(g, i)) # (delivery[g][i] = "dead")
      BY CountsAre
    <2>1. i <= cursor[g] /\ delivery[g][i] \in {"done", "dead"}
      BY DEF SettledInv
    <2>. QED BY <2>1 DEF OpenException
  <1>5. Count("lost") = CountLost /\ Count("unexpected") = CountUnexpected
    BY DEF Count
  <1>. QED BY <1>1, <1>2, <1>3, <1>4, <1>5

\* A safety check that counts nothing clears the run of its fault.
LEMMA NothingCleared ==
  ASSUME LibraryInv, NEW kind \in {"lost", "unexpected", "undelivered", "unbucketed"}, Count(kind) = 0
  PROVE  Cleared(kind)
  <1> USE DEF LibraryInv
  <1>1. Count("lost") = CountLost /\ Count("unexpected") = CountUnexpected
    BY DEF Count
  <1>2. CASE kind = "lost"
    <2>1. \A k \in Committed : k \in RowKeys \/ k \in agedRecords
      BY <1>1, <1>2, CountsAre
    <2>2. ASSUME "lost" \in fault PROVE \E i \in LostRows : log[i] \in Committed /\ log[i] \in agedRecords
      <3>1. PICK i \in LostRows : log[i] \in Committed
        BY <2>2 DEF LogRowsInv
      <3>2. i \in DOMAIN log /\ i \notin rows
        BY DEF LostRows
      <3>3. log[i] \notin RowKeys
        BY <3>2 DEF RowKeys, VerdictType
      <3>. QED BY <2>1, <3>1, <3>3
    <2>. QED BY <1>2, <2>2 DEF Cleared
  <1>3. CASE kind = "unexpected"
    <2>1. \A i \in rows : answer[log[i]] \in {"committed", "duplicate", "unknown"}
      BY <1>1, <1>3, CountsAre
    <2>2. ASSUME "unexpected" \in fault, ExpiredOnRecord PROVE FALSE
      <3>1. PICK i \in DOMAIN log : answer[log[i]] = "rejected"
        BY <2>2 DEF AnswersInv
      <3>2. i \notin rows /\ log[i] \notin Committed
        BY <2>1, <3>1 DEF Committed
      <3>3. log[i] \in expired
        BY <3>2 DEF LogRowsInv
      <3>. QED BY <2>2, <3>1, <3>3 DEF ExpiredOnRecord
    <2>. QED BY <1>3, <2>2 DEF Cleared
  <1>4. ASSUME NEW i \in DOMAIN log, "lost" \notin fault, ExpiredOnRecord PROVE i \in Messages
    <2>1. i \in rows \/ log[i] \in expired
      BY <1>4 DEF LogRowsInv
    <2>. QED BY <1>4, <2>1, MessagesAre DEF ExpiredOnRecord
  <1>5. CASE kind = "undelivered"
    <2>1. \A g \in Group, i \in Messages : handled.success[g][i] # 0 \/ delivery[g][i] = "dead"
      BY <1>5, CountsAre
    <2>2. ASSUME "skipped" \in fault, "lost" \notin fault, ExpiredOnRecord PROVE FALSE
      <3>1. PICK g \in Group, i \in DOMAIN log : delivery[g][i] = "done" /\ successes[g][i] = 0
        BY <2>2 DEF DeliveriesInv
      <3>2. i \in RowId
        BY LogFits
      <3>3. handled.success[g][i] = 0
        BY <3>1, <3>2 DEF DeliveriesInv, VerdictType
      <3>. QED BY <1>4, <2>1, <2>2, <3>1, <3>3
    <2>3. ASSUME NEW i \in LostRows, answer[log[i]] = "committed" PROVE Handled(i)
      <3>1. i \in Messages /\ i \in RowId
        BY <2>3, MessagesAre, LogFits DEF LostRows
      <3>2. \A g \in Group : handled.success[g][i] \in Nat /\ successes[g][i] \in Nat
                           /\ handled.success[g][i] <= successes[g][i]
        BY <3>1 DEF DeliveriesInv, VerdictType
      <3>. QED BY <2>1, <3>1, <3>2 DEF Handled
    <2>. QED BY <1>5, <2>2, <2>3 DEF Cleared
  <1>6. CASE kind = "unbucketed"
    <2>1. \A g \in Group, i \in Messages :
             (i <= cursor[g] /\ ~OpenException(g, i)) # (delivery[g][i] = "dead")
      BY <1>6, CountsAre
    <2>2. ASSUME "abandoned" \in fault, "lost" \notin fault, ExpiredOnRecord PROVE FALSE
      <3>1. PICK g \in Group, i \in DOMAIN log : delivery[g][i] = "abandoned"
        BY <2>2 DEF DeliveriesInv
      <3>2. OpenException(g, i) /\ delivery[g][i] # "dead"
        BY <3>1 DEF OpenException
      <3>. QED BY <1>4, <2>1, <2>2, <3>2
    <2>. QED BY <1>6, <2>2 DEF Cleared
  <1>. QED BY <1>2, <1>3, <1>5, <1>6

\* A key that lands takes the next id.
LEMMA LandedLog ==
  ASSUME VerdictType, NEW k \in Key, Land(k)
  PROVE  /\ log' \in Seq(Key) /\ Len(log') = Len(log) + 1 /\ log'[Len(log) + 1] = k
         /\ DOMAIN log' = DOMAIN log \cup {Len(log) + 1} /\ Len(log) + 1 \notin DOMAIN log
         /\ \A i \in DOMAIN log : log'[i] = log[i] /\ log[i] # k
  <1>1. Len(log) \in Nat /\ DOMAIN log = 1..Len(log)
    BY LogFits
  <1>2. log' = Append(log, k) /\ \A i \in DOMAIN log : log[i] # k
    BY DEF Land, Landed
  <1>3. log' \in Seq(Key) /\ Len(log') = Len(log) + 1 /\ log'[Len(log) + 1] = k
        /\ \A i \in 1..Len(log) : log'[i] = log[i]
    BY <1>2, AppendProperties DEF VerdictType
  <1>4. DOMAIN log' = 1..(Len(log) + 1)
    BY <1>3, LenProperties
  <1>. QED BY <1>1, <1>2, <1>3, <1>4

\* The library's steps after the producer has ended.
LibraryStep ==
  \/ \E k \in Key : Attempt(k) \/ Land(k) \/ RecordHandled(k) \/ LandRejected(k)
  \/ \E g \in Group, i \in DOMAIN log :
        \/ HandleSuccess(g, i) \/ HandleError(g, i) \/ CommitDelivery(g, i)
        \/ Reclaim(g, i) \/ SkipHandler(g, i) \/ AbandonException(g, i)
  \/ \E g \in Group : AdvanceCursor(g)
  \/ \E i \in DOMAIN log : ExpireRow(i) \/ LoseRow(i)
  \/ \E k \in Key : AgeRecord(k)

CheckerStep ==
  \/ EndProducing \/ LoadProduce \/ DrainTarget \/ DrainBudgetSpent \/ LoadHandler
  \/ Check \/ CheckFails \/ Judge

\* The library's steps keep the types and leave the checker alone.
LEMMA TypeKept ==
  ASSUME VerdictType, LibraryStep
  PROVE  VerdictType' /\ UNCHANGED checkerVars
  <1> DEFINE Answer == {"none", "attempted", "committed", "duplicate", "rejected", "unknown"}
             Stand == {"fresh", "ready", "handled", "done", "dead", "abandoned"}
  <1>1. ASSUME NEW k \in Key, Attempt(k) \/ RecordHandled(k) \/ LandRejected(k) PROVE VerdictType' /\ UNCHANGED checkerVars
    <2>1. UNCHANGED <<log, rows, deliveryVars, checkerVars>>
      BY <1>1 DEF Attempt, RecordHandled, LandRejected
    <2>2. \E v \in Answer : answer' = [answer EXCEPT ![k] = v]
      BY <1>1 DEF Attempt, RecordHandled, LandRejected, Outcomes
    <2>3. fault' \subseteq {"lost", "unexpected", "skipped", "abandoned"}
      BY <1>1 DEF Attempt, RecordHandled, LandRejected, VerdictType
    <2>. QED BY <2>1, <2>2, <2>3 DEF VerdictType, checkerVars, deliveryVars
  <1>2. ASSUME NEW k \in Key, Land(k) PROVE VerdictType' /\ UNCHANGED checkerVars
    <2>1. UNCHANGED <<answer, deliveryVars, fault, checkerVars>> /\ rows' = rows \cup {Len(log) + 1}
      BY <1>2 DEF Land
    <2>2. log' \in Seq(Key) /\ rows' \subseteq DOMAIN log'
      BY <1>2, <2>1, LandedLog DEF VerdictType
    <2>3. \A i, j \in DOMAIN log' : log'[i] = log'[j] => i = j
      BY <1>2, LandedLog DEF VerdictType
    <2>4. Len(log) \in Nat /\ Len(log') = Len(log) + 1
      BY <1>2, LandedLog, LogFits
    <2>5. \A g \in Group : cursor'[g] <= Len(log')
      <3>1. \A g \in Group : cursor[g] \in Nat /\ cursor[g] <= Len(log) /\ cursor' = cursor
        BY <2>1 DEF VerdictType, deliveryVars
      <3>. QED BY <3>1, <2>4
    <2>. QED BY <2>1, <2>2, <2>3, <2>5 DEF VerdictType, checkerVars, deliveryVars
  <1>3. ASSUME NEW g \in Group, NEW i \in DOMAIN log,
               \/ HandleSuccess(g, i) \/ HandleError(g, i) \/ CommitDelivery(g, i)
               \/ Reclaim(g, i) \/ SkipHandler(g, i) \/ AbandonException(g, i)
        PROVE  VerdictType' /\ UNCHANGED checkerVars
    <2>0. i \in RowId
      BY LogFits
    <2>1. UNCHANGED <<answer, log, rows, cursor, checkerVars>>
      BY <1>3 DEF HandleSuccess, HandleError, CommitDelivery, Reclaim, SkipHandler, AbandonException
    <2>2. \E v \in Stand : delivery' = [delivery EXCEPT ![g][i] = v]
      BY <1>3 DEF HandleSuccess, HandleError, CommitDelivery, Reclaim, SkipHandler, AbandonException
    <2>3. delivery' \in [Group -> [RowId -> Stand]]
      BY <2>0, <2>2 DEF VerdictType
    <2>4. successes' = successes \/ successes' = [successes EXCEPT ![g][i] = @ + 1]
      BY <1>3 DEF HandleSuccess, HandleError, CommitDelivery, Reclaim, SkipHandler, AbandonException
    <2>5. successes' \in [Group -> [RowId -> Nat]]
      <3>1. successes \in [Group -> [RowId -> Nat]]
        BY DEF VerdictType
      <3>2. PICK n : n = successes[g][i] + 1
        OBVIOUS
      <3>3. n \in Nat
        BY <2>0, <3>1, <3>2
      <3>4. successes' = successes \/ successes' = [successes EXCEPT ![g][i] = n]
        BY <2>4, <3>2
      <3>. QED BY <2>0, <3>1, <3>3, <3>4
    <2>6. fault' \subseteq {"lost", "unexpected", "skipped", "abandoned"}
      BY <1>3 DEF HandleSuccess, HandleError, CommitDelivery, Reclaim, SkipHandler, AbandonException, VerdictType
    <2>. QED BY <2>1, <2>3, <2>5, <2>6 DEF VerdictType, checkerVars
  <1>4. ASSUME NEW g \in Group, AdvanceCursor(g) PROVE VerdictType' /\ UNCHANGED checkerVars
    <2>1. UNCHANGED <<answer, log, rows, delivery, successes, fault, checkerVars>>
      BY <1>4 DEF AdvanceCursor
    <2>2. cursor' = [cursor EXCEPT ![g] = @ + 1] /\ cursor[g] < Len(log)
      BY <1>4 DEF AdvanceCursor
    <2>3. cursor' \in [Group -> Nat] /\ \A h \in Group : cursor'[h] <= Len(log)
      BY <2>2, LogFits DEF VerdictType
    <2>. QED BY <2>1, <2>3 DEF VerdictType, checkerVars
  <1>5. ASSUME NEW i \in DOMAIN log, ExpireRow(i) \/ LoseRow(i) PROVE VerdictType' /\ UNCHANGED checkerVars
    <2>1. UNCHANGED <<answer, log, deliveryVars, checkerVars>> /\ rows' \subseteq rows
      BY <1>5 DEF ExpireRow, LoseRow
    <2>2. fault' \subseteq {"lost", "unexpected", "skipped", "abandoned"}
      BY <1>5 DEF ExpireRow, LoseRow, VerdictType
    <2>. QED BY <2>1, <2>2 DEF VerdictType, checkerVars, deliveryVars
  <1>6. ASSUME NEW k \in Key, AgeRecord(k) PROVE VerdictType' /\ UNCHANGED checkerVars
    BY <1>6 DEF AgeRecord, VerdictType, checkerVars, deliveryVars
  <1>. QED BY <1>1, <1>2, <1>3, <1>4, <1>5, <1>6 DEF LibraryStep

\* They keep what the producer's records say of the log.
LEMMA AnswersKept ==
  ASSUME VerdictType, AnswersInv, LibraryStep
  PROVE  AnswersInv'
  <1>1. ASSUME NEW k \in Key, Attempt(k) \/ RecordHandled(k) \/ LandRejected(k) PROVE AnswersInv'
    <2>1. UNCHANGED <<log, checkerVars>>
      BY <1>1 DEF Attempt, RecordHandled, LandRejected
    <2>2. PICK v : answer' = [answer EXCEPT ![k] = v]
      BY <1>1 DEF Attempt, RecordHandled, LandRejected
    <2>3. stage = "producing" /\ stage' = "producing"
      BY <1>1, <2>1 DEF Attempt, RecordHandled, LandRejected, AnswersInv, checkerVars
    <2>4. \A c : Landed(c)' <=> Landed(c)
      BY <2>1 DEF Landed
    <2>5. \A c \in Key : answer'[c] = IF c = k THEN v ELSE answer[c]
      BY <2>2 DEF VerdictType
    <2>6. \A i \in DOMAIN log : log[i] \in Key
      BY LogFits
    <2>7. v # "none" /\ (v \in {"committed", "duplicate"} => Landed(k))
      <3>1. answer'[k] = v
        BY <2>5
      <3>2. CASE Attempt(k)
        BY <3>1, <3>2 DEF Attempt, VerdictType
      <3>3. CASE RecordHandled(k)
        BY <3>1, <3>3 DEF RecordHandled, VerdictType, Outcomes
      <3>4. CASE LandRejected(k)
        BY <3>1, <3>4 DEF LandRejected, VerdictType
      <3>. QED BY <1>1, <3>2, <3>3, <3>4
    <2>8. "unexpected" \in fault' <=> \E i \in DOMAIN log : answer'[log[i]] = "rejected"
      <3>1. CASE LandRejected(k)
        BY <2>5, <2>6, <3>1 DEF LandRejected, Landed, VerdictType
      <3>2. CASE Attempt(k) \/ RecordHandled(k)
        <4>1. fault' = fault /\ answer[k] # "rejected" /\ (v = "rejected" => ~Landed(k))
          <5>1. answer'[k] = v
            BY <2>5
          <5>. QED BY <3>2, <5>1 DEF Attempt, RecordHandled, Outcomes, VerdictType
        <4>. QED BY <4>1, <2>5, <2>6 DEF Landed, AnswersInv
      <3>. QED BY <1>1, <3>1, <3>2
    <2>. QED BY <2>1, <2>3, <2>4, <2>5, <2>6, <2>7, <2>8 DEF AnswersInv
  <1>2. ASSUME NEW k \in Key, Land(k) PROVE AnswersInv'
    <2>1. answer[k] = "attempted" /\ UNCHANGED <<answer, fault, stage>>
      BY <1>2 DEF Land, checkerVars
    <2>2. \A c \in Key : Landed(c) => Landed(c)'
      BY <1>2, LandedLog DEF Landed
    <2>. QED BY <1>2, <2>1, <2>2, LandedLog DEF AnswersInv
  <1>3. ASSUME UNCHANGED <<answer, log, stage>>, "unexpected" \in fault' <=> "unexpected" \in fault PROVE AnswersInv'
    BY <1>3 DEF AnswersInv, Landed
  <1>4. ASSUME NEW g \in Group, NEW i \in DOMAIN log,
               \/ HandleSuccess(g, i) \/ HandleError(g, i) \/ CommitDelivery(g, i)
               \/ Reclaim(g, i) \/ SkipHandler(g, i) \/ AbandonException(g, i)
        PROVE  AnswersInv'
    BY <1>3, <1>4 DEF HandleSuccess, HandleError, CommitDelivery, Reclaim, SkipHandler, AbandonException, checkerVars
  <1>5. ASSUME NEW g \in Group, AdvanceCursor(g) PROVE AnswersInv'
    BY <1>3, <1>5 DEF AdvanceCursor, checkerVars
  <1>6. ASSUME NEW i \in DOMAIN log, ExpireRow(i) \/ LoseRow(i) PROVE AnswersInv'
    BY <1>3, <1>6 DEF ExpireRow, LoseRow, checkerVars
  <1>7. ASSUME NEW k \in Key, AgeRecord(k) PROVE AnswersInv'
    BY <1>3, <1>7 DEF AgeRecord, checkerVars
  <1>. QED BY <1>1, <1>2, <1>4, <1>5, <1>6, <1>7 DEF LibraryStep

\* They keep account of the rows that are gone.
LEMMA LogRowsKept ==
  ASSUME VerdictType, AnswersInv, LogRowsInv, LibraryStep
  PROVE  LogRowsInv'
  <1>0. \A i \in DOMAIN log : log[i] \in Key
    BY LogFits
  <1>1. ASSUME NEW k \in Key, Attempt(k) \/ RecordHandled(k) \/ LandRejected(k) PROVE LogRowsInv'
    <2>1. UNCHANGED <<log, rows, ageVars, cursor>> /\ ("lost" \in fault' <=> "lost" \in fault)
      BY <1>1 DEF Attempt, RecordHandled, LandRejected, deliveryVars
    <2>2. Committed \subseteq Committed'
      BY <1>1 DEF Attempt, RecordHandled, LandRejected, Committed, VerdictType
    <2>. QED BY <2>1, <2>2 DEF LogRowsInv, Landed, LostRows, ageVars
  <1>2. ASSUME NEW k \in Key, Land(k) PROVE LogRowsInv'
    <2>1. UNCHANGED <<answer, ageVars, cursor, fault>> /\ rows' = rows \cup {Len(log) + 1}
      BY <1>2 DEF Land, deliveryVars
    <2>2. Committed' = Committed
      BY <2>1 DEF Committed
    <2>3. k \notin expired
      BY <1>2 DEF LogRowsInv, Land
    <2>4. \A c : Landed(c) => Landed(c)'
      BY <1>2, LandedLog DEF Landed
    <2>5. LostRows \subseteq LostRows' /\ \A i \in LostRows : log'[i] = log[i]
      BY <1>2, <2>1, LandedLog DEF LostRows, ageVars
    <2>6. \A i \in DOMAIN log' : i \in rows' \/ i \in DOMAIN log
      BY <1>2, <2>1, LandedLog
    <2>7. \A i \in rows' : log'[i] \notin expired'
      BY <1>2, <2>1, <2>3, LandedLog DEF LogRowsInv, VerdictType, ageVars
    <2>8. \A i \in DOMAIN log' : log'[i] \in expired' => \A g \in Group : i <= cursor'[g]
      BY <1>2, <2>1, <2>3, LandedLog DEF LogRowsInv, ageVars
    <2>. QED BY <1>2, <2>1, <2>2, <2>4, <2>5, <2>6, <2>7, <2>8, LandedLog DEF LogRowsInv, ageVars
  <1>3. ASSUME UNCHANGED <<answer, log, rows, expired, hasty>>, agedRecords \subseteq agedRecords',
               "lost" \in fault' <=> "lost" \in fault,
               \A g \in Group : cursor'[g] \in Nat /\ cursor[g] \in Nat /\ cursor[g] <= cursor'[g]
        PROVE  LogRowsInv'
    <2>1. Committed' = Committed
      BY <1>3 DEF Committed
    <2>2. \A i \in DOMAIN log : i \in Nat
      BY LogFits
    <2>3. \A i \in DOMAIN log, g \in Group : i <= cursor[g] => i <= cursor'[g]
      BY <1>3, <2>2
    <2>. QED BY <1>3, <2>1, <2>3 DEF LogRowsInv, Landed, LostRows
  <1>4. ASSUME NEW g \in Group, NEW i \in DOMAIN log,
               \/ HandleSuccess(g, i) \/ HandleError(g, i) \/ CommitDelivery(g, i)
               \/ Reclaim(g, i) \/ SkipHandler(g, i) \/ AbandonException(g, i)
        PROVE  LogRowsInv'
    <2>1. UNCHANGED <<answer, log, rows, ageVars, cursor>> /\ ("lost" \in fault' <=> "lost" \in fault)
      BY <1>4 DEF HandleSuccess, HandleError, CommitDelivery, Reclaim, SkipHandler, AbandonException
    <2>. QED BY <1>3, <2>1 DEF VerdictType, ageVars
  <1>5. ASSUME NEW g \in Group, AdvanceCursor(g) PROVE LogRowsInv'
    <2>1. UNCHANGED <<answer, log, rows, ageVars, fault>> /\ cursor' = [cursor EXCEPT ![g] = @ + 1]
      BY <1>5 DEF AdvanceCursor
    <2>2. \A h \in Group : cursor'[h] \in Nat /\ cursor[h] \in Nat /\ cursor[h] <= cursor'[h]
      BY <2>1 DEF VerdictType
    <2>. QED BY <1>3, <2>1, <2>2 DEF ageVars
  <1>6. ASSUME NEW i \in DOMAIN log, ExpireRow(i) PROVE LogRowsInv'
    <2>1. UNCHANGED <<answer, log, cursor, fault>> /\ i \in rows /\ rows' = rows \ {i} /\ expired' = expired \cup {log[i]}
          /\ agedRecords' = agedRecords /\ hasty' = hasty \cup ({log[i]} \ agedRecords)
          /\ \A g \in Group : i <= cursor[g]
      BY <1>6 DEF ExpireRow, deliveryVars
    <2>2. \A j \in DOMAIN log : log[j] = log[i] => j = i
      BY DEF VerdictType
    <2>3. Committed' = Committed
      BY <2>1 DEF Committed
    <2>4. LostRows' = LostRows
      BY <2>1, <2>2 DEF LostRows
    <2>5. \A j \in rows' : log[j] \notin expired'
      BY <2>1, <2>2 DEF LogRowsInv, VerdictType
    <2>6. expired' \subseteq agedRecords' \cup hasty'
      BY <2>1 DEF LogRowsInv
    <2>. QED BY <2>1, <2>2, <2>3, <2>4, <2>5, <2>6 DEF LogRowsInv, Landed
  <1>7. ASSUME NEW i \in DOMAIN log, LoseRow(i) PROVE LogRowsInv'
    <2>1. UNCHANGED <<answer, log, cursor, ageVars>> /\ i \in rows /\ rows' = rows \ {i} /\ fault' = fault \cup {"lost"}
          /\ answer[log[i]] \in {"committed", "duplicate"}
      BY <1>7 DEF LoseRow, deliveryVars
    <2>2. Committed' = Committed /\ log[i] \in Committed
      BY <1>0, <2>1 DEF Committed
    <2>3. log[i] \notin expired
      BY <2>1 DEF LogRowsInv
    <2>4. i \in LostRows'
      BY <2>1, <2>3 DEF LostRows, ageVars
    <2>. QED BY <2>1, <2>2, <2>3, <2>4 DEF LogRowsInv, Landed, ageVars
  <1>8. ASSUME NEW k \in Key, AgeRecord(k) PROVE LogRowsInv'
    <2>1. UNCHANGED <<answer, log, rows, expired, hasty, cursor, fault>> /\ agedRecords \subseteq agedRecords'
      BY <1>8 DEF AgeRecord, deliveryVars
    <2>2. \A g \in Group : cursor[g] \in Nat /\ cursor[g] <= cursor[g]
      BY DEF VerdictType
    <2>. QED BY <1>3, <2>1, <2>2
  <1>. QED BY <1>1, <1>2, <1>4, <1>5, <1>6, <1>7, <1>8 DEF LibraryStep

\* A delivery that is not settled moves to v.
CellMoves(g, i, v) ==
    /\ delivery[g][i] \in {"fresh", "ready", "handled"}
    /\ delivery' = [delivery EXCEPT ![g][i] = v]
    /\ successes' = successes \/ successes' = [successes EXCEPT ![g][i] = @ + 1]
    /\ UNCHANGED <<log, cursor, handled>> /\ fault \subseteq fault'
    /\ v = "done" => successes'[g][i] > 0 \/ "skipped" \in fault'
    /\ v = "handled" => successes'[g][i] > 0
    /\ v = "abandoned" => "abandoned" \in fault'
    /\ "skipped" \in fault' => "skipped" \in fault \/ (v = "done" /\ successes'[g][i] = 0)
    /\ "abandoned" \in fault' => "abandoned" \in fault \/ v = "abandoned"

\* Such a move keeps account of the deliveries.
LEMMA CellKept ==
  ASSUME VerdictType, DeliveriesInv, NEW g \in Group, NEW i \in DOMAIN log, NEW v, CellMoves(g, i, v)
  PROVE  DeliveriesInv'
  <1> USE DEF CellMoves
  <1>0. i \in RowId
    BY LogFits
  <1>1. \A h \in Group, j \in RowId : delivery'[h][j] = IF h = g /\ j = i THEN v ELSE delivery[h][j]
    BY <1>0 DEF VerdictType
  <1>2. /\ \A h \in Group, j \in RowId : successes[h][j] \in Nat /\ handled.success[h][j] \in Nat
        /\ \A h \in Group, j \in RowId : h # g \/ j # i => successes'[h][j] = successes[h][j]
        /\ successes'[g][i] = successes[g][i] \/ successes'[g][i] = successes[g][i] + 1
    BY <1>0 DEF VerdictType
  <1>3. \A h \in Group, j \in RowId :
          /\ j <= cursor'[h] => delivery'[h][j] \in {"done", "dead", "abandoned"} \/ "lost" \in fault'
          /\ delivery'[h][j] = "done" => successes'[h][j] > 0 \/ "skipped" \in fault'
          /\ delivery'[h][j] = "handled" => successes'[h][j] > 0
          /\ delivery'[h][j] = "abandoned" => "abandoned" \in fault'
    <2> SUFFICES ASSUME NEW h \in Group, NEW j \in RowId
                 PROVE /\ j <= cursor'[h] => delivery'[h][j] \in {"done", "dead", "abandoned"} \/ "lost" \in fault'
                       /\ delivery'[h][j] = "done" => successes'[h][j] > 0 \/ "skipped" \in fault'
                       /\ delivery'[h][j] = "handled" => successes'[h][j] > 0
                       /\ delivery'[h][j] = "abandoned" => "abandoned" \in fault'
      OBVIOUS
    <2>1. CASE h = g /\ j = i
      BY <1>1, <2>1 DEF DeliveriesInv
    <2>2. CASE ~(h = g /\ j = i)
      BY <1>1, <1>2, <2>2 DEF DeliveriesInv
    <2>. QED BY <2>1, <2>2
  <1>4. \A h \in Group, j \in RowId : handled'.success[h][j] <= successes'[h][j]
    <2>1. \A h \in Group, j \in RowId : handled.success[h][j] <= successes[h][j]
      BY DEF DeliveriesInv
    <2>. QED BY <1>0, <1>2, <2>1
  <1>5. "skipped" \in fault' =>
          \E h \in Group, j \in DOMAIN log : delivery'[h][j] = "done" /\ successes'[h][j] = 0
    <2>1. CASE v = "done" /\ successes'[g][i] = 0
      BY <1>0, <1>1, <2>1
    <2>2. CASE "skipped" \in fault
      <3>1. PICK h \in Group, j \in DOMAIN log : delivery[h][j] = "done" /\ successes[h][j] = 0
        BY <2>2 DEF DeliveriesInv
      <3>2. j \in RowId /\ ~(h = g /\ j = i)
        BY <3>1, LogFits
      <3>. QED BY <1>1, <1>2, <3>1, <3>2
    <2>. QED BY <2>1, <2>2
  <1>6. "abandoned" \in fault' =>
          \E h \in Group, j \in DOMAIN log : delivery'[h][j] = "abandoned"
    <2>1. CASE v = "abandoned"
      BY <1>0, <1>1, <2>1
    <2>2. CASE "abandoned" \in fault
      <3>1. PICK h \in Group, j \in DOMAIN log : delivery[h][j] = "abandoned"
        BY <2>2 DEF DeliveriesInv
      <3>2. j \in RowId /\ ~(h = g /\ j = i)
        BY <3>1, LogFits
      <3>. QED BY <1>1, <3>1, <3>2
    <2>. QED BY <2>1, <2>2
  <1>. QED BY <1>3, <1>4, <1>5, <1>6 DEF DeliveriesInv

\* They keep account of the deliveries.
LEMMA DeliveriesKept ==
  ASSUME VerdictType, LogRowsInv, DeliveriesInv, LibraryStep
  PROVE  DeliveriesInv'
  <1>0. UNCHANGED handled
    BY TypeKept DEF checkerVars
  <1>1. ASSUME UNCHANGED <<delivery, successes, cursor>>, fault \subseteq fault', DOMAIN log \subseteq DOMAIN log',
               "skipped" \in fault' => "skipped" \in fault, "abandoned" \in fault' => "abandoned" \in fault
        PROVE  DeliveriesInv'
    BY <1>0, <1>1 DEF DeliveriesInv
  <1>2. ASSUME NEW k \in Key, Attempt(k) \/ RecordHandled(k) \/ LandRejected(k) PROVE DeliveriesInv'
    BY <1>1, <1>2 DEF Attempt, RecordHandled, LandRejected, deliveryVars
  <1>3. ASSUME NEW k \in Key, Land(k) PROVE DeliveriesInv'
    <2>1. UNCHANGED <<delivery, successes, cursor, fault>>
      BY <1>3 DEF Land, deliveryVars
    <2>2. DOMAIN log \subseteq DOMAIN log'
      BY <1>3, LandedLog
    <2>. QED BY <1>1, <2>1, <2>2
  <1>4. ASSUME NEW i \in DOMAIN log, ExpireRow(i) \/ LoseRow(i) PROVE DeliveriesInv'
    BY <1>1, <1>4 DEF ExpireRow, LoseRow, deliveryVars
  <1>5. ASSUME NEW g \in Group, AdvanceCursor(g) PROVE DeliveriesInv'
    <2>1. UNCHANGED <<log, delivery, successes, fault>> /\ cursor' = [cursor EXCEPT ![g] = @ + 1]
          /\ cursor[g] < Len(log) /\ Passed(g, cursor[g] + 1)
      BY <1>5 DEF AdvanceCursor
    <2>2. Len(log) \in Nat /\ DOMAIN log = 1..Len(log) /\ DOMAIN log \subseteq RowId
      BY LogFits
    <2>3. cursor \in [Group -> Nat] /\ RowId \subseteq Nat
      BY ScenarioIs DEF VerdictType
    <2> DEFINE n == cursor[g] + 1
    <2>4. n \in DOMAIN log /\ n \in RowId /\ ~(n <= cursor[g])
      BY <2>1, <2>2, <2>3
    <2>5. delivery[g][n] \in {"done", "dead", "abandoned"} \/ "lost" \in fault
      BY <2>1, <2>4 DEF Passed, LogRowsInv
    <2>6. \A h \in Group, j \in RowId : j <= cursor'[h] => j <= cursor[h] \/ (h = g /\ j = n)
      BY <2>1, <2>3
    <2>7. \A h \in Group, j \in RowId : j <= cursor'[h] => delivery'[h][j] \in {"done", "dead", "abandoned"} \/ "lost" \in fault'
      BY <2>1, <2>5, <2>6 DEF DeliveriesInv
    <2>. QED BY <1>0, <2>1, <2>7 DEF DeliveriesInv
  <1>6. ASSUME NEW g \in Group, NEW i \in DOMAIN log,
               \/ HandleSuccess(g, i) \/ HandleError(g, i) \/ CommitDelivery(g, i)
               \/ Reclaim(g, i) \/ SkipHandler(g, i) \/ AbandonException(g, i)
        PROVE  DeliveriesInv'
    <2>0. i \in RowId /\ successes \in [Group -> [RowId -> Nat]] /\ successes[g][i] \in Nat
      BY LogFits DEF VerdictType
    <2>1. CASE HandleSuccess(g, i)
      <3>1. /\ delivery[g][i] \in {"fresh", "ready"} /\ successes' = [successes EXCEPT ![g][i] = @ + 1] /\ UNCHANGED <<log, cursor>> /\ fault' = fault
        BY <2>1 DEF HandleSuccess, Deliverable
      <3>2. PICK v \in {"handled"} : delivery' = [delivery EXCEPT ![g][i] = v]
        BY <2>1 DEF HandleSuccess
      <3>3. successes'[g][i] > 0
        BY <2>0, <3>1
      <3>4. CellMoves(g, i, v)
        BY <1>0, <3>1, <3>2, <3>3 DEF CellMoves
      <3>. QED BY <3>4, CellKept
    <2>2. CASE HandleError(g, i)
      <3>1. /\ delivery[g][i] \in {"fresh", "ready"} /\ successes' = successes /\ UNCHANGED <<log, cursor>> /\ fault' = fault
        BY <2>2 DEF HandleError, Deliverable
      <3>2. PICK v \in {"ready", "dead"} : delivery' = [delivery EXCEPT ![g][i] = v]
        BY <2>2 DEF HandleError
      <3>4. CellMoves(g, i, v)
        BY <1>0, <3>1, <3>2 DEF CellMoves
      <3>. QED BY <3>4, CellKept
    <2>3. CASE CommitDelivery(g, i)
      <3>1. /\ delivery[g][i] \in {"handled"} /\ successes' = successes /\ UNCHANGED <<log, cursor>> /\ fault' = fault
        BY <2>3 DEF CommitDelivery, Deliverable
      <3>2. PICK v \in {"done"} : delivery' = [delivery EXCEPT ![g][i] = v]
        BY <2>3 DEF CommitDelivery
      <3>3. successes'[g][i] > 0
        BY <2>0, <3>1 DEF DeliveriesInv
      <3>4. CellMoves(g, i, v)
        BY <1>0, <3>1, <3>2, <3>3 DEF CellMoves
      <3>. QED BY <3>4, CellKept
    <2>4. CASE Reclaim(g, i)
      <3>1. /\ delivery[g][i] \in {"handled"} /\ successes' = successes /\ UNCHANGED <<log, cursor>> /\ fault' = fault
        BY <2>4 DEF Reclaim, Deliverable
      <3>2. PICK v \in {"ready", "fresh"} : delivery' = [delivery EXCEPT ![g][i] = v]
        BY <2>4 DEF Reclaim
      <3>4. CellMoves(g, i, v)
        BY <1>0, <3>1, <3>2 DEF CellMoves
      <3>. QED BY <3>4, CellKept
    <2>5. CASE SkipHandler(g, i)
      <3>1. /\ delivery[g][i] \in {"fresh"} /\ successes' = successes /\ successes[g][i] = 0 /\ UNCHANGED <<log, cursor>> /\ fault' = fault \cup {"skipped"}
        BY <2>5 DEF SkipHandler, Deliverable
      <3>2. PICK v \in {"done"} : delivery' = [delivery EXCEPT ![g][i] = v]
        BY <2>5 DEF SkipHandler
      <3>4. CellMoves(g, i, v)
        BY <1>0, <3>1, <3>2 DEF CellMoves
      <3>. QED BY <3>4, CellKept
    <2>6. CASE AbandonException(g, i)
      <3>1. /\ delivery[g][i] \in {"ready"} /\ successes' = successes /\ UNCHANGED <<log, cursor>> /\ fault' = fault \cup {"abandoned"}
        BY <2>6 DEF AbandonException, Deliverable
      <3>2. PICK v \in {"abandoned"} : delivery' = [delivery EXCEPT ![g][i] = v]
        BY <2>6 DEF AbandonException
      <3>4. CellMoves(g, i, v)
        BY <1>0, <3>1, <3>2 DEF CellMoves
      <3>. QED BY <3>4, CellKept
    <2>. QED BY <1>6, <2>1, <2>2, <2>3, <2>4, <2>5, <2>6
  <1>7. ASSUME NEW k \in Key, AgeRecord(k) PROVE DeliveriesInv'
    BY <1>1, <1>7 DEF AgeRecord, deliveryVars
  <1>. QED BY <1>2, <1>3, <1>4, <1>5, <1>6, <1>7 DEF LibraryStep

\* Once the producer has ended the library only removes rows, settles
\* deliveries and moves cursors on.
LEMMA AfterProducing ==
  ASSUME VerdictType, AnswersInv, LibraryStep, stage # "producing"
  PROVE  /\ UNCHANGED <<answer, log>> /\ rows' \subseteq rows
         /\ expired \subseteq expired' /\ agedRecords \subseteq agedRecords' /\ hasty \subseteq hasty'
         /\ \A g \in Group, i \in RowId : successes[g][i] > 0 => successes'[g][i] > 0
         /\ \A g \in Group : cursor[g] \in Nat /\ cursor'[g] \in Nat /\ cursor[g] <= cursor'[g]
         /\ \A g \in Group, i \in RowId : delivery[g][i] \in {"done", "dead"} => delivery'[g][i] = delivery[g][i]
         /\ fault \subseteq fault' /\ (stage \in {"checking", "judged"} => fault' = fault /\ LostRows' = LostRows)
  <1>0. cursor \in [Group -> Nat] /\ successes \in [Group -> [RowId -> Nat]]
        /\ delivery \in [Group -> [RowId -> {"fresh", "ready", "handled", "done", "dead", "abandoned"}]]
    BY DEF VerdictType
  <1>1. ASSUME NEW k \in Key, Attempt(k) \/ Land(k) \/ RecordHandled(k) \/ LandRejected(k) PROVE FALSE
    BY <1>1 DEF Attempt, Land, RecordHandled, LandRejected, AnswersInv
  <1>2. CASE \E i \in DOMAIN log : ExpireRow(i) \/ LoseRow(i)
    <2>1. UNCHANGED <<answer, log, cursor, delivery, successes>> /\ rows' \subseteq rows
      BY <1>2 DEF ExpireRow, LoseRow, deliveryVars
    <2>2. expired \subseteq expired' /\ agedRecords \subseteq agedRecords' /\ hasty \subseteq hasty'
      BY <1>2 DEF ExpireRow, LoseRow, ageVars
    <2>3. fault \subseteq fault' /\ (stage \in {"checking", "judged"} => fault' = fault /\ LostRows' = LostRows)
      <3>1. CASE \E i \in DOMAIN log : LoseRow(i)
        BY <3>1 DEF LoseRow, MayFault
      <3>2. CASE \E i \in DOMAIN log : ExpireRow(i)
        <4>1. PICK i \in DOMAIN log : rows' = rows \ {i} /\ expired' = expired \cup {log[i]} /\ log' = log /\ fault' = fault /\ i \in rows
          BY <3>2 DEF ExpireRow
        <4>2. \A j \in DOMAIN log : log[j] = log[i] => j = i
          BY DEF VerdictType
        <4>3. LostRows' = LostRows
          BY <4>1, <4>2 DEF LostRows
        <4>. QED BY <4>1, <4>3
      <3>. QED BY <1>2, <3>1, <3>2
    <2>. QED BY <1>0, <2>1, <2>2, <2>3
  <1>3. CASE \E g \in Group : AdvanceCursor(g)
    <2>1. UNCHANGED <<answer, log, rows, ageVars, delivery, successes, fault>> /\ \E g \in Group : cursor' = [cursor EXCEPT ![g] = @ + 1]
      BY <1>3 DEF AdvanceCursor
    <2>2. LostRows' = LostRows /\ UNCHANGED <<expired, agedRecords, hasty>>
      BY <2>1 DEF LostRows, ageVars
    <2>. QED BY <1>0, <2>1, <2>2
  <1>5. CASE \E k \in Key : AgeRecord(k)
    <2>1. UNCHANGED <<answer, log, rows, expired, hasty, cursor, delivery, successes, fault>> /\ agedRecords \subseteq agedRecords'
      BY <1>5 DEF AgeRecord, deliveryVars
    <2>2. LostRows' = LostRows
      BY <2>1 DEF LostRows
    <2>. QED BY <1>0, <2>1, <2>2
  <1>4. CASE \E g \in Group, i \in DOMAIN log :
               \/ HandleSuccess(g, i) \/ HandleError(g, i) \/ CommitDelivery(g, i)
               \/ Reclaim(g, i) \/ SkipHandler(g, i) \/ AbandonException(g, i)
    <2>1. PICK g \in Group, i \in DOMAIN log :
               \/ HandleSuccess(g, i) \/ HandleError(g, i) \/ CommitDelivery(g, i)
               \/ Reclaim(g, i) \/ SkipHandler(g, i) \/ AbandonException(g, i)
      BY <1>4
    <2>2. UNCHANGED <<answer, log, rows, ageVars, cursor>> /\ fault \subseteq fault'
          /\ (stage \in {"checking", "judged"} => fault' = fault)
          /\ delivery[g][i] \notin {"done", "dead"} /\ \E v : delivery' = [delivery EXCEPT ![g][i] = v]
      BY <2>1 DEF HandleSuccess, HandleError, CommitDelivery, Reclaim, SkipHandler, AbandonException, Deliverable, MayFault
    <2>3. i \in RowId
      BY LogFits
    <2>4. \A h \in Group, j \in RowId : h # g \/ j # i => delivery'[h][j] = delivery[h][j]
      BY <1>0, <2>2, <2>3
    <2>5. \A h \in Group, j \in RowId : successes[h][j] > 0 => successes'[h][j] > 0
      <3>1. successes' = successes \/ successes' = [successes EXCEPT ![g][i] = @ + 1]
        BY <2>1 DEF HandleSuccess, HandleError, CommitDelivery, Reclaim, SkipHandler, AbandonException
      <3>2. ASSUME NEW h \in Group, NEW j \in RowId
            PROVE  successes[h][j] \in Nat /\ (successes'[h][j] = successes[h][j] \/ successes'[h][j] = successes[h][j] + 1)
        BY <1>0, <2>3, <3>1
      <3>. QED BY <3>2
    <2>6. LostRows' = LostRows /\ UNCHANGED <<expired, agedRecords, hasty>>
      BY <2>2 DEF LostRows, ageVars
    <2>. QED BY <1>0, <2>2, <2>4, <2>5, <2>6
  <1>. QED BY <1>1, <1>2, <1>3, <1>4, <1>5 DEF LibraryStep

\* The library's steps take nothing back of what the checker has found.
LEMMA CheckerRests ==
  ASSUME LibraryInv, CheckerInv, LibraryStep
  PROVE  CheckerInv'
  <1> USE DEF LibraryInv
  <1>0. UNCHANGED <<stage, at, handled, checkResults, verdict>>
    BY TypeKept DEF checkerVars
  <1>1. CASE stage = "producing"
    BY <1>0, <1>1 DEF CheckerInv
  <1>2. CASE stage # "producing"
    <2>1. /\ UNCHANGED <<answer, log>> /\ rows' \subseteq rows
          /\ expired \subseteq expired' /\ agedRecords \subseteq agedRecords' /\ hasty \subseteq hasty'
          /\ \A g \in Group, i \in RowId : successes[g][i] > 0 => successes'[g][i] > 0
          /\ \A g \in Group : cursor[g] \in Nat /\ cursor'[g] \in Nat /\ cursor[g] <= cursor'[g]
          /\ \A g \in Group, i \in RowId : delivery[g][i] \in {"done", "dead"} => delivery'[g][i] = delivery[g][i]
          /\ fault \subseteq fault' /\ (stage \in {"checking", "judged"} => fault' = fault /\ LostRows' = LostRows)
      BY <1>2, AfterProducing
    <2>a. \A i \in LostRows : i \in RowId /\ (Handled(i) => Handled(i)')
      <3>1. \A i \in LostRows : i \in RowId
        BY LogFits DEF LostRows
      <3>. QED BY <2>1, <3>1 DEF Handled
    <2>2. Messages' \subseteq Messages
      BY <2>1 DEF Messages, IdOf
    <2>3. \A i \in Messages : i \in Nat /\ i \in RowId
      BY MessagesAre, ScenarioIs
    <2>4. ~ExpiredOnRecord => ~ExpiredOnRecord'
      BY <2>1 DEF ExpiredOnRecord
    <2>5. \A g \in Group, i \in Messages : i <= cursor[g] => i <= cursor'[g]
      BY <2>1, <2>3
    <2>6. CASE stage = "loading"
      BY <1>0, <2>6 DEF CheckerInv
    <2>7. CASE stage = "draining"
      <3>1. at \in Nat \ {0} /\ at <= Len(Groups) + 1 /\ checkResults = <<>> /\ verdict = ""
            /\ \A t \in 1..(at - 1) : \A i \in Messages : i <= cursor[Groups[t]]
        BY <2>7 DEF CheckerInv
      <3>2. \A t \in 1..(at - 1) : Groups[t] \in Group
        <4>1. Len(Groups) \in Nat /\ Group = {Groups[t] : t \in 1..Len(Groups)}
          BY ScenarioIs
        <4>2. at \in Nat \ {0} /\ at <= Len(Groups) + 1
          BY <3>1
        <4>3. \A t \in 1..(at - 1) : t \in 1..Len(Groups)
          BY <4>1, <4>2
        <4>. QED BY <4>1, <4>3
      <3>3. \A t \in 1..(at - 1) : \A i \in Messages' : i <= cursor'[Groups[t]]
        BY <2>2, <2>5, <3>1, <3>2
      <3>. QED BY <1>0, <2>7, <3>1, <3>3 DEF CheckerInv
    <2>8. CASE stage = "checking"
      <3>1. fault' = fault /\ verdict = "" /\ SettledInv /\ CheckedInv
        BY <2>1, <2>8 DEF CheckerInv
      <3>2. SettledInv'
        <4>1. SUFFICES ASSUME fault = {}, NEW g \in Group, NEW i \in Messages'
                       PROVE  /\ delivery'[g][i] \in {"done", "dead"} /\ i <= cursor'[g]
                              /\ delivery'[g][i] = "done" => handled.success[g][i] > 0
          BY <1>0, <3>1 DEF SettledInv
        <4>2. i \in Messages /\ i \in RowId
          BY <2>2, <2>3
        <4>3. delivery[g][i] \in {"done", "dead"} /\ i <= cursor[g] /\ (delivery[g][i] = "done" => handled.success[g][i] > 0)
          BY <3>1, <4>1, <4>2 DEF SettledInv
        <4>. QED BY <2>1, <2>5, <4>2, <4>3
      <3>3. \A kind : Cleared(kind) => Cleared(kind)'
        <4>1. Committed' = Committed /\ LostRows' = LostRows /\ answer' = answer /\ log' = log
              /\ agedRecords \subseteq agedRecords' /\ fault' = fault
          BY <2>1, <2>8 DEF Committed
        <4>. QED BY <2>4, <2>a, <4>1 DEF Cleared
      <3>4. CheckedInv'
        BY <1>0, <2>1, <3>1, <3>3 DEF CheckedInv
      <3>. QED BY <1>0, <2>8, <3>1, <3>2, <3>4 DEF CheckerInv
    <2>9. CASE stage = "judged"
      <3>1. Hidden => Hidden'
        BY <2>1, <2>9, <2>a DEF Hidden
      <3>. QED BY <1>0, <2>1, <2>9, <3>1 DEF CheckerInv
    <2>. QED BY <1>2, <2>6, <2>7, <2>8, <2>9 DEF VerdictType
  <1>. QED BY <1>1, <1>2

\* The checker changes nothing of what it judges.
LEMMA LibraryRests ==
  ASSUME VerdictInv, CheckerStep
  PROVE  LibraryInv'
  <1> USE DEF VerdictInv, LibraryInv
  <1>0. UNCHANGED libraryVars
    BY DEF CheckerStep, EndProducing, LoadProduce, DrainTarget, DrainBudgetSpent, LoadHandler,
           Check, CheckFails, Judge, libraryVars, deliveryVars
  <1>1. /\ stage' \in {"producing", "loading", "draining", "checking", "judged"}
        /\ stage' # "producing" => \A k \in Key : answer[k] \notin {"none", "attempted"}
    <2>1. CASE EndProducing
      BY <2>1 DEF EndProducing
    <2>2. CASE ~EndProducing
      <3>1. stage # "producing" /\ stage' \in {"loading", "draining", "checking", "judged"}
        BY <2>2 DEF CheckerStep, LoadProduce, DrainTarget, DrainBudgetSpent, LoadHandler, HandlersComplete,
                    Check, CheckFails, Judge, Unknown
      <3>. QED BY <3>1 DEF AnswersInv
    <2>. QED BY <2>1, <2>2
  <1>2. handled' = handled \/ handled' = [success |-> successes, error |-> attempts]
    BY DEF CheckerStep, EndProducing, LoadProduce, DrainTarget, DrainBudgetSpent, LoadHandler,
           Check, CheckFails, Judge, Unknown
  <1>3. /\ handled'.success \in [Group -> [RowId -> Nat]]
        /\ \A g \in Group, i \in RowId : handled'.success[g][i] <= successes[g][i]
    <2>1. successes \in [Group -> [RowId -> Nat]] /\ handled.success \in [Group -> [RowId -> Nat]]
      BY DEF VerdictType
    <2>2. \A g \in Group, i \in RowId : handled.success[g][i] <= successes[g][i] /\ successes[g][i] \in Nat
      BY <2>1 DEF DeliveriesInv
    <2>3. handled'.success = handled.success \/ handled'.success = successes
      BY <1>2
    <2>4. \A n \in Nat : n <= n
      OBVIOUS
    <2>. QED BY <2>1, <2>2, <2>3, <2>4
  <1>4. Committed' = Committed /\ \A k : Landed(k)' <=> Landed(k)
    BY <1>0 DEF libraryVars, Committed, Landed
  <1>5. VerdictType'
    BY <1>0, <1>1, <1>3 DEF VerdictType, libraryVars, deliveryVars
  <1>6. AnswersInv'
    BY <1>0, <1>1, <1>4 DEF AnswersInv, libraryVars
  <1>7. LogRowsInv'
    BY <1>0, <1>4 DEF LogRowsInv, LostRows, libraryVars, deliveryVars, ageVars
  <1>8. DeliveriesInv'
    BY <1>0, <1>3 DEF DeliveriesInv, libraryVars, deliveryVars
  <1>. QED BY <1>5, <1>6, <1>7, <1>8

\* With every group drained, a run with nothing wrong has settled.
LEMMA LoadedIsSettled ==
  ASSUME VerdictInv, LoadHandler
  PROVE  CheckerInv'
  <1> USE DEF VerdictInv, LibraryInv
  <1>1. /\ stage = "draining" /\ stage' = "checking" /\ at > Len(Groups) /\ at' = 1
        /\ handled' = [success |-> successes, error |-> attempts]
        /\ UNCHANGED <<libraryVars, checkResults, verdict>>
    BY DEF LoadHandler, HandlersComplete
  <1>2. /\ at \in Nat /\ at <= Len(Groups) + 1 /\ checkResults = <<>> /\ verdict = ""
        /\ \A t \in 1..(at - 1) : \A i \in Messages : i <= cursor[Groups[t]]
    BY <1>1 DEF CheckerInv
  <1>3. Len(Groups) \in Nat /\ Group = {Groups[t] : t \in 1..Len(Groups)} /\ Len(Expect) \in Nat
    BY ScenarioIs
  <1>4. \A g \in Group, i \in Messages : i <= cursor[g]
    <2>1. at \in Nat /\ Len(Groups) \in Nat /\ at > Len(Groups)
      BY <1>1, <1>2, <1>3
    <2>2. \A t \in 1..Len(Groups) : t \in 1..(at - 1)
      BY <2>1
    <2>. QED BY <1>2, <1>3, <2>2
  <1>5. Messages' = Messages
    BY <1>1 DEF Messages, IdOf, libraryVars
  <1>6. SettledInv'
    <2>1. SUFFICES ASSUME fault = {}, NEW g \in Group, NEW i \in Messages
                   PROVE  /\ delivery[g][i] \in {"done", "dead"} /\ i <= cursor[g]
                          /\ delivery[g][i] = "done" => successes[g][i] > 0
      BY <1>1, <1>5 DEF SettledInv, libraryVars, deliveryVars
    <2>2. i <= cursor[g] /\ i \in RowId
      BY <1>4, MessagesAre
    <2>. QED BY <2>1, <2>2 DEF DeliveriesInv
  <1>7. CheckedInv'
    <2>1. checkResults' = <<>> /\ at' = 1 /\ Len(Expect) \in Nat
      BY <1>1, <1>2, <1>3
    <2>2. checkResults' \in Seq({"pass", "fail", "report", "unavailable"}) /\ Len(checkResults') = 0 /\ DOMAIN checkResults' = {}
      BY <2>1
    <2>. QED BY <2>1, <2>2 DEF CheckedInv
  <1>. QED BY <1>1, <1>2, <1>6, <1>7 DEF CheckerInv

\* A check keeps the results in line with what went wrong.
LEMMA CheckKept ==
  ASSUME SafetyIsJudged, VerdictInv, Check
  PROVE  CheckerInv'
  <1> USE DEF VerdictInv, LibraryInv
  <1> DEFINE c == Expect[at].check
             result == newCheckResult(Expect[at].want, Count(c))
             found == {"pass", "fail", "report", "unavailable"}
  <1>1. /\ stage = "checking" /\ stage' = "checking" /\ at <= Len(Expect) /\ at' = at + 1
        /\ UNCHANGED <<libraryVars, handled, verdict>>
        /\ checkResults' = Append(checkResults, result)
    BY DEF Check, SafetyIsJudged
  <1>2. verdict = "" /\ SettledInv /\ CheckedInv
    BY <1>1 DEF CheckerInv
  <1>3. checkResults \in Seq(found) /\ Len(checkResults) \in Nat /\ at = Len(checkResults) + 1
        /\ DOMAIN checkResults = 1..Len(checkResults)
    BY <1>2, LenProperties DEF CheckedInv
  <1>4. at \in DOMAIN Expect /\ Expect[at].want \in {"0", "report"} /\ Len(Expect) \in Nat
    BY <1>1, <1>3, ScenarioIs
  <1>5. result \in found
    BY DEF newCheckResult
  <1>6. result = "fail" => fault # {} \/ hasty # {}
    <2> SUFFICES ASSUME result = "fail", fault = {}, hasty = {} PROVE FALSE
      OBVIOUS
    <2>1. Expect[at].want # "report" /\ Count(c) # 0
      BY DEF newCheckResult
    <2>2. c \in {"lost", "unexpected", "undelivered", "unbucketed"}
      BY <1>4, <2>1 DEF SafetyIsJudged
    <2> HIDE DEF c
    <2>. QED BY <1>1, <1>2, <2>1, <2>2, NothingToCount
  <1>7. Expect[at].want = "0" /\ result # "fail" => Cleared(c)
    <2> SUFFICES ASSUME Expect[at].want = "0", result # "fail" PROVE Cleared(c)
      OBVIOUS
    <2>1. Count(c) = 0
      BY DEF newCheckResult
    <2>2. c \in {"lost", "unexpected", "undelivered", "unbucketed"}
      BY <1>4 DEF SafetyIsJudged
    <2> HIDE DEF c
    <2>. QED BY <2>1, <2>2, NothingCleared
  <1>8. SettledInv' /\ fault' = fault /\ hasty' = hasty /\ \A kind : Cleared(kind)' <=> Cleared(kind)
    <2>1. UNCHANGED <<answer, log, rows, expired, agedRecords, hasty, delivery, successes, cursor, fault, handled>>
      BY <1>1 DEF libraryVars, deliveryVars, ageVars
    <2>2. Messages' = Messages /\ (ExpiredOnRecord' <=> ExpiredOnRecord) /\ LostRows' = LostRows /\ Committed' = Committed
          /\ \A i : Handled(i)' <=> Handled(i)
      BY <2>1 DEF Messages, IdOf, ExpiredOnRecord, LostRows, Committed, Handled
    <2>3. SettledInv'
      BY <1>2, <2>1, <2>2 DEF SettledInv
    <2>4. \A kind : Cleared(kind)' <=> Cleared(kind)
      BY <2>1, <2>2 DEF Cleared
    <2>. QED BY <2>1, <2>3, <2>4
  <1> HIDE DEF result, found
  <1>9. /\ checkResults' \in Seq(found) /\ Len(checkResults') = Len(checkResults) + 1
        /\ checkResults'[Len(checkResults) + 1] = result
        /\ \A j \in 1..Len(checkResults) : checkResults'[j] = checkResults[j]
    BY <1>1, <1>3, <1>5, AppendProperties
  <1>10. DOMAIN checkResults' = 1..(Len(checkResults) + 1)
    BY <1>9, LenProperties
  <1>11. \A j \in DOMAIN checkResults' : j \in DOMAIN checkResults \/ j = at
    BY <1>3, <1>10
  <1>12. \A j \in DOMAIN checkResults' : checkResults'[j] = "fail" => fault # {} \/ hasty # {}
    BY <1>2, <1>3, <1>6, <1>9, <1>11 DEF CheckedInv
  <1>13. \A j \in DOMAIN checkResults' :
            Expect[j].want = "0" /\ checkResults'[j] # "fail" => Cleared(Expect[j].check)
    BY <1>2, <1>3, <1>7, <1>9, <1>11 DEF CheckedInv
  <1>14. at' = Len(checkResults') + 1 /\ at' <= Len(Expect) + 1
    BY <1>1, <1>3, <1>4, <1>9
  <1>15. CheckedInv'
    BY <1>8, <1>9, <1>12, <1>13, <1>14 DEF CheckedInv, found
  <1>. QED BY <1>1, <1>2, <1>8, <1>15 DEF CheckerInv

\* The verdict follows from the results.
LEMMA JudgeKept ==
  ASSUME VerdictInv, Judge
  PROVE  CheckerInv'
  <1> USE DEF VerdictInv, LibraryInv
  <1>1. /\ stage = "checking" /\ stage' = "judged" /\ at > Len(Expect)
        /\ verdict' = statusOf(checkResults) /\ UNCHANGED <<libraryVars, checkResults>>
    BY DEF Judge
  <1>2. CheckedInv
    BY <1>1 DEF CheckerInv
  <1>3. fault' = fault /\ hasty' = hasty /\ (Hidden' <=> Hidden)
    <2>1. UNCHANGED <<answer, log, rows, expired, agedRecords, hasty, delivery, successes, fault>>
      BY <1>1 DEF libraryVars, deliveryVars, ageVars
    <2>2. LostRows' = LostRows /\ \A i : Handled(i)' <=> Handled(i)
      BY <2>1 DEF LostRows, Handled
    <2>. QED BY <2>1, <2>2 DEF Hidden
  <1>4. verdict' = "fail" => fault # {} \/ hasty # {}
    BY <1>1, <1>2 DEF statusOf, CheckedInv
  <1>5. verdict' = "pass" => fault = {} \/ Hidden
    <2> SUFFICES ASSUME verdict' = "pass", ~Hidden PROVE fault = {}
      OBVIOUS
    <2>0. ExpiredOnRecord
      BY DEF Hidden, ExpiredOnRecord
    <2>1. \A j \in DOMAIN checkResults : checkResults[j] # "fail"
      BY <1>1 DEF statusOf
    <2>2. DOMAIN checkResults = DOMAIN Expect
      <3>1. Len(checkResults) \in Nat /\ DOMAIN checkResults = 1..Len(checkResults)
            /\ Len(Expect) \in Nat /\ DOMAIN Expect = 1..Len(Expect)
        BY <1>2, LenProperties, ScenarioIs DEF CheckedInv
      <3>2. at = Len(checkResults) + 1 /\ at <= Len(Expect) + 1 /\ at > Len(Expect)
        BY <1>1, <1>2 DEF CheckedInv
      <3>3. Len(checkResults) = Len(Expect)
        <4>1. Len(checkResults) \in Nat /\ Len(Expect) \in Nat
          BY <3>1
        <4>2. \A p, q \in Nat : p + 1 <= q + 1 /\ p + 1 > q => p = q
          OBVIOUS
        <4>. QED BY <3>2, <4>1, <4>2
      <3>. QED BY <3>1, <3>3
    <2>3. \A kind \in {"lost", "unexpected", "undelivered", "unbucketed"} : Cleared(kind)
      <3> SUFFICES ASSUME NEW kind \in {"lost", "unexpected", "undelivered", "unbucketed"} PROVE Cleared(kind)
        OBVIOUS
      <3>1. PICK j \in DOMAIN Expect : Expect[j] = [check |-> kind, want |-> "0"]
        BY ScenarioIsValid
      <3>. QED BY <1>2, <2>1, <2>2, <3>1 DEF CheckedInv
    <2>5. "lost" \notin fault
      <3>1. Cleared("lost") /\ Cleared("undelivered")
        BY <2>3
      <3>2. \A i \in LostRows : log[i] \in Committed => answer[log[i]] \in {"committed", "duplicate"}
        BY DEF Committed
      <3>3. \A i \in LostRows : answer[log[i]] = "committed" => Handled(i)
        BY <3>1 DEF Cleared
      <3>. QED BY <3>1, <3>2, <3>3 DEF Cleared, Hidden
    <2>4. "lost" \notin fault /\ "unexpected" \notin fault /\ "skipped" \notin fault /\ "abandoned" \notin fault
      BY <2>0, <2>3, <2>5 DEF Cleared
    <2>. QED BY <2>4 DEF VerdictType
  <1>. QED BY <1>1, <1>3, <1>4, <1>5 DEF CheckerInv

\* Every step of the checker keeps its part of the invariant.
LEMMA CheckerMoves ==
  ASSUME SafetyIsJudged, VerdictInv, CheckerStep
  PROVE  CheckerInv'
  <1> USE DEF VerdictInv, LibraryInv
  <1>1. CASE EndProducing
    BY <1>1 DEF EndProducing, CheckerInv
  <1>2. ASSUME NEW reason \in {"nothing was produced", "drain budget spent", "query"}, Unknown(reason),
               stage \in {"loading", "draining", "checking"}, UNCHANGED libraryVars
        PROVE  CheckerInv'
    <2>1. verdict' = "unknown" /\ stage' = "judged"
      BY <1>2 DEF Unknown
    <2>2. verdict' # "fail" /\ verdict' # "pass"
      BY <2>1
    <2>. QED BY <2>1, <2>2 DEF CheckerInv
  <1>3. CASE LoadProduce
    <2>1. CASE Committed = {}
      BY <1>2, <1>3, <2>1 DEF LoadProduce
    <2>2. CASE Committed # {}
      <3>1. stage = "loading" /\ stage' = "draining" /\ at' = 1 /\ UNCHANGED <<checkResults, verdict>>
        BY <1>3, <2>2 DEF LoadProduce
      <3>2. checkResults = <<>> /\ verdict = "" /\ Len(Groups) \in Nat
        BY <3>1, ScenarioIs DEF CheckerInv
      <3>3. at' \in Nat \ {0} /\ at' <= Len(Groups) + 1 /\ 1..(at' - 1) = {}
        <4>1. at' = 1 /\ Len(Groups) \in Nat
          BY <3>1, <3>2
        <4>. QED BY <4>1
      <3>. QED BY <3>1, <3>2, <3>3 DEF CheckerInv
    <2>. QED BY <2>1, <2>2
  <1>4. CASE DrainTarget
    <2>1. stage = "draining" /\ stage' = "draining" /\ at <= Len(Groups) /\ Drained(Groups[at]) /\ at' = at + 1
          /\ UNCHANGED <<libraryVars, checkResults, verdict>>
      BY <1>4 DEF DrainTarget
    <2>2. /\ at \in Nat \ {0} /\ checkResults = <<>> /\ verdict = ""
          /\ \A t \in 1..(at - 1) : \A i \in Messages : i <= cursor[Groups[t]]
      BY <2>1 DEF CheckerInv
    <2>3. at \in Nat \ {0} /\ at <= Len(Groups) /\ at' = at + 1
          /\ Len(Groups) \in Nat /\ Group = {Groups[t] : t \in 1..Len(Groups)}
      BY <2>1, <2>2, ScenarioIs
    <2>4. at \in 1..Len(Groups) /\ at' \in Nat \ {0} /\ at' <= Len(Groups) + 1
          /\ \A t \in 1..(at' - 1) : t \in 1..(at - 1) \/ t = at
      BY <2>3
    <2>5. \A i \in Messages : i <= cursor[Groups[at]]
      BY <2>1, <2>3, <2>4, DrainedCovers
    <2>6. Messages' = Messages /\ cursor' = cursor
      BY <2>1 DEF Messages, IdOf, libraryVars, deliveryVars
    <2>7. \A t \in 1..(at' - 1) : \A i \in Messages' : i <= cursor'[Groups[t]]
      BY <2>2, <2>4, <2>5, <2>6
    <2>. QED BY <2>1, <2>2, <2>4, <2>7 DEF CheckerInv
  <1>5. CASE DrainBudgetSpent
    BY <1>2, <1>5 DEF DrainBudgetSpent
  <1>6. CASE CheckFails
    BY <1>2, <1>6 DEF CheckFails
  <1>. QED BY <1>1, <1>3, <1>4, <1>5, <1>6, LoadedIsSettled, CheckKept, JudgeKept DEF CheckerStep

\* A run starts within the invariant.
LEMMA VerdictStart == LabVerdictInit => VerdictInv
  <1> SUFFICES ASSUME LabVerdictInit PROVE VerdictInv
    OBVIOUS
  <1>1. /\ log = <<>> /\ rows = {} /\ expired = {} /\ fault = {} /\ stage = "producing" /\ checkResults = <<>> /\ verdict = ""
        /\ answer = [k \in Key |-> "none"] /\ delivery = [g \in Group |-> [i \in RowId |-> "fresh"]]
        /\ successes = [g \in Group |-> [i \in RowId |-> 0]] /\ handled.success = successes
        /\ cursor = [g \in Group |-> 0]
    BY DEF LabVerdictInit
  <1>2. <<>> \in Seq(Key) /\ Len(<<>>) = 0 /\ DOMAIN <<>> = {}
    OBVIOUS
  <1>3. VerdictType
    <2>1. delivery \in [Group -> [RowId -> {"fresh", "ready", "handled", "done", "dead", "abandoned"}]]
          /\ successes \in [Group -> [RowId -> Nat]] /\ handled.success \in [Group -> [RowId -> Nat]]
      <3>1. delivery = [g \in Group |-> [i \in RowId |-> "fresh"]]
        BY <1>1
      <3>2. successes = [g \in Group |-> [i \in RowId |-> 0]]
        BY <1>1
      <3>3. successes \in [Group -> [RowId -> Nat]]
        BY <3>2
      <3>4. handled.success = successes
        BY <1>1
      <3>. QED BY <3>1, <3>3, <3>4
    <2>2. log \in Seq(Key) /\ Len(log) = 0 /\ DOMAIN log = {}
      BY <1>1, <1>2
    <2>3. cursor \in [Group -> Nat] /\ \A g \in Group : cursor[g] = 0
      BY <1>1
    <2>4. \A g \in Group : cursor[g] <= Len(log)
      BY <2>2, <2>3
    <2>. QED BY <1>1, <2>1, <2>2, <2>3, <2>4 DEF VerdictType
  <1>4. AnswersInv
    BY <1>1, <1>2 DEF AnswersInv
  <1>5. LogRowsInv
    BY <1>1, <1>2 DEF LogRowsInv, LostRows
  <1>6. DeliveriesInv
    <2>1. \A g \in Group, i \in RowId : /\ cursor[g] = 0 /\ i \in Nat /\ i > 0 /\ delivery[g][i] = "fresh"
                                      /\ successes[g][i] = 0 /\ handled.success[g][i] = 0
      <3>1. \A i \in RowId : i \in Nat /\ i > 0
        BY ScenarioIs
      <3>2. \A g \in Group, i \in RowId : successes[g][i] = 0 /\ handled.success[g][i] = 0
        <4>1. successes = [g \in Group |-> [i \in RowId |-> 0]]
          BY <1>1
        <4>2. handled.success = successes
          BY <1>1
        <4>. QED BY <4>1, <4>2
      <3>3. \A g \in Group, i \in RowId : delivery[g][i] = "fresh" /\ cursor[g] = 0
        BY <1>1
      <3>. QED BY <3>1, <3>2, <3>3
    <2>2. \A g \in Group, i \in RowId : ~(i <= cursor[g]) /\ handled.success[g][i] <= successes[g][i]
      BY <2>1
    <2>. QED BY <1>1, <2>1, <2>2 DEF DeliveriesInv
  <1>7. CheckerInv
    BY <1>1 DEF CheckerInv
  <1>. QED BY <1>3, <1>4, <1>5, <1>6, <1>7 DEF VerdictInv, LibraryInv

\* Every step of the library and of the checker keeps it.
LEMMA VerdictStep == SafetyIsJudged /\ VerdictInv /\ LabVerdictNext => VerdictInv'
  <1> SUFFICES ASSUME SafetyIsJudged, VerdictInv, LabVerdictNext PROVE VerdictInv'
    OBVIOUS
  <1>1. LibraryStep \/ CheckerStep
    BY Zenon DEF LabVerdictNext, LibraryStep, CheckerStep
  <1>2. CASE LibraryStep
    BY <1>2, TypeKept, AnswersKept, LogRowsKept, DeliveriesKept, CheckerRests DEF VerdictInv, LibraryInv
  <1>3. CASE CheckerStep
    BY <1>3, LibraryRests, CheckerMoves DEF VerdictInv
  <1>. QED BY <1>1, <1>2, <1>3

\* A step of another component leaves the run alone.
LEMMA VerdictRests == VerdictInv /\ UNCHANGED labVars => VerdictInv'
  <1> SUFFICES ASSUME VerdictInv, UNCHANGED labVars PROVE VerdictInv'
    OBVIOUS
  <1> USE DEF labVars
  <1>1. Messages' = Messages /\ Committed' = Committed /\ (\A k : Landed(k)' <=> Landed(k))
        /\ (ExpiredOnRecord' <=> ExpiredOnRecord) /\ LostRows' = LostRows /\ (\A i : Handled(i)' <=> Handled(i))
    BY DEF Messages, IdOf, Committed, Landed, ExpiredOnRecord, LostRows, Handled
  <1>2. LibraryInv'
    BY <1>1 DEF VerdictInv, LibraryInv, VerdictType, AnswersInv, LogRowsInv, DeliveriesInv
  <1>3. SettledInv' <=> SettledInv
    BY <1>1 DEF SettledInv
  <1>4. CheckedInv' <=> CheckedInv
    BY <1>1 DEF CheckedInv, Cleared
  <1>6. Hidden' <=> Hidden
    BY <1>1 DEF Hidden
  <1>5. CheckerInv'
    BY <1>1, <1>3, <1>4, <1>6 DEF VerdictInv, CheckerInv
  <1>. QED BY <1>2, <1>5 DEF VerdictInv

-----------------------------------------------------------------------------
(* The lab. *)

\* However its children exit, hang or are cancelled, the manager starts and ends
\* with none of them running and answers with the worst of its repetitions; a
\* total the checker settles on counts every first delivery of each process it
\* loaded; a run that fails its guards has a measured phase that did not hold,
\* and in one that passes every measured phase held if the scenario requires the
\* three guards and records its messages (Run and role's stop;
\* ReadOldestHandlerSnapshot; the guards' measure).
THEOREM LabSettles ==
  ServicesSpec => [](/\ part = "manager" => RunIsAccountedFor
                     /\ part = "guards" => GuardsFitPhases
                     /\ part = "consumers" => SettledTotalIsWhole)
  <1> DEFINE I == /\ part = "manager" => ManagerInv
                  /\ part = "guards" => GuardInv
                  /\ part = "consumers" => ConsumersInv
  <1>1. ServicesInit => I
    BY ManagerStart, GuardStart, LabConsumersStart DEF ServicesInit
  <1>2. I /\ [ServicesNext]_servicesVars => I'
    <2> SUFFICES ASSUME I, [ServicesNext]_servicesVars PROVE I'
      OBVIOUS
    <2>1. part' = part
      BY DEF ServicesNext, servicesVars
    <2>2. CASE part = "manager"
      <3>1. LabManagerNext \/ UNCHANGED managerVars
        BY <2>2 DEF ServicesNext, servicesVars
      <3>. QED BY <2>1, <2>2, <3>1, ManagerStep, ManagerRests
    <2>3. CASE part = "consumers"
      <3>1. LabConsumersNext \/ UNCHANGED consumerVars
        BY <2>3 DEF ServicesNext, servicesVars
      <3>. QED BY <2>1, <2>3, <3>1, LabConsumersStep, LabConsumersRest
    <2>4. CASE part = "guards"
      <3>1. LabGuardsNext \/ UNCHANGED guardVars
        BY <2>4 DEF ServicesNext, servicesVars
      <3>. QED BY <2>1, <2>4, <3>1, GuardStep, GuardRests
    <2>. QED BY <2>1, <2>2, <2>3, <2>4
  <1>3. I => /\ part = "manager" => RunIsAccountedFor
             /\ part = "guards" => GuardsFitPhases
             /\ part = "consumers" => SettledTotalIsWhole
    BY ManagerSafe, GuardsSafe DEF ConsumersInv
  <1>. QED BY <1>1, <1>2, <1>3, PTL DEF ServicesSpec

\* In a scenario that records its messages and can fail by the four safety
\* checks only, the verdict fits the run as well, whatever the interleaving of
\* producer, handlers, retention and checker.  A run that passes had no fault of
\* the library, unless a row expired whose record names no id, or a row was lost
\* whose record has aged and names no id or of which every group had its message.
\* A run that fails had a fault, unless a row expired before its record aged (the
\* checker's loads, its drain and its checks, against what really happened).
THEOREM LabRight ==
  SafetyIsJudged => (ServicesSpec => []LabSound)
  <1> SUFFICES ASSUME SafetyIsJudged PROVE ServicesSpec => []LabSound
    OBVIOUS
  <1> DEFINE I == part = "verdict" => VerdictInv
  <1>1. ServicesInit => I
    BY VerdictStart DEF ServicesInit
  <1>2. I /\ [ServicesNext]_servicesVars => I'
    <2> SUFFICES ASSUME I, [ServicesNext]_servicesVars PROVE I'
      OBVIOUS
    <2>1. part' = part
      BY DEF ServicesNext, servicesVars
    <2>2. CASE part = "verdict"
      <3>1. LabVerdictNext \/ UNCHANGED labVars
        BY <2>2 DEF ServicesNext, servicesVars
      <3>. QED BY <2>1, <2>2, <3>1, VerdictStep, VerdictRests
    <2>. QED BY <2>1, <2>2
  <1>3. ServicesSpec => []I
    BY <1>1, <1>2, PTL DEF ServicesSpec
  <1>4. /\ I
        /\ part = "manager" => RunIsAccountedFor
        /\ part = "guards" => GuardsFitPhases
        /\ part = "consumers" => SettledTotalIsWhole
        => LabSound
    BY VerdictSafe DEF LabSound
  <1>. QED BY <1>3, <1>4, LabSettles, PTL

=============================================================================
