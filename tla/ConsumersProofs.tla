-------------------------- MODULE ConsumersProofs ---------------------------
(***************************************************************************)
(* Proofs about the consumers of a group, for every size of their          *)
(* instances: how the group is registered, what its claim buffer settles,  *)
(* which config it runs, what a fan-out's mark passes and how a message of *)
(* the exception window is resolved.  Each component has an invariant of   *)
(* its own; the consumers put side by side satisfy the one of the          *)
(* component a behaviour is about.                                         *)
(***************************************************************************)
EXTENDS MCConsumers, SumLemmas, SequenceTheorems

-----------------------------------------------------------------------------
(* A group's registration and its ledger. *)

Session == {"start", "locking", "locked", "declaring", "registered", "waiting",
            "starting", "running", "stopped", "failed"}
LedgerRow == [status : {"waiting", "installed"}, by : Declarer, set : {SetOf[p] : p \in Declarer}]
Judgement == [by : Declarer, outcome : {"installed", "joined", "waiting"}]

GroupType ==
    /\ group \in Nat /\ groupIds \in Nat /\ group <= groupIds
    /\ ledger \in Seq(LedgerRow) /\ declared \in Nat
    /\ session \in [Declarer -> Session]
    /\ resolved \in [Declarer -> Nat] /\ \A p \in Declarer : resolved[p] <= groupIds
    /\ judging \in Judgement \cup {NotJudging}

\* A process that is past its registration has resolved a group, and so has the
\* one whose declaration is being judged.
Registering == {"start", "locking", "locked"}
ResolvedInv ==
    /\ \A p \in Declarer : session[p] \notin Registering => resolved[p] # NoGroup
    /\ \A p \in Declarer : judging.by = p => session[p] \notin Registering

\* The last row of a process that waits says that it waits.
Waits(p) == \E i \in WaitingOf(p) : \A j \in Installed : ledger[j].by = p => j < i
WaitersInv ==
    \A p \in Declarer : session[p] = "waiting" /\ resolved[p] = group => Waits(p)

GroupInv == GroupType /\ ResolvedInv /\ ClaimsReadTheLedger /\ WaitersInv

\* What the run checks of a group.
LEMMA GroupSafe ==
  GroupInv => NoRegistrationConflict /\ ClaimsReadTheLedger /\ WaiterIsListed
  <1> SUFFICES ASSUME GroupInv PROVE NoRegistrationConflict /\ ClaimsReadTheLedger /\ WaiterIsListed
    OBVIOUS
  <1>1. NoRegistrationConflict
    BY DEF GroupInv, GroupType, Session, NoRegistrationConflict
  <1>2. \A i, j \in DOMAIN ledger : j < i => ~(j > i)
    BY DEF GroupInv, GroupType
  <1>3. WaiterIsListed
    BY <1>2 DEF GroupInv, WaitersInv, Waits, WaiterIsListed, Listed, WaitingOf, Installed
  <1>. QED BY <1>1, <1>3 DEF GroupInv

\* Nobody has registered the group.
LEMMA GroupStart == GroupRegistryInit => GroupInv
  <1> SUFFICES ASSUME GroupRegistryInit PROVE GroupInv
    OBVIOUS
  <1>1. GroupType
    BY DEF GroupRegistryInit, GroupType, Session, NoGroup
  <1>2. ResolvedInv /\ WaitersInv
    BY GroupRegistryBounds DEF GroupRegistryInit, ResolvedInv, WaitersInv, Registering, NotJudging
  <1>3. Installed = {}
    BY DEF GroupRegistryInit, Installed
  <1>. QED BY <1>1, <1>2, <1>3 DEF GroupInv, GroupRegistryInit, ClaimsReadTheLedger, StoredSet

\* The newest installed row of a ledger.
LEMMA NewestIsThere ==
  ASSUME ledger \in Seq(LedgerRow), Installed # {}
  PROVE  /\ NewestInstalledDeclaration \in Installed
         /\ \A j \in Installed : j <= NewestInstalledDeclaration
  <1> DEFINE S == Installed
             n == Len(ledger)
  <1>1. S \in SUBSET Nat /\ S # {} /\ n \in Nat /\ \A j \in S : j <= n
    BY DEF Installed
  <1> HIDE DEF S, n
  <1>2. Max(S) \in S /\ \A j \in S : j <= Max(S)
    BY <1>1, MaxOfNaturals
  <1>. QED BY <1>2 DEF NewestInstalledDeclaration, S

\* A step that leaves the ledger alone, or empties it.
LEMMA LedgerStands ==
  ASSUME ledger' = ledger
  PROVE  /\ StoredSet' = StoredSet
         /\ \A p \in Declarer : Waits(p) => Waits(p)'
  <1>1. Installed' = Installed
    BY DEF Installed
  <1>2. StoredSet' = StoredSet
    BY <1>1 DEF StoredSet, NewestInstalledDeclaration
  <1>3. \A p \in Declarer : Waits(p) => Waits(p)'
    BY <1>1 DEF Waits, WaitingOf
  <1>. QED BY <1>2, <1>3

\* A row that is appended.
LEMMA LedgerGrows ==
  ASSUME ledger \in Seq(LedgerRow), NEW p \in Declarer, NEW s \in {"waiting", "installed"},
         ledger' = Append(ledger, [status |-> s, by |-> p, set |-> SetOf[p]])
  PROVE  /\ ledger' \in Seq(LedgerRow)
         /\ s = "waiting" => StoredSet' = StoredSet /\ Waits(p)'
         /\ s = "installed" => StoredSet' = SetOf[p]
         /\ \A q \in Declarer : q # p /\ Waits(q) => Waits(q)'
  <1> DEFINE row == [status |-> s, by |-> p, set |-> SetOf[p]]
             n == Len(ledger)
  <1>1. row \in LedgerRow /\ row.status = s /\ row.by = p /\ row.set = SetOf[p]
    BY DEF LedgerRow
  <1>2. n \in Nat /\ DOMAIN ledger = 1 .. n
    BY LenProperties
  <1> HIDE DEF row
  <1>3. ledger' \in Seq(LedgerRow) /\ Len(ledger') = n + 1 /\ DOMAIN ledger' = 1 .. n + 1
    BY <1>1, <1>2, AppendProperties DEF row
  <1>4. (\A i \in 1 .. n : ledger'[i] = ledger[i]) /\ ledger'[n + 1] = row
    BY <1>1, <1>2, AppendProperties DEF row
  <1> HIDE DEF n
  <1>5. Installed \in SUBSET (1 .. n) /\ (n + 1) \notin Installed
    BY <1>2 DEF Installed
  <1>6. Installed' = IF s = "installed" THEN Installed \cup {n + 1} ELSE Installed
    BY <1>1, <1>2, <1>3, <1>4 DEF Installed
  <1>7. \A q \in Declarer :
          WaitingOf(q)' = IF q = p /\ s = "waiting" THEN WaitingOf(q) \cup {n + 1} ELSE WaitingOf(q)
    BY <1>1, <1>2, <1>3, <1>4 DEF WaitingOf
  <1>8. ASSUME s = "waiting" PROVE StoredSet' = StoredSet /\ Waits(p)'
    <2>1. Installed' = Installed
      BY <1>6, <1>8
    <2>2. Installed = {} => StoredSet' = StoredSet
      BY <2>1 DEF StoredSet
    <2>3. ASSUME Installed # {} PROVE StoredSet' = StoredSet
      <3>1. NewestInstalledDeclaration \in Installed
        BY <2>3, NewestIsThere
      <3>2. NewestInstalledDeclaration' = NewestInstalledDeclaration
        BY <2>1 DEF NewestInstalledDeclaration
      <3>. QED BY <1>4, <1>5, <2>1, <3>1, <3>2 DEF StoredSet
    <2>4. n + 1 \in WaitingOf(p)'
      BY <1>7, <1>8
    <2>5. \A j \in Installed' : j < n + 1
      BY <1>2, <1>5, <2>1
    <2>6. Waits(p)'
      BY <2>4, <2>5 DEF Waits
    <2>. QED BY <2>2, <2>3, <2>6
  <1>9. ASSUME s = "installed" PROVE StoredSet' = SetOf[p]
    <2>1. Installed' = Installed \cup {n + 1}
      BY <1>6, <1>9
    <2> DEFINE S == Installed \cup {n + 1}
               b == n + 1
    <2>2. S \in SUBSET Nat /\ S # {} /\ b \in Nat /\ \A x \in S : x <= b
      BY <1>2, <1>5
    <2>3. b \in S
      OBVIOUS
    <2> HIDE DEF S, b
    <2>4. Max(S) \in S /\ \A x \in S : x <= Max(S)
      BY <2>2, MaxOfNaturals
    <2>5. Max(S) = b
      <3>1. Max(S) \in Nat /\ b <= Max(S) /\ Max(S) <= b
        BY <2>2, <2>3, <2>4
      <3>. QED BY <2>2, <3>1
    <2>6. NewestInstalledDeclaration' = n + 1 /\ Installed' # {}
      BY <2>1, <2>5 DEF NewestInstalledDeclaration, S, b
    <2>. QED BY <1>1, <1>4, <2>6 DEF StoredSet
  <1>10. ASSUME NEW q \in Declarer, q # p, Waits(q) PROVE Waits(q)'
    <2>1. PICK i \in WaitingOf(q) : \A j \in Installed : ledger[j].by = q => j < i
      BY <1>10 DEF Waits
    <2>2. i \in WaitingOf(q)'
      BY <1>7, <1>10, <2>1
    <2>3. \A j \in Installed' : ledger'[j].by = q => j < i
      BY <1>1, <1>4, <1>5, <1>6, <1>10, <2>1
    <2>. QED BY <2>2, <2>3 DEF Waits
  <1>. QED BY <1>3, <1>8, <1>9, <1>10

\* A waiting row that is taken out, not the last of its process.
LEMMA LedgerShrinks ==
  ASSUME ledger \in Seq(LedgerRow), NEW k \in Nat, SweepWaiting(k)
  PROVE  /\ ledger' \in Seq(LedgerRow)
         /\ StoredSet' = StoredSet
         /\ \A q \in Declarer : Waits(q) => Waits(q)'
  <1> DEFINE n == Len(ledger)
             before == SubSeq(ledger, 1, k - 1)
             after == SubSeq(ledger, k + 1, Len(ledger))
             moved(i) == IF i < k THEN i ELSE i - 1
  <1>1. n \in Nat /\ DOMAIN ledger = 1 .. n /\ k \in 1 .. n /\ \A i \in 1 .. n : ledger[i] \in LedgerRow
    BY LenProperties DEF SweepWaiting
  <1>2. /\ before \in Seq(LedgerRow) /\ Len(before) = k - 1
        /\ \A i \in 1 .. k - 1 : before[i] = ledger[i]
    <2>1. \A i \in 1 .. k - 1 : ledger[i] \in LedgerRow
      BY <1>1
    <2>2. 1 \in Int /\ k - 1 \in Int
      OBVIOUS
    <2>3. /\ before \in Seq(LedgerRow) /\ Len(before) = IF 1 <= k - 1 THEN (k - 1) - 1 + 1 ELSE 0
          /\ \A i \in 1 .. (k - 1) - 1 + 1 : before[i] = ledger[1 + i - 1]
      BY <2>1, <2>2, SubSeqProperties
    <2> HIDE DEF before
    <2>. QED BY <1>1, <2>3
  <1>3. /\ after \in Seq(LedgerRow) /\ Len(after) = n - k
        /\ \A i \in 1 .. n - k : after[i] = ledger[k + i]
    <2>1. \A i \in k + 1 .. n : ledger[i] \in LedgerRow
      BY <1>1
    <2>2. k + 1 \in Int /\ n \in Int
      BY <1>1
    <2>3. /\ after \in Seq(LedgerRow) /\ Len(after) = IF k + 1 <= n THEN n - (k + 1) + 1 ELSE 0
          /\ \A i \in 1 .. n - (k + 1) + 1 : after[i] = ledger[(k + 1) + i - 1]
      BY <2>1, <2>2, SubSeqProperties
    <2> HIDE DEF after, n
    <2>. QED BY <1>1, <2>3
  <1>4. ledger' = before \o after
    BY DEF SweepWaiting
  <1> HIDE DEF before, after
  <1>5. /\ ledger' \in Seq(LedgerRow) /\ Len(ledger') = n - 1 /\ DOMAIN ledger' = 1 .. n - 1
    <2>1. ledger' \in Seq(LedgerRow) /\ Len(ledger') = Len(before) + Len(after)
      BY <1>2, <1>3, <1>4, ConcatProperties
    <2>2. Len(ledger') = n - 1
      BY <1>1, <1>2, <1>3, <2>1
    <2>. QED BY <2>1, <2>2, LenProperties
  <1>6. \A i \in 1 .. n - 1 : ledger'[i] = IF i < k THEN ledger[i] ELSE ledger[i + 1]
    <2> SUFFICES ASSUME NEW i \in 1 .. n - 1
                 PROVE ledger'[i] = IF i < k THEN ledger[i] ELSE ledger[i + 1]
      OBVIOUS
    <2>1. i \in 1 .. Len(before) + Len(after)
      BY <1>1, <1>2, <1>3
    <2>2. ledger'[i] = IF i <= Len(before) THEN before[i] ELSE after[i - Len(before)]
      BY <1>2, <1>3, <1>4, <2>1, ConcatProperties
    <2> HIDE DEF n
    <2>3. CASE i < k
      <3>1. i \in 1 .. k - 1 /\ i <= Len(before)
        BY <1>1, <1>2, <2>3
      <3>. QED BY <1>2, <2>2, <2>3, <3>1
    <2>4. CASE ~(i < k)
      <3>1. i - (k - 1) \in 1 .. n - k /\ ~(i <= Len(before)) /\ k + (i - (k - 1)) = i + 1
        BY <1>1, <1>2, <2>4
      <3>2. ledger'[i] = after[i - (k - 1)]
        BY <1>2, <2>2, <3>1
      <3>. QED BY <1>3, <2>4, <3>1, <3>2
    <2>. QED BY <2>3, <2>4
  <1> HIDE DEF n
  \* The rows that stay are those of the old ledger but k, in the same order.
  <1>7. \A i \in 1 .. n : i # k => moved(i) \in 1 .. n - 1 /\ ledger'[moved(i)] = ledger[i]
    BY <1>1, <1>6
  <1>8. \A i \in 1 .. n - 1 : \E x \in 1 .. n : x # k /\ i = moved(x) /\ ledger'[i] = ledger[x]
    <2> SUFFICES ASSUME NEW i \in 1 .. n - 1
                 PROVE \E x \in 1 .. n : x # k /\ i = moved(x) /\ ledger'[i] = ledger[x]
      OBVIOUS
    <2>1. CASE i < k
      <3>1. i \in 1 .. n /\ i # k /\ i = moved(i) /\ ledger'[i] = ledger[i]
        BY <1>1, <1>6, <2>1
      <3>. QED BY <3>1
    <2>2. CASE ~(i < k)
      <3>1. i + 1 \in 1 .. n /\ i + 1 # k /\ i = moved(i + 1) /\ ledger'[i] = ledger[i + 1]
        BY <1>1, <1>6, <2>2
      <3>. QED BY <3>1
    <2>. QED BY <2>1, <2>2
  <1>9. \A i, j \in 1 .. n : /\ i # k /\ j # k /\ i < j => moved(i) < moved(j)
                             /\ i # k /\ j # k /\ i <= j => moved(i) <= moved(j)
                             /\ moved(i) \in Int
    BY <1>1
  <1> HIDE DEF moved
  <1>10. k \notin Installed /\ Installed \in SUBSET (1 .. n)
    BY <1>1 DEF SweepWaiting, SweptWaiting, Installed
  <1>11. (\A i \in Installed : moved(i) \in Installed')
    BY <1>1, <1>5, <1>7, <1>10 DEF Installed
  <1>12. \A i \in Installed' : \E x \in Installed : i = moved(x) /\ ledger'[i] = ledger[x]
    BY <1>1, <1>5, <1>8 DEF Installed
  <1>13. StoredSet' = StoredSet
    <2>1. CASE Installed = {}
      BY <1>12, <2>1 DEF StoredSet
    <2>2. CASE Installed # {}
      <3>1. PICK m : m = NewestInstalledDeclaration
        OBVIOUS
      <3>2. m \in Installed /\ \A j \in Installed : j <= m
        BY <2>2, <3>1, NewestIsThere
      <3>3. PICK x : x = moved(m)
        OBVIOUS
      <3>4. x \in Installed' /\ x \in Nat /\ ledger'[x] = ledger[m]
        BY <1>1, <1>7, <1>10, <1>11, <3>2, <3>3
      <3>5. \A j \in Installed' : j <= x
        BY <1>9, <1>10, <1>12, <3>2, <3>3
      <3>6. Installed' \in SUBSET Nat
        BY <1>5 DEF Installed
      <3>7. Max(Installed') \in Installed' /\ \A j \in Installed' : j <= Max(Installed')
        <4> DEFINE S == Installed'
        <4>1. S \in SUBSET Nat /\ S # {} /\ x \in Nat /\ \A j \in S : j <= x
          BY <3>4, <3>5, <3>6
        <4> HIDE DEF S
        <4>2. Max(S) \in S /\ \A j \in S : j <= Max(S)
          BY <4>1, MaxOfNaturals
        <4>. QED BY <4>2 DEF S
      <3>8. Max(Installed') = x
        <4>1. Max(Installed') \in Nat /\ Max(Installed') <= x /\ x <= Max(Installed')
          BY <3>4, <3>5, <3>6, <3>7
        <4>. QED BY <3>4, <4>1
      <3>9. NewestInstalledDeclaration' = x
        BY <3>8 DEF NewestInstalledDeclaration
      <3>. QED BY <2>2, <3>1, <3>4, <3>9 DEF StoredSet
    <2>. QED BY <2>1, <2>2
  <1>14. ASSUME NEW q \in Declarer, Waits(q) PROVE Waits(q)'
    <2>1. PICK i \in WaitingOf(q) : \A j \in Installed : ledger[j].by = q => j < i
      BY <1>14 DEF Waits
    <2>2. \E x \in WaitingOf(q) : x # k /\ i <= x
      <3>1. CASE i # k
        BY <1>1, <2>1, <3>1 DEF WaitingOf
      <3>2. CASE i = k
        <4> DEFINE S == WaitingOf(q)
        <4>1. S \in SUBSET Nat /\ S # {} /\ n \in Nat /\ \A x \in S : x <= n
          BY <1>1, <2>1 DEF WaitingOf
        <4>2. k < Max(S)
          BY <2>1, <3>2 DEF SweepWaiting, SweptWaiting, WaitingOf
        <4> HIDE DEF S
        <4>3. Max(S) \in S
          BY <4>1, MaxOfNaturals
        <4>4. Max(S) # k /\ i <= Max(S)
          <5>1. Max(S) \in Nat
            BY <4>1, <4>3
          <5>. QED BY <3>2, <4>2, <5>1
        <4>. QED BY <4>3, <4>4 DEF S
      <3>. QED BY <3>1, <3>2
    <2>3. PICK x \in WaitingOf(q) : x # k /\ i <= x
      BY <2>2
    <2>4. x \in 1 .. n /\ i \in 1 .. n
      BY <1>1, <2>1 DEF WaitingOf
    <2>5. moved(x) \in WaitingOf(q)'
      BY <1>5, <1>7, <2>3, <2>4 DEF WaitingOf
    <2>6. ASSUME NEW j \in Installed', ledger'[j].by = q PROVE j < moved(x)
      <3>1. PICK y \in Installed : j = moved(y) /\ ledger'[j] = ledger[y]
        BY <1>12
      <3>2. y < i /\ y \in 1 .. n /\ y # k
        BY <1>10, <2>1, <2>6, <3>1
      <3>3. y < x
        BY <2>3, <2>4, <3>2
      <3>. QED BY <1>9, <2>3, <2>4, <3>1, <3>2, <3>3
    <2>. QED BY <2>5, <2>6 DEF Waits
  <1>. QED BY <1>5, <1>13, <1>14

\* Registrations, declarations, stops and destructions keep it.
LEMMA GroupStep == GroupInv /\ GroupRegistryNext => GroupInv'
  <1> SUFFICES ASSUME GroupInv, GroupRegistryNext PROVE GroupInv'
    OBVIOUS
  <1>t. GroupType
    BY DEF GroupInv
  <1>r. ResolvedInv
    BY DEF GroupInv
  <1>c. ClaimsReadTheLedger
    BY DEF GroupInv
  <1>w. WaitersInv
    BY DEF GroupInv
  <1>n. NoDeclarer \notin Declarer
    BY GroupRegistryBounds
  \* What leaves the ledger, the group and the resolved groups alone.
  <1>s. ASSUME UNCHANGED ledgerVars, UNCHANGED <<group, groupIds>>, GroupType', ResolvedInv',
               \A p \in Declarer : session'[p] = "waiting" =>
                   session[p] = "waiting" /\ resolved'[p] = resolved[p]
        PROVE  GroupInv'
    <2>1. ClaimsReadTheLedger'
      BY <1>s, <1>c, LedgerStands DEF ClaimsReadTheLedger, ledgerVars
    <2>2. WaitersInv'
      BY <1>s, <1>w, LedgerStands DEF WaitersInv, ledgerVars
    <2>. QED BY <1>s, <2>1, <2>2 DEF GroupInv
  <1>1. ASSUME NEW p \in Declarer, FindGroup(p) PROVE GroupInv'
    <2>1. GroupType'
      BY <1>t, <1>1 DEF GroupType, Session, FindGroup, Goto, ledgerVars
    <2>2. ResolvedInv'
      BY <1>t, <1>r, <1>1 DEF GroupType, ResolvedInv, Registering, FindGroup, Goto
    <2>3. \A q \in Declarer : session'[q] = "waiting" =>
              session[q] = "waiting" /\ resolved'[q] = resolved[q]
      BY <1>t, <1>1 DEF GroupType, FindGroup, Goto
    <2>. QED BY <1>1, <1>s, <2>1, <2>2, <2>3 DEF FindGroup
  <1>2. ASSUME NEW p \in Declarer, LockGroup(p) PROVE GroupInv'
    <2>1. GroupType'
      BY <1>t, <1>2 DEF GroupType, Session, LockGroup, Goto, ledgerVars
    <2>2. ResolvedInv'
      BY <1>t, <1>r, <1>2 DEF GroupType, ResolvedInv, Registering, LockGroup, Goto
    <2>3. \A q \in Declarer : session'[q] = "waiting" =>
              session[q] = "waiting" /\ resolved'[q] = resolved[q]
      BY <1>t, <1>2 DEF GroupType, LockGroup, Goto
    <2>. QED BY <1>2, <1>s, <2>1, <2>2, <2>3 DEF LockGroup
  <1>3. ASSUME NEW p \in Declarer, InsertGroup(p) PROVE GroupInv'
    <2>1. session[p] = "locked" /\ UNCHANGED <<ledgerVars, judging>>
      BY <1>3 DEF InsertGroup
    <2>2. /\ session' = [session EXCEPT ![p] = "declaring"]
          /\ resolved' = [resolved EXCEPT ![p] = group']
          /\ \/ group # NoGroup /\ UNCHANGED <<group, groupIds>>
             \/ group = NoGroup /\ groupIds' = groupIds + 1 /\ group' = groupIds'
      BY <1>3 DEF InsertGroup, Goto, AlreadyRegistered
    <2>3. GroupType' /\ group' # NoGroup /\ groupIds <= groupIds'
      BY <1>t, <2>1, <2>2 DEF GroupType, Session, NoGroup, ledgerVars
    <2>4. ResolvedInv'
      BY <1>t, <1>r, <2>1, <2>2, <2>3 DEF GroupType, ResolvedInv, Registering
    <2>5. StoredSet' = StoredSet /\ \A q \in Declarer : Waits(q) => Waits(q)'
      BY <2>1, LedgerStands DEF ledgerVars
    <2>6. WaitersInv'
      <3> SUFFICES ASSUME NEW q \in Declarer, session'[q] = "waiting", resolved'[q] = group'
                   PROVE Waits(q)'
        BY DEF WaitersInv
      <3>1. q # p /\ session[q] = "waiting" /\ resolved[q] = group'
        BY <1>t, <2>2 DEF GroupType
      <3>2. resolved[q] \in Nat /\ resolved[q] <= groupIds /\ groupIds \in Nat
        BY <1>t DEF GroupType
      <3>3. group' = group
        BY <2>2, <3>1, <3>2
      <3>. QED BY <1>w, <2>5, <3>1, <3>3 DEF WaitersInv
    <2>7. ClaimsReadTheLedger'
      BY <1>c, <2>1, <2>5 DEF ClaimsReadTheLedger, ledgerVars
    <2>. QED BY <2>3, <2>4, <2>6, <2>7 DEF GroupInv
  <1>4. ASSUME NEW p \in Declarer, JudgeDeclaration(p) PROVE GroupInv'
    <2>1. classifyDeclaration(p) \in {"installed", "joined", "waiting"}
      BY DEF classifyDeclaration
    <2>2. \/ UNCHANGED session /\ judging' = [by |-> p, outcome |-> classifyDeclaration(p)]
          \/ session' = [session EXCEPT ![p] = "failed"] /\ UNCHANGED judging
      BY <1>4 DEF JudgeDeclaration, Goto
    <2>3. /\ session[p] \in {"declaring", "registered", "waiting"}
          /\ UNCHANGED <<group, groupIds, ledgerVars, resolved>>
      BY <1>4 DEF JudgeDeclaration
    <2>4. GroupType'
      BY <1>t, <2>1, <2>2, <2>3 DEF GroupType, Session, Judgement, ledgerVars
    <2>5. ResolvedInv'
      BY <1>t, <1>r, <2>2, <2>3 DEF GroupType, ResolvedInv, Registering
    <2>6. \A q \in Declarer : session'[q] = "waiting" =>
              session[q] = "waiting" /\ resolved'[q] = resolved[q]
      BY <1>t, <2>2, <2>3 DEF GroupType
    <2>. QED BY <1>s, <2>3, <2>4, <2>5, <2>6
  <1>5. ASSUME NEW p \in Declarer, CommitDeclaration(p) PROVE GroupInv'
    <2>1. judging.by = p /\ judging.outcome \in {"installed", "joined", "waiting"}
      BY <1>n, <1>t, <1>5 DEF CommitDeclaration, GroupType, Judgement, NotJudging
    <2>2. PICK at \in {"registered", "waiting", "starting"} :
            /\ session' = [session EXCEPT ![p] = at]
            /\ at = "waiting" => judging.outcome = "waiting"
      <3>1. /\ AfterDeclaration(p, judging.outcome) \in {"registered", "waiting", "starting"}
            /\ AfterDeclaration(p, judging.outcome) = "waiting" => judging.outcome = "waiting"
        BY DEF AfterDeclaration
      <3>2. session' = [session EXCEPT ![p] = AfterDeclaration(p, judging.outcome)]
        BY <1>5 DEF CommitDeclaration, Goto
      <3>. QED BY <3>1, <3>2
    <2>3. UNCHANGED <<group, groupIds, resolved>> /\ judging' = NotJudging
      BY <1>5 DEF CommitDeclaration
    <2>4. \/ judging.outcome = "joined" /\ UNCHANGED ledgerVars
          \/ \E s \in {"waiting", "installed"} :
               /\ judging.outcome = s /\ declared' = declared + 1
               /\ ledger' = Append(ledger, [status |-> s, by |-> p, set |-> SetOf[p]])
               /\ bound' = IF s = "installed" THEN SetOf[p] ELSE bound
      BY <1>5, <2>1 DEF CommitDeclaration, appendDeclaration
    <2>5. /\ ledger' \in Seq(LedgerRow) /\ declared' \in Nat
          /\ bound' = StoredSet'
          /\ judging.outcome = "waiting" => Waits(p)'
          /\ \A q \in Declarer : q # p /\ Waits(q) => Waits(q)'
      <3>1. ledger \in Seq(LedgerRow) /\ declared \in Nat /\ bound = StoredSet
        BY <1>c, <1>t DEF GroupType, ClaimsReadTheLedger
      <3>2. CASE judging.outcome = "joined" /\ UNCHANGED ledgerVars
        BY <3>1, <3>2, LedgerStands DEF ledgerVars
      <3>3. ASSUME NEW s \in {"waiting", "installed"}, judging.outcome = s, declared' = declared + 1,
                   ledger' = Append(ledger, [status |-> s, by |-> p, set |-> SetOf[p]]),
                   bound' = IF s = "installed" THEN SetOf[p] ELSE bound
            PROVE  /\ ledger' \in Seq(LedgerRow) /\ declared' \in Nat
                   /\ bound' = StoredSet'
                   /\ judging.outcome = "waiting" => Waits(p)'
                   /\ \A q \in Declarer : q # p /\ Waits(q) => Waits(q)'
        <4>1. /\ ledger' \in Seq(LedgerRow)
              /\ s = "waiting" => StoredSet' = StoredSet /\ Waits(p)'
              /\ s = "installed" => StoredSet' = SetOf[p]
              /\ \A q \in Declarer : q # p /\ Waits(q) => Waits(q)'
          BY <3>1, <3>3, LedgerGrows
        <4>. QED BY <3>1, <3>3, <4>1
      <3>. QED BY <2>4, <3>2, <3>3
    <2>6. GroupType'
      BY <1>t, <2>2, <2>3, <2>5 DEF GroupType, Session
    <2>7. ResolvedInv'
      BY <1>n, <1>t, <1>r, <2>1, <2>2, <2>3 DEF GroupType, ResolvedInv, Registering, NotJudging
    <2>8. WaitersInv'
      BY <1>t, <1>w, <2>2, <2>3, <2>5 DEF GroupType, WaitersInv
    <2>. QED BY <2>5, <2>6, <2>7, <2>8 DEF GroupInv, ClaimsReadTheLedger
  \* The life of an instance: its session moves on, past the registration.
  <1>6. ASSUME NEW p \in Declarer, NEW at \in {"running", "stopped", "failed"},
               session[p] \in {"registered", "waiting", "starting", "running"},
               session' = [session EXCEPT ![p] = at],
               UNCHANGED <<group, groupIds, ledgerVars, resolved, judging>>
        PROVE  GroupInv'
    <2>1. GroupType'
      BY <1>t, <1>6 DEF GroupType, Session, ledgerVars
    <2>2. ResolvedInv'
      BY <1>t, <1>r, <1>6 DEF GroupType, ResolvedInv, Registering
    <2>3. \A q \in Declarer : session'[q] = "waiting" =>
              session[q] = "waiting" /\ resolved'[q] = resolved[q]
      BY <1>t, <1>6 DEF GroupType
    <2>. QED BY <1>6, <1>s, <2>1, <2>2, <2>3
  <1>7. ASSUME NEW p \in Declarer, Consume(p) PROVE GroupInv'
    <2>1. \E at \in {"running", "stopped", "failed"} :
            /\ session[p] \in {"registered", "waiting", "starting", "running"}
            /\ session' = [session EXCEPT ![p] = at]
      BY <1>7 DEF Consume, StartInstance, StopInstance, CrashInstance, NoticeDestroyed, Goto
    <2>2. UNCHANGED <<group, groupIds, ledgerVars, resolved, judging>>
      BY <1>7 DEF Consume, StartInstance, StopInstance, CrashInstance, NoticeDestroyed
    <2>. QED BY <1>6, <2>1, <2>2
  \* A heartbeat that expires, and an idle group that is found.
  <1>8. ASSUME UNCHANGED <<group, groupIds, ledgerVars, session, resolved, judging>>
        PROVE  GroupInv'
    <2>1. GroupType' /\ ResolvedInv'
      BY <1>t, <1>r, <1>8 DEF GroupType, ResolvedInv, ledgerVars
    <2>. QED BY <1>8, <1>s, <2>1
  <1>9. ASSUME DeleteGroup PROVE GroupInv'
    <2>1. /\ group' = NoGroup /\ ledger' = <<>> /\ bound' = NoSet
          /\ UNCHANGED <<groupIds, declared, session, resolved, judging>>
      BY <1>9 DEF DeleteGroup
    <2>2. GroupType'
      BY <1>t, <2>1 DEF GroupType, NoGroup
    <2>3. ResolvedInv'
      BY <1>r, <2>1 DEF ResolvedInv
    <2>4. ClaimsReadTheLedger'
      <3>1. Installed' = {}
        BY <2>1 DEF Installed
      <3>. QED BY <2>1, <3>1 DEF ClaimsReadTheLedger, StoredSet
    <2>5. WaitersInv'
      BY <1>r, <2>1 DEF WaitersInv, ResolvedInv, Registering
    <2>. QED BY <2>2, <2>3, <2>4, <2>5 DEF GroupInv
  <1>10. ASSUME NEW k \in Nat, SweepWaiting(k) PROVE GroupInv'
    <2>1. UNCHANGED <<group, groupIds, declared, bound, session, resolved, judging>>
      BY <1>10 DEF SweepWaiting
    <2>2. /\ ledger' \in Seq(LedgerRow) /\ StoredSet' = StoredSet
          /\ \A q \in Declarer : Waits(q) => Waits(q)'
      BY <1>t, <1>10, LedgerShrinks DEF GroupType
    <2>3. GroupType' /\ ResolvedInv'
      BY <1>t, <1>r, <2>1, <2>2 DEF GroupType, ResolvedInv
    <2>4. ClaimsReadTheLedger' /\ WaitersInv'
      BY <1>c, <1>w, <2>1, <2>2 DEF ClaimsReadTheLedger, WaitersInv
    <2>. QED BY <2>3, <2>4 DEF GroupInv
  <1>11. ASSUME NEW p \in Declarer, ExpireInstance(p) PROVE GroupInv'
    BY <1>8, <1>11 DEF ExpireInstance
  <1>12. ASSUME NEW force \in BOOLEAN, FindIdle(force) PROVE GroupInv'
    BY <1>8, <1>12 DEF FindIdle
  <1>13. \A k \in 1 .. MaxDeclarations : k \in Nat
    BY GroupRegistryBounds
  <1>. QED
    BY <1>1, <1>2, <1>3, <1>4, <1>5, <1>7, <1>9, <1>10, <1>11, <1>12, <1>13
    DEF GroupRegistryNext, RegisterGroup, DeclareBindings, DestroyConsumer

\* A step of another component leaves the group alone.
LEMMA GroupRests == GroupInv /\ UNCHANGED groupRegistryVars => GroupInv'
  <1> SUFFICES ASSUME GroupInv, UNCHANGED groupRegistryVars PROVE GroupInv'
    OBVIOUS
  <1>1. UNCHANGED <<group, groupIds, ledger, declared, bound, session, resolved, judging>>
    BY DEF groupRegistryVars
  <1>2. GroupType' /\ ResolvedInv'
    BY <1>1 DEF GroupInv, GroupType, ResolvedInv
  <1>3. ClaimsReadTheLedger' /\ WaitersInv'
    BY <1>1, LedgerStands DEF GroupInv, ClaimsReadTheLedger, WaitersInv
  <1>. QED BY <1>2, <1>3 DEF GroupInv

-----------------------------------------------------------------------------
(* The config of a group. *)

\* What a declaration is stored as: every default is in, a ceiling exists.
Resolved ==
    {d \in Document :
        /\ ValidDocument(d)
        /\ d.message # NoOptions /\ Defaulted(d.message) = d.message
        /\ d.messageMax # NoOptions /\ d.messageMax.timeout > 0}

\* Filling in gives values, a field at a time.
LEMMA FilledIn ==
  ASSUME NEW o \in Option, NEW d \in MessageOptions
  PROVE  /\ Fill(o, d) \in MessageOptions
         /\ Fill(o, d).timeout = FillField(o, d, "timeout")
         /\ Fill(o, d).retries = FillField(o, d, "retries")
  <1>1. d # NoOptions
    BY GroupConfigBounds
  <1>2. FillField(o, d, "timeout") \in Int /\ FillField(o, d, "retries") \in Int
    BY GroupConfigBounds DEF FillField, Field, Option, MessageOptions
  <1>. QED BY <1>1, <1>2 DEF Fill, MessageOptions

\* Filling in the defaults leaves nothing to fill in, and keeps what is valid valid.
LEMMA DefaultsFilled ==
  ASSUME NEW o \in Option, ValidOptions(o)
  PROVE  /\ Defaulted(o) \in MessageOptions /\ ValidOptions(Defaulted(o))
         /\ Defaulted(o).timeout > 0
         /\ Defaulted(Defaulted(o)) = Defaulted(o)
  <1> DEFINE d == [timeout |-> DefaultTimeout, retries |-> DefaultRetries]
  <1>1. d \in MessageOptions /\ d # NoOptions /\ d.timeout = DefaultTimeout /\ d.retries = DefaultRetries
    BY GroupConfigBounds DEF MessageOptions
  <1>2. Defaulted(o) = Fill(o, d) /\ Defaulted(Defaulted(o)) = Fill(Fill(o, d), d)
    BY DEF Defaulted
  <1> HIDE DEF d
  <1>3. PICK e \in MessageOptions : e = Fill(o, d) /\ e.timeout = FillField(o, d, "timeout")
                                            /\ e.retries = FillField(o, d, "retries")
    BY <1>1, FilledIn
  <1>4. e # NoOptions /\ e.timeout \in Int /\ e.retries \in Int
    BY GroupConfigBounds DEF MessageOptions
  <1>5. e.timeout > 0 /\ e.retries >= 0
    BY <1>1, <1>3, GroupConfigBounds DEF FillField, Field, ValidOptions, Option, MessageOptions
  <1>6. FillField(e, d, "timeout") = e.timeout /\ FillField(e, d, "retries") = e.retries
    <2>1. Field(e, "timeout") = e.timeout /\ Field(e, "retries") = e.retries
      BY <1>4 DEF Field
    <2>2. e.retries = 0 => Field(d, "retries") = 0
      BY <1>1, <1>3, GroupConfigBounds DEF FillField, Field
    <2>. QED BY <1>4, <1>5, <2>1, <2>2 DEF FillField
  <1>7. Fill(e, d) = e
    <2>1. Fill(e, d) = [timeout |-> e.timeout, retries |-> e.retries]
      BY <1>4, <1>6 DEF Fill
    <2>. QED BY <2>1 DEF MessageOptions
  <1>8. ValidOptions(e)
    BY <1>4, <1>5 DEF ValidOptions
  <1>. QED BY <1>2, <1>3, <1>5, <1>7, <1>8

\* A valid document is stored as a resolved one (config.go withMetadata).
LEMMA ResolvesTo ==
  ASSUME NEW d \in Document, ValidDocument(d)
  PROVE  withMetadata(d) \in Resolved
  <1>1. /\ d.message \in Option /\ d.messageMin \in Option /\ d.messageMax \in Option
        /\ d.backoff \in Int /\ d.backoff >= 0
        /\ ValidOptions(d.message) /\ ValidOptions(d.messageMin) /\ ValidOptions(d.messageMax)
    BY DEF Document, ValidDocument
  <1>2. PICK m : m = Defaulted(d.message)
    OBVIOUS
  <1>3. m \in MessageOptions /\ ValidOptions(m) /\ m.timeout > 0 /\ Defaulted(m) = m /\ m # NoOptions
    BY <1>1, <1>2, DefaultsFilled, GroupConfigBounds
  <1>4. PICK c \in MessageOptions : c = Fill(d.messageMax, m) /\ c.timeout = FillField(d.messageMax, m, "timeout")
                                                      /\ c.retries = FillField(d.messageMax, m, "retries")
    BY <1>1, <1>3, FilledIn
  <1>5. c.timeout > 0 /\ c.retries >= 0 /\ c # NoOptions
    BY <1>1, <1>3, <1>4, GroupConfigBounds DEF FillField, Field, ValidOptions, Option, MessageOptions
  <1>6. withMetadata(d) = [message |-> m, messageMin |-> d.messageMin, messageMax |-> c,
                           backoff |-> IF d.backoff = 0 THEN 1 ELSE d.backoff]
    BY <1>2, <1>4 DEF withMetadata
  <1>7. ValidOptions(c)
    <2>1. c.timeout >= 0
      BY <1>4, <1>5 DEF MessageOptions
    <2>. QED BY <1>5, <2>1 DEF ValidOptions
  <1>. QED BY <1>1, <1>3, <1>5, <1>6, <1>7 DEF Resolved, Document, ValidDocument, Option

\* A stored document is kept as it is read, and only equals itself.
LEMMA KeptAsRead ==
  ASSUME NEW d \in Resolved
  PROVE  /\ d \in Document /\ ValidDocument(d) /\ d # NoDocument /\ KeptDocument(d) = d
         /\ \A e \in Resolved : Equal(d, e) <=> d = e
  <1>1. d \in Document /\ ValidDocument(d) /\ d # NoDocument
    BY GroupConfigBounds DEF Resolved
  <1>2. KeptDocument(d) = d
    <2>1. Defaulted(d.message) = d.message /\ d.message # NoOptions
      BY DEF Resolved
    <2>2. [d EXCEPT !.message = d.message] = d
      BY <1>1 DEF Document
    <2>. QED BY <2>1, <2>2 DEF KeptDocument
  <1>3. ASSUME NEW e \in Resolved PROVE Equal(d, e) <=> d = e
    BY <1>1 DEF Equal, Document, Resolved
  <1>. QED BY <1>1, <1>2, <1>3

\* Whatever a producer asked for, a claim's lease covers it and the margin.
LEMMA LeaseCovers ==
  ASSUME NEW c \in Resolved, NEW r \in Option
  PROVE  /\ resolveMessageOptions(c, r) \in MessageOptions
         /\ LeaseDuration(c) \in Int
         /\ LeaseDuration(c) >= QueueMargin + RunNeeds(resolveMessageOptions(c, r))
  <1>1. /\ c.message \in MessageOptions /\ c.messageMax \in MessageOptions /\ c.messageMax # NoOptions
        /\ c.messageMax.timeout > 0 /\ c.messageMin \in Option
    BY DEF Resolved, Document, Option
  <1>2. PICK o \in MessageOptions : o = Fill(r, c.message)
    BY <1>1, FilledIn
  <1>3. PICK n : n = Clamp(o, c.messageMin, c.messageMax)
    OBVIOUS
  <1>4. o # NoOptions /\ o.timeout \in Int /\ o.retries \in Int
    BY GroupConfigBounds DEF MessageOptions
  <1>5. \A f \in {"timeout", "retries"} : Field(c.messageMin, f) \in Int /\ Field(c.messageMax, f) \in Int
    BY <1>1 DEF Field, Option, MessageOptions
  <1>6. \A v, lo, hi \in Int : ClampField(v, lo, hi) \in Int /\ (hi > 0 => ClampField(v, lo, hi) <= hi)
    BY DEF ClampField
  <1>7. n = [f \in {"timeout", "retries"} |-> ClampField(o[f], Field(c.messageMin, f), Field(c.messageMax, f))]
    BY <1>3, <1>4 DEF Clamp
  <1>8. \A f \in {"timeout", "retries"} : o[f] \in Int
    BY <1>4
  <1>9. n \in MessageOptions
    BY <1>5, <1>6, <1>7, <1>8 DEF MessageOptions
  <1>10. n.timeout <= c.messageMax.timeout
    <2>1. n.timeout = ClampField(o["timeout"], Field(c.messageMin, "timeout"), Field(c.messageMax, "timeout"))
      BY <1>7
    <2>2. Field(c.messageMax, "timeout") = c.messageMax.timeout
      BY <1>1 DEF Field
    <2>. QED BY <1>1, <1>5, <1>6, <1>8, <2>1, <2>2
  <1>11. c.messageMax.timeout \in Int /\ n.timeout \in Int
    BY <1>1, <1>9 DEF MessageOptions
  <1>12. n = resolveMessageOptions(c, r)
    BY <1>2, <1>3 DEF resolveMessageOptions
  <1>. QED BY <1>9, <1>10, <1>11, <1>12, GroupConfigBounds DEF LeaseDuration, RunNeeds

Copy == [cfg : Resolved, declared : Resolved, read : Resolved]
Operation == [stage : {"idle", "claimed", "queued", "running", "stale", "renewed"},
              cfg : Resolved \cup {NoDocument}, lease : Int, waited : Int, options : Option]

ConfigType ==
    /\ workerRow \in Resolved
    /\ listed \in [GroupInstance -> Resolved \cup {NoDocument}]
    /\ parsed \in [GroupInstance -> Resolved \cup {NoDocument}]
    /\ configState \in [GroupInstance -> Copy \cup {NoDocument}]
    /\ operation \in [GroupInstance -> Operation]

\* A copy is what its document resolves to, and the document kept is the one read.
IsCopyOf(c) == c.cfg = withMetadata(c.declared) /\ c.read = c.declared
CopiesInv ==
    \A i \in GroupInstance :
        /\ Runs(i) => IsCopyOf(configState[i])
        /\ parsed[i] # NoDocument => Runs(i)

\* The time a claim waited is what its lease lost.
OperationHolds(o) ==
    /\ o.stage = "claimed" => /\ o.cfg # NoDocument
                              /\ o.lease = LeaseDuration(o.cfg) /\ o.waited = 0
    /\ o.stage = "queued" => o.lease + o.waited >= QueueMargin + RunNeeds(o.options)
                             /\ o.options \in MessageOptions
    /\ o.stage \in {"stale", "renewed"} => o.waited > QueueMargin
OperationsInv == \A i \in GroupInstance : OperationHolds(operation[i])

ConfigInv == ConfigType /\ CopiesInv /\ OperationsInv

\* What the run checks of the config.
LEMMA ConfigSafe == ConfigInv => QueueMarginHolds /\ RunsWhatItRead
  <1> SUFFICES ASSUME ConfigInv PROVE QueueMarginHolds /\ RunsWhatItRead
    OBVIOUS
  <1>1. QueueMarginHolds
    BY DEF ConfigInv, OperationsInv, OperationHolds, QueueMarginHolds
  <1>2. ASSUME NEW i \in GroupInstance, Runs(i)
        PROVE  /\ current(i) = withMetadata(configState[i].read)
               /\ parsed[i] # NoDocument /\ parsed[i] = configState[i].read => ~Swaps(i)
    <2>1. configState[i].cfg = withMetadata(configState[i].declared) /\ configState[i].read = configState[i].declared
      BY <1>2 DEF ConfigInv, CopiesInv, IsCopyOf
    <2>. QED BY <2>1 DEF current, Swaps, Equal
  <1>. QED BY <1>1, <1>2 DEF RunsWhatItRead

\* An instance that does nothing owes nothing.
LEMMA IdlingHolds == Idling \in Operation /\ OperationHolds(Idling)
  BY DEF Idling, Operation, Option, OperationHolds

\* Every instance starts idle, on a resolved document.
LEMMA ConfigStart == GroupConfigInit => ConfigInv
  <1> SUFFICES ASSUME GroupConfigInit PROVE ConfigInv
    OBVIOUS
  <1>1. workerRow \in Resolved
    BY ResolvesTo, GroupConfigBounds DEF GroupConfigInit
  <1>. QED BY <1>1, IdlingHolds DEF GroupConfigInit, ConfigInv, ConfigType, CopiesInv, OperationsInv, Runs

\* A step of one operation: the documents stay.
OperationMoved(i) ==
    /\ operation' \in [GroupInstance -> Operation]
    /\ \A j \in GroupInstance : j # i => operation'[j] = operation[j]

\* A step of one operation touches nothing of the others.
LEMMA OperationMoves ==
  ASSUME ConfigInv, NEW i \in GroupInstance, OperationMoved(i), OperationHolds(operation'[i]),
         UNCHANGED <<workerRow, declarations, listed, configState, parsed>>
  PROVE  ConfigInv'
  <1>1. ConfigType'
    BY DEF ConfigInv, ConfigType, OperationMoved
  <1>2. CopiesInv'
    BY DEF ConfigInv, CopiesInv, Runs
  <1>3. OperationsInv'
    BY DEF ConfigInv, OperationsInv, OperationMoved
  <1>. QED BY <1>1, <1>2, <1>3 DEF ConfigInv

\* Declarations, refreshes, claims and dispatches keep it.
LEMMA ConfigStep == ConfigInv /\ GroupConfigNext => ConfigInv'
  <1> SUFFICES ASSUME ConfigInv, GroupConfigNext PROVE ConfigInv'
    OBVIOUS
  <1>t. ConfigType
    BY DEF ConfigInv
  <1>c. CopiesInv
    BY DEF ConfigInv
  <1>o. OperationsInv
    BY DEF ConfigInv
  <1>n. /\ NoDocument \notin Resolved /\ NoDocument \notin Copy
        /\ \A i \in GroupInstance : Runs(i) => configState[i] \in Copy
    <2>1. NoDocument \notin Resolved /\ NoDocument \notin Copy
      BY GroupConfigBounds DEF Resolved, Copy
    <2>. QED BY <1>t, <2>1 DEF ConfigType, Runs
  <1>f. \A i \in GroupInstance :
          /\ operation[i] \in Operation /\ OperationHolds(operation[i])
          /\ operation[i].lease \in Int /\ operation[i].waited \in Int /\ operation[i].options \in Option
          /\ operation[i].cfg \in Resolved \cup {NoDocument}
    BY <1>t, <1>o DEF ConfigType, OperationsInv, Operation
  <1>g. operation \in [GroupInstance -> Operation]
    BY <1>t DEF ConfigType
  <1>1. ASSUME NEW d \in Declaration, Declare(d) PROVE ConfigInv'
    <2>1. workerRow' \in Resolved
      BY <1>1, ResolvesTo, GroupConfigBounds DEF Declare
    <2>2. UNCHANGED <<listed, configState, parsed, operation>>
      BY <1>1 DEF Declare
    <2>. QED BY <1>t, <1>c, <1>o, <2>1, <2>2 DEF ConfigInv, ConfigType, CopiesInv, OperationsInv, Runs
  <1>2. ASSUME NEW i \in GroupInstance, ListWorker(i) PROVE ConfigInv'
    BY <1>t, <1>c, <1>o, <1>2 DEF ListWorker, ConfigInv, ConfigType, CopiesInv, OperationsInv, Runs
  <1>3. ASSUME NEW i \in GroupInstance, Provision(i) PROVE ConfigInv'
    <2>1. PICK d \in Resolved : d = listed[i]
      BY <1>t, <1>3 DEF Provision, ConfigType
    <2>2. KeptDocument(d) = d /\ withMetadata(d) \in Resolved
      BY KeptAsRead, ResolvesTo
    <2>3. PICK c : c = [cfg |-> withMetadata(d), declared |-> d, read |-> d]
      OBVIOUS
    <2>4. c \in Copy /\ IsCopyOf(c)
      BY <2>2, <2>3 DEF Copy, IsCopyOf
    <2>5. configState' = [configState EXCEPT ![i] = c] /\ UNCHANGED <<workerRow, listed, parsed, operation>>
      BY <1>3, <2>1, <2>2, <2>3 DEF Provision
    <2>6. ConfigType'
      BY <1>t, <2>4, <2>5 DEF ConfigType
    <2>7. CopiesInv' /\ OperationsInv'
      BY <1>t, <1>c, <1>o, <1>n, <2>4, <2>5 DEF ConfigType, CopiesInv, OperationsInv, Runs
    <2>. QED BY <2>6, <2>7 DEF ConfigInv
  <1>4. ASSUME NEW i \in GroupInstance, EndInstance(i) PROVE ConfigInv'
    <2>1. /\ configState' = [configState EXCEPT ![i] = NoDocument]
          /\ listed' = [listed EXCEPT ![i] = NoDocument]
          /\ parsed' = [parsed EXCEPT ![i] = NoDocument]
          /\ operation' = [operation EXCEPT ![i] = Idling]
          /\ UNCHANGED workerRow
      BY <1>4 DEF EndInstance
    <2>2. ConfigType'
      BY <1>t, <2>1, IdlingHolds DEF ConfigType
    <2>3. CopiesInv'
      BY <1>t, <1>c, <2>1 DEF ConfigType, CopiesInv, Runs
    <2>4. \A j \in GroupInstance : operation'[j] = IF j = i THEN Idling ELSE operation[j]
      BY <1>t, <2>1 DEF ConfigType
    <2>5. OperationsInv'
      BY <1>o, <2>4, IdlingHolds DEF OperationsInv
    <2>. QED BY <2>2, <2>3, <2>5 DEF ConfigInv
  <1>5. ASSUME NEW i \in GroupInstance, ReadWorker(i) PROVE ConfigInv'
    BY <1>t, <1>c, <1>o, <1>5 DEF ReadWorker, ConfigInv, ConfigType, CopiesInv, OperationsInv, Runs
  <1>6. ASSUME NEW i \in GroupInstance, replace(i) PROVE ConfigInv'
    <2>1. PICK d \in Resolved : d = parsed[i]
      BY <1>t, <1>6 DEF replace, ConfigType
    <2>2. KeptDocument(d) = d /\ withMetadata(d) \in Resolved /\ ValidDocument(d)
      BY KeptAsRead, ResolvesTo
    <2>3. PICK b : b = configState[i]
      OBVIOUS
    <2>4. PICK c : c = [cfg      |-> IF Swaps(i) THEN withMetadata(d) ELSE b.cfg,
                        declared |-> IF Swaps(i) THEN d ELSE b.declared,
                        read     |-> d]
      OBVIOUS
    <2>5. /\ configState' = [configState EXCEPT ![i] = c] /\ parsed' = [parsed EXCEPT ![i] = NoDocument]
          /\ UNCHANGED <<workerRow, listed, operation>>
      BY <1>6, <2>1, <2>2, <2>3, <2>4 DEF replace
    <2>6. Runs(i) => c \in Copy /\ IsCopyOf(c)
      <3> SUFFICES ASSUME Runs(i) PROVE c \in Copy /\ IsCopyOf(c)
        OBVIOUS
      <3>1. b \in Copy /\ IsCopyOf(b)
        BY <1>c, <1>n, <2>3 DEF CopiesInv
      <3>2. CASE Swaps(i)
        BY <2>2, <2>4, <3>2 DEF Copy, IsCopyOf
      <3>3. CASE ~Swaps(i)
        <4>1. Equal(d, b.declared)
          BY <2>1, <2>2, <2>3, <3>3 DEF Swaps
        <4>2. b.declared \in Resolved /\ b.cfg \in Resolved
          BY <3>1 DEF Copy
        <4>3. d = b.declared
          BY <4>1, <4>2, KeptAsRead
        <4>. QED BY <2>4, <3>1, <3>3, <4>2, <4>3 DEF Copy, IsCopyOf
      <3>. QED BY <3>2, <3>3
    <2>7. CASE Runs(i)
      <3>1. ConfigType'
        BY <1>t, <2>5, <2>6, <2>7 DEF ConfigType
      <3>2. CopiesInv' /\ OperationsInv'
        BY <1>t, <1>c, <1>o, <2>5, <2>6, <2>7 DEF ConfigType, CopiesInv, OperationsInv, Runs
      <3>. QED BY <3>1, <3>2 DEF ConfigInv
    <2>8. Runs(i)
      BY <1>6, <1>c DEF replace, CopiesInv
    <2>. QED BY <2>7, <2>8
  <1>7. ASSUME NEW i \in GroupInstance, ClaimWith(i) PROVE ConfigInv'
    <2>1. PICK c : c = current(i)
      OBVIOUS
    <2>2. c \in Resolved /\ c # NoDocument
      BY <1>7, <1>n, <2>1 DEF ClaimWith, current, Copy
    <2>3. LeaseDuration(c) \in Int
      BY <2>2, LeaseCovers DEF Option
    <2>4. /\ operation'[i].stage = "claimed" /\ operation'[i].cfg = c
          /\ operation'[i].lease = LeaseDuration(c) /\ operation'[i].waited = 0
      BY <1>7, <1>g, <2>1 DEF ClaimWith, Idling
    <2>5. OperationMoved(i)
      <3>1. [Idling EXCEPT !.stage = "claimed", !.cfg = c, !.lease = LeaseDuration(c)] \in Operation
        BY <2>2, <2>3, IdlingHolds DEF Operation
      <3>. QED BY <1>7, <1>g, <2>1, <3>1 DEF ClaimWith, OperationMoved
    <2>6. OperationHolds(operation'[i])
      BY <2>2, <2>4 DEF OperationHolds
    <2>7. UNCHANGED <<workerRow, declarations, listed, configState, parsed>>
      BY <1>7 DEF ClaimWith
    <2>. QED BY <2>5, <2>6, <2>7, OperationMoves
  <1>8. ASSUME NEW i \in GroupInstance, NEW r \in Requested, Queue(i, r) PROVE ConfigInv'
    <2>1. PICK c \in Resolved : c = ItemConfig(i)
      BY <1>8, <1>f DEF Queue, ItemConfig, OperationHolds
    <2>2. PICK n \in MessageOptions : /\ n = resolveMessageOptions(c, r)
                                      /\ LeaseDuration(c) >= QueueMargin + RunNeeds(n)
      BY LeaseCovers, GroupConfigBounds
    <2>3. operation' = [operation EXCEPT ![i].stage = "queued", ![i].options = n]
      BY <1>8, <2>1, <2>2 DEF Queue
    <2>4. operation[i].lease = LeaseDuration(c) /\ operation[i].waited = 0
      BY <1>8, <1>f, <2>1 DEF Queue, ItemConfig, OperationHolds
    <2>5. OperationMoved(i)
      BY <1>g, <2>3 DEF OperationMoved, Operation, Option
    <2>6. /\ operation'[i].stage = "queued" /\ operation'[i].options = n
          /\ operation'[i].lease = operation[i].lease /\ operation'[i].waited = operation[i].waited
      BY <1>g, <2>3 DEF Operation
    <2>7. OperationHolds(operation'[i])
      <3>1. LeaseDuration(c) \in Int
        BY <1>f, <2>4
      <3>2. LeaseDuration(c) + 0 = LeaseDuration(c)
        BY <3>1
      <3>. QED BY <2>2, <2>4, <2>6, <3>2 DEF OperationHolds
    <2>8. UNCHANGED <<workerRow, declarations, listed, configState, parsed>>
      BY <1>8 DEF Queue
    <2>. QED BY <2>5, <2>7, <2>8, OperationMoves
  <1>9. ASSUME NEW i \in GroupInstance, Elapse(i) PROVE ConfigInv'
    <2>1. /\ operation' = [operation EXCEPT ![i].lease = @ - 1, ![i].waited = @ + 1]
          /\ operation[i].stage = "queued"
          /\ UNCHANGED <<workerRow, declarations, listed, configState, parsed>>
      BY <1>9 DEF Elapse
    <2>2. OperationMoved(i)
      BY <1>g, <2>1 DEF OperationMoved, Operation
    <2>3. /\ operation'[i].stage = "queued" /\ operation'[i].options = operation[i].options
          /\ operation'[i].lease = operation[i].lease - 1 /\ operation'[i].waited = operation[i].waited + 1
      BY <1>g, <2>1 DEF Operation
    <2>4. OperationHolds(operation'[i])
      <3>1. operation'[i].lease + operation'[i].waited = operation[i].lease + operation[i].waited
        BY <1>f, <2>3
      <3>. QED BY <1>f, <2>1, <2>3, <3>1 DEF OperationHolds
    <2>. QED BY <2>1, <2>2, <2>4, OperationMoves
  <1>10. ASSUME NEW i \in GroupInstance, NEW s \in {"running", "stale"},
                operation' = [operation EXCEPT ![i].stage = s],
                s = "stale" => operation[i].waited > QueueMargin,
                UNCHANGED <<workerRow, declarations, listed, configState, parsed>>
         PROVE  ConfigInv'
    <2>1. OperationMoved(i)
      BY <1>10, <1>g DEF OperationMoved, Operation
    <2>2. operation'[i].stage = s /\ operation'[i].waited = operation[i].waited
      BY <1>10, <1>g DEF Operation
    <2>3. OperationHolds(operation'[i])
      BY <1>10, <2>2 DEF OperationHolds
    <2>. QED BY <1>10, <2>1, <2>3, OperationMoves
  \* A lease that is short has been waited for longer than the margin.
  <1>11. ASSUME NEW i \in GroupInstance, operation[i].stage = "queued",
                operation[i].lease < RunNeeds(operation[i].options)
         PROVE  operation[i].waited > QueueMargin /\ RunNeeds(operation[i].options) \in Int
    <2>1. PICK need : need = RunNeeds(operation[i].options)
      OBVIOUS
    <2>2. operation[i].options \in MessageOptions
      BY <1>11, <1>f DEF OperationHolds
    <2>3. \A o \in MessageOptions : RunNeeds(o) \in Int
      BY GroupConfigBounds DEF RunNeeds, MessageOptions
    <2>4. need \in Int
      BY <2>1, <2>2, <2>3
    <2>5. operation[i].lease + operation[i].waited >= QueueMargin + need
      BY <1>11, <1>f, <2>1 DEF OperationHolds
    <2>6. operation[i].lease \in Int /\ operation[i].waited \in Int /\ QueueMargin \in Nat
      BY <1>f, GroupConfigBounds
    <2>. QED BY <1>11, <2>1, <2>4, <2>5, <2>6
  <1>12. ASSUME NEW i \in GroupInstance, RenewLease(i) PROVE ConfigInv'
    <2>1. operation[i].waited > QueueMargin /\ RunNeeds(operation[i].options) \in Int
      BY <1>11, <1>12 DEF RenewLease
    <2>2. PICK need \in Int : need = RunNeeds(operation[i].options)
      BY <2>1
    <2>3. /\ operation' = [operation EXCEPT ![i].stage = "renewed", ![i].lease = need]
          /\ UNCHANGED <<workerRow, declarations, listed, configState, parsed>>
      BY <1>12, <2>2 DEF RenewLease
    <2>4. OperationMoved(i)
      BY <1>g, <2>3 DEF OperationMoved, Operation
    <2>5. operation'[i].stage = "renewed" /\ operation'[i].waited = operation[i].waited
      BY <1>g, <2>3 DEF Operation
    <2>6. OperationHolds(operation'[i])
      BY <2>1, <2>5 DEF OperationHolds
    <2>. QED BY <2>3, <2>4, <2>6, OperationMoves
  <1>13. ASSUME NEW i \in GroupInstance, StartRun(i) PROVE ConfigInv'
    BY <1>10, <1>13 DEF StartRun
  <1>14. ASSUME NEW i \in GroupInstance, MarkStale(i) PROVE ConfigInv'
    BY <1>10, <1>11, <1>14 DEF MarkStale
  <1>15. ASSUME NEW i \in GroupInstance, EndOperation(i) PROVE ConfigInv'
    <2>1. OperationMoved(i) /\ operation'[i] = Idling
      BY <1>15, <1>g, IdlingHolds DEF EndOperation, OperationMoved
    <2>. QED BY <1>15, <2>1, IdlingHolds, OperationMoves DEF EndOperation
  <1>. QED
    BY <1>1, <1>2, <1>3, <1>4, <1>5, <1>6, <1>7, <1>8, <1>9, <1>12, <1>13, <1>14, <1>15 DEF GroupConfigNext

\* A step of another component leaves the config alone.
LEMMA ConfigRests == ConfigInv /\ UNCHANGED configVars => ConfigInv'
  BY DEF configVars, ConfigInv, ConfigType, CopiesInv, OperationsInv, Runs

-----------------------------------------------------------------------------
(* The claim buffer of a message consumer. *)

Item == {x \in LocalRange \X Nat : x[2] \in Position(x[1])}
Outcome == {"none", "success", "exception", "deferred"}
HandlerOf == [item : Item, pc : {"start", "lookup", "write", "count", "check", "commit"},
              kind : Outcome]

\* A table has an outcome for every message of every range.
IsTable(f) ==
    /\ f = [r \in LocalRange |-> f[r]]
    /\ \A r \in LocalRange : f[r] \in [Position(r) -> Outcome]

BufferType ==
    /\ leaseOf \in [LocalRange -> {"unclaimed", "live", "freed", "lost", "surrendered"}]
    /\ settledTo \in [LocalRange -> Nat]
    /\ IsTable(recordedAs) /\ IsTable(results)
    /\ tracked \in SUBSET LocalRange
    /\ resolvedCount \in [LocalRange -> Nat] /\ dispatchedCount \in [LocalRange -> Nat]
    /\ snapshotTaken \in [LocalRange -> BOOLEAN] /\ staleMark \in [LocalRange -> BOOLEAN]
    /\ buffer \in Seq(Item)
    /\ prefetcher \in [pc : {"waiting", "claiming", "adding", "stopped"}, room : Nat,
                       items : SUBSET (Item \cup LocalRange)]
    /\ dispatcher \in {"idle", "permit", "stopped"}
    /\ handlers \in SUBSET HandlerOf
    /\ \A g \in handlers : g.pc # "start" => g.kind # "none"
    /\ runnerAt \in {"running", "cancelled", "closing", "closed"}

\* The items no handler has taken: being added, or in the queue.
Adding == IF prefetcher.pc = "adding" THEN prefetcher.items ELSE {}
Queued == {buffer[k] : k \in DOMAIN buffer}
Pending == Adding \cup Queued

\* An item is enqueued once, from one place.
QueueInv ==
    /\ Adding \subseteq Item
    /\ \A k, l \in DOMAIN buffer : buffer[k] = buffer[l] => k = l
    /\ \A k \in DOMAIN buffer : buffer[k] \notin Adding

Out(x) == results[x[1]][x[2]]
Early(g) == g.pc \in {"start", "lookup", "write"}
Held(x) == \E g \in handlers : g.item = x
Reached(x) == x \in Pending \/ Held(x) \/ Out(x) # "none"

\* Every item is in one place, and of a key's chain one item is: those before
\* it are resolved, those behind it have not been reached.
JobsInv ==
    /\ \A g, h \in handlers : g.item = h.item => g = h
    /\ \A x \in Pending : ~Held(x) /\ Out(x) = "none"
    /\ \A g \in handlers : Early(g) <=> Out(g.item) = "none"
    /\ \A r \in LocalRange : \A i, j \in Position(r) :
         Behind[r][i] = j /\ Reached(<<r, j>>) =>
             Out(<<r, i>>) # "none" /\ <<r, i>> \notin Pending /\ ~Held(<<r, i>>)
    /\ \A r \in LocalRange : leaseOf[r] = "unclaimed" =>
         \A i \in Position(r) : ~Reached(<<r, i>>)

\* The messages whose result is written and counted.
Counted(r) ==
    {i \in Position(r) : /\ Out(<<r, i>>) # "none"
                         /\ \A g \in handlers : g.item = <<r, i>> => g.pc # "count"}
CountInv == \A r \in LocalRange : resolvedCount[r] = Cardinality(Counted(r))

AllResolved(r) == \A i \in Position(r) : Out(<<r, i>>) # "none"
CommitInv ==
    /\ \A g \in handlers : g.pc = "commit" => snapshotTaken[g.item[1]] /\ AllResolved(g.item[1])
    /\ \A g, h \in handlers : g.pc = "commit" /\ h.pc = "commit" /\ g.item[1] = h.item[1] => g = h

\* What a range that was dispatched shows of it.
DispatchInv ==
    /\ dispatcher # "stopped" => \A x \in Pending : x[1] \in tracked
    /\ \A g \in handlers : dispatchedCount[g.item[1]] > 0
    /\ \A r \in LocalRange : \A i \in Position(r) : Out(<<r, i>>) # "none" => dispatchedCount[r] > 0

\* A range is given back when nothing will be dispatched any more.
CloseInv ==
    /\ runnerAt \in {"closing", "closed"} => dispatcher = "stopped" /\ prefetcher.pc = "stopped"
    /\ runnerAt = "closing" => prefetcher.items \subseteq LocalRange
    /\ \A r \in LocalRange : leaseOf[r] = "surrendered" =>
         runnerAt \in {"closing", "closed"} /\ dispatchedCount[r] = 0

RoomInv ==
    /\ prefetcher.pc = "claiming" => prefetcher.room + Len(buffer) <= QueueSize
    /\ prefetcher.pc = "adding" => IsFiniteSet(prefetcher.items)
    /\ AddedRangeFits

BufferInv ==
    /\ BufferType /\ QueueInv /\ JobsInv /\ CountInv /\ CommitInv /\ DispatchInv
    /\ CloseInv /\ RoomInv /\ CoveredIsResolved

\* The parts of the invariant say what the run checks.
LEMMA BufferSafe == BufferInv => CoveredIsResolved /\ OneCommitterPerRange /\ AddedRangeFits
  <1> SUFFICES ASSUME BufferInv PROVE OneCommitterPerRange
    BY DEF BufferInv, RoomInv
  <1> SUFFICES ASSUME NEW r \in LocalRange
               PROVE  /\ Cardinality({g \in handlers : g.item[1] = r /\ g.pc = "commit"}) <= 1
                      /\ leaseOf[r] = "surrendered" =>
                           /\ results[r] = NoResults(r)
                           /\ \A g \in handlers : g.item[1] # r
    BY DEF OneCommitterPerRange
  <1>1. Cardinality({g \in handlers : g.item[1] = r /\ g.pc = "commit"}) <= 1
    <2> DEFINE S == {g \in handlers : g.item[1] = r /\ g.pc = "commit"}
    <2>1. \A g, h \in S : g = h
      BY DEF BufferInv, CommitInv
    <2> HIDE DEF S
    <2>2. CASE S = {}
      BY <2>2, FS_EmptySet DEF S
    <2>3. CASE S # {}
      <3>1. PICK g : S = {g}
        BY <2>1, <2>3
      <3>2. Cardinality(S) = 1
        BY <3>1, FS_Singleton
      <3>. QED BY <3>2 DEF S
    <2>. QED BY <2>2, <2>3
  <1>2. ASSUME leaseOf[r] = "surrendered"
        PROVE  results[r] = NoResults(r) /\ \A g \in handlers : g.item[1] # r
    <2>1. dispatchedCount[r] = 0
      BY <1>2 DEF BufferInv, CloseInv
    <2>2. \A i \in Position(r) : results[r][i] = "none"
      BY <2>1 DEF BufferInv, DispatchInv, Out
    <2>3. results[r] \in [Position(r) -> Outcome]
      BY DEF BufferInv, BufferType, IsTable
    <2>4. results[r] = NoResults(r)
      BY <2>2, <2>3 DEF NoResults
    <2>. QED BY <2>1, <2>4 DEF BufferInv, DispatchInv
  <1>. QED BY <1>1, <1>2

\* The two parts of an item.
LEMMA ItemParts ==
  /\ \A x \in Item : x[1] \in LocalRange /\ x[2] \in Position(x[1]) /\ x = <<x[1], x[2]>>
  /\ \A r \in LocalRange : \A i \in Position(r) : <<r, i>> \in Item
  BY ClaimBufferBounds DEF Item, Position

\* Nothing is reached that was not.
LEMMA JobsStand ==
  ASSUME JobsInv, UNCHANGED <<results, handlers>>, Pending' \subseteq Pending,
         \A r \in LocalRange : leaseOf'[r] = "unclaimed" => leaseOf[r] = "unclaimed"
  PROVE  JobsInv'
  <1>1. \A x : /\ Out(x)' = Out(x) /\ (Held(x)' <=> Held(x)) /\ (Reached(x)' => Reached(x))
    BY DEF Out, Held, Reached
  <1>2. \A g : Early(g)' <=> Early(g)
    BY DEF Early
  <1>3. \A g, h \in handlers' : g.item = h.item => g = h
    BY DEF JobsInv
  <1>4. \A x \in Pending' : ~Held(x)' /\ Out(x)' = "none"
    BY <1>1 DEF JobsInv
  <1>5. \A g \in handlers' : Early(g)' <=> Out(g.item)' = "none"
    BY <1>1, <1>2 DEF JobsInv
  <1>6. \A r \in LocalRange : \A i, j \in Position(r) :
          Behind[r][i] = j /\ Reached(<<r, j>>)' =>
             Out(<<r, i>>)' # "none" /\ <<r, i>> \notin Pending' /\ ~Held(<<r, i>>)'
    BY <1>1 DEF JobsInv
  <1>7. \A r \in LocalRange : leaseOf'[r] = "unclaimed" => \A i \in Position(r) : ~Reached(<<r, i>>)'
    BY <1>1 DEF JobsInv
  <1>8. \A r : Position(r)' = Position(r)
    BY DEF Position
  <1>. QED BY <1>3, <1>4, <1>5, <1>6, <1>7, <1>8 DEF JobsInv

\* A handler goes on with its item, takes the next of its key, or leaves.
Successors(g, H) ==
    /\ \A h, k \in H : h = k
    /\ \A h \in H :
         \/ h.item = g.item /\ (Early(h) <=> Early(g))
         \/ HasSuccessor(g) /\ h.item = Successor(g) /\ Early(h) /\ ~Early(g)

\* The message behind another one is a later one of its range.
LEMMA NextOfKeyIs ==
  ASSUME NEW g \in HandlerOf, HasSuccessor(g)
  PROVE  /\ Successor(g) \in Item /\ Successor(g)[1] = g.item[1]
         /\ Behind[g.item[1]][g.item[2]] = Successor(g)[2]
         /\ Successor(g)[2] \in Position(g.item[1])
  <1>1. g.item[1] \in LocalRange /\ g.item[2] \in Position(g.item[1])
    BY ItemParts DEF HandlerOf
  <1>2. PICK j : j = Behind[g.item[1]][g.item[2]]
    OBVIOUS
  <1>3. j \in Position(g.item[1])
    BY <1>1, <1>2, ClaimBufferBounds DEF HasSuccessor, Position
  <1>. QED BY <1>1, <1>2, <1>3, ItemParts DEF Successor

\* A handler that goes leaves its work to the next one of its key, if any.
LEMMA HandlerPasses ==
  ASSUME BufferType, JobsInv, NEW g \in handlers, NEW H \in SUBSET HandlerOf, Successors(g, H),
         handlers' = (handlers \ {g}) \cup H,
         UNCHANGED results, Pending' = Pending,
         \A r \in LocalRange : leaseOf'[r] = "unclaimed" => leaseOf[r] = "unclaimed"
  PROVE  JobsInv'
  <1>t. handlers \subseteq HandlerOf /\ g \in HandlerOf /\ g.item \in Item
    BY DEF BufferType, HandlerOf
  <1>1. \A x : Out(x)' = Out(x)
    BY DEF Out
  <1>2. \A h : Early(h)' <=> Early(h)
    BY DEF Early
  <1>3. \A r : Position(r)' = Position(r)
    BY DEF Position
  <1>4. Held(g.item) /\ g.item \notin Pending
    BY DEF Held, JobsInv
  \* A successor has not been reached.
  <1>s. ASSUME HasSuccessor(g) PROVE ~Reached(Successor(g)) /\ Successor(g) # g.item
    <2>1. PICK r \in LocalRange : \E i \in Position(r) : g.item = <<r, i>> /\ r = g.item[1] /\ i = g.item[2]
      BY <1>t, ItemParts
    <2>2. PICK i \in Position(r) : g.item = <<r, i>> /\ r = g.item[1] /\ i = g.item[2]
      BY <2>1
    <2>3. PICK j \in Position(r) : Successor(g) = <<r, j>> /\ Behind[r][i] = j
      BY <1>t, <1>s, <2>2, NextOfKeyIs, ItemParts
    <2>4. ~Reached(<<r, j>>)
      BY <1>4, <2>2, <2>3 DEF JobsInv
    <2>. QED BY <1>4, <2>3, <2>4 DEF Reached
  <1>5. ASSUME NEW h \in H, h.item # g.item
        PROVE  /\ h.item = Successor(g) /\ HasSuccessor(g) /\ Early(h) /\ ~Early(g)
               /\ ~Reached(h.item)
    BY <1>5, <1>s DEF Successors
  <1>6. \A h \in H : h.item = g.item => (Early(h) <=> Early(g))
    BY <1>s DEF Successors
  <1>7. \A x : x # g.item /\ Held(x)' => Held(x) \/ \E h \in H : h.item = x /\ ~Reached(x)
    BY <1>5 DEF Held
  <1>8. \A h \in handlers', k \in handlers' : h.item = k.item => h = k
    <2>1. \A h \in handlers \ {g} : h.item # g.item /\ \A k \in H : h.item # k.item
      BY <1>5 DEF JobsInv, Held, Reached
    <2>2. \A h, k \in H : h = k
      BY DEF Successors
    <2>3. \A h, k \in handlers : h.item = k.item => h = k
      BY DEF JobsInv
    <2>. QED BY <2>1, <2>2, <2>3
  <1>9. \A x \in Pending' : ~Held(x)' /\ Out(x)' = "none"
    BY <1>1, <1>4, <1>7 DEF JobsInv, Reached
  <1>10. \A h \in handlers' : Early(h)' <=> Out(h.item)' = "none"
    <2>1. \A h \in handlers : Early(h) <=> Out(h.item) = "none"
      BY DEF JobsInv
    <2>2. ASSUME NEW h \in H PROVE Early(h) <=> Out(h.item) = "none"
      <3>1. CASE h.item = g.item
        BY <1>6, <2>1, <3>1
      <3>2. CASE h.item # g.item
        BY <1>5, <3>2 DEF Reached
      <3>. QED BY <3>1, <3>2
    <2>. QED BY <1>1, <1>2, <2>1, <2>2
  <1>11. ASSUME NEW r \in LocalRange, NEW i \in Position(r), NEW j \in Position(r),
                Behind[r][i] = j, Reached(<<r, j>>)'
         PROVE  Out(<<r, i>>)' # "none" /\ <<r, i>> \notin Pending' /\ ~Held(<<r, i>>)'
    <2>1. CASE Reached(<<r, j>>)
      <3>1. Out(<<r, i>>) # "none" /\ <<r, i>> \notin Pending /\ ~Held(<<r, i>>)
        BY <1>11, <2>1 DEF JobsInv
      <3>2. <<r, i>> # g.item
        BY <1>4, <3>1
      <3>3. ~Held(<<r, i>>)'
        BY <1>7, <3>1, <3>2 DEF Reached
      <3>. QED BY <1>1, <3>1, <3>3
    <2>2. CASE ~Reached(<<r, j>>)
      <3>1. Held(<<r, j>>)' /\ ~Held(<<r, j>>)
        BY <1>1, <1>11, <2>2 DEF Reached
      <3>2. PICK h \in H : h.item = <<r, j>>
        BY <1>4, <1>7, <3>1
      <3>3. h.item # g.item
        BY <1>4, <3>1, <3>2
      <3>4. h.item = Successor(g) /\ HasSuccessor(g) /\ ~Early(g)
        BY <1>5, <3>3
      <3>5. /\ g.item = <<g.item[1], g.item[2]>> /\ g.item[1] \in LocalRange
            /\ g.item[2] \in Position(g.item[1])
        BY <1>t, ItemParts
      <3>6. g.item[1] = r /\ Behind[r][g.item[2]] = j /\ j # 0
        <4>1. /\ Successor(g)[1] = g.item[1] /\ Behind[g.item[1]][g.item[2]] = Successor(g)[2]
          BY <1>t, <3>4, NextOfKeyIs
        <4>2. Successor(g)[1] = r /\ Successor(g)[2] = j
          BY <3>2, <3>4
        <4>. QED BY <3>4, <4>1, <4>2 DEF HasSuccessor
      <3>7. g.item = <<r, i>>
        BY <1>11, <3>5, <3>6, ClaimBufferBounds DEF Position
      <3>8. Out(<<r, i>>) # "none" /\ <<r, i>> \notin Pending
        BY <1>4, <3>4, <3>7 DEF JobsInv
      <3>9. ~Held(<<r, i>>)'
        <4>1. \A k \in handlers \ {g} : k.item # g.item
          BY DEF JobsInv
        <4>2. \A k \in H : k = h
          BY DEF Successors
        <4>. QED BY <3>3, <3>7, <4>1, <4>2 DEF Held
      <3>. QED BY <1>1, <3>8, <3>9
    <2>. QED BY <2>1, <2>2
  <1>12. ASSUME NEW r \in LocalRange, leaseOf'[r] = "unclaimed", NEW i \in Position(r)
         PROVE  ~Reached(<<r, i>>)'
    <2>1. \A j \in Position(r) : ~Reached(<<r, j>>)
      BY <1>12 DEF JobsInv
    <2>2. g.item[1] # r
      BY <1>4, <1>t, <2>1, ItemParts DEF Reached
    <2>3. \A h \in H : h.item[1] # r
      BY <1>t, <1>5, <2>2, NextOfKeyIs
    <2>4. ~Held(<<r, i>>)'
      BY <1>7, <2>1, <2>2, <2>3 DEF Reached
    <2>. QED BY <1>1, <2>1, <2>4 DEF Reached
  <1>. QED BY <1>3, <1>8, <1>9, <1>10, <1>11, <1>12 DEF JobsInv

\* A step no handler takes, that reaches nothing.
LEMMA QuietStep ==
  ASSUME BufferInv, Pending' \subseteq Pending,
         UNCHANGED <<results, handlers, resolvedCount, dispatchedCount, snapshotTaken>>,
         \A r \in LocalRange : leaseOf'[r] = "unclaimed" => leaseOf[r] = "unclaimed",
         dispatcher' # "stopped" => dispatcher # "stopped" /\ tracked \subseteq tracked'
  PROVE  JobsInv' /\ CountInv' /\ CommitInv' /\ DispatchInv'
  <1>1. JobsInv'
    BY JobsStand DEF BufferInv
  <1>2. /\ \A x : Out(x)' = Out(x)
        /\ \A r : Position(r)' = Position(r)
    BY DEF Out, Position
  <1>3. CountInv'
    <2>1. \A r : Counted(r)' = Counted(r)
      BY <1>2 DEF Counted
    <2>. QED BY <2>1 DEF BufferInv, CountInv
  <1>4. CommitInv'
    BY <1>2 DEF BufferInv, CommitInv, AllResolved
  <1>5. DispatchInv'
    BY <1>2 DEF BufferInv, DispatchInv
  <1>. QED BY <1>1, <1>3, <1>4, <1>5

\* What the ranges' commits cover stands.
LEMMA CoveredStands ==
  CoveredIsResolved /\ UNCHANGED <<settledTo, recordedAs, results>> => CoveredIsResolved'
  BY DEF CoveredIsResolved, Position

\* An item joins the queue at its end.
LEMMA QueueGrows ==
  ASSUME buffer \in Seq(Item), NEW x \in Item, buffer' = Append(buffer, x)
  PROVE  /\ buffer' \in Seq(Item) /\ Len(buffer') = Len(buffer) + 1 /\ Len(buffer) \in Nat
         /\ Queued' = Queued \cup {x}
         /\ x \notin Queued /\ (\A k, l \in DOMAIN buffer : buffer[k] = buffer[l] => k = l) =>
              \A k, l \in DOMAIN buffer' : buffer'[k] = buffer'[l] => k = l
  <1> DEFINE n == Len(buffer)
  <1>1. n \in Nat /\ DOMAIN buffer = 1 .. n
    BY LenProperties
  <1>2. buffer' \in Seq(Item) /\ Len(buffer') = n + 1 /\ DOMAIN buffer' = 1 .. n + 1
    BY <1>1, AppendProperties
  <1>3. (\A k \in 1 .. n : buffer'[k] = buffer[k]) /\ buffer'[n + 1] = x
    BY <1>1, AppendProperties
  <1> HIDE DEF n
  <1>4. \A k \in 1 .. n + 1 : k \in 1 .. n \/ k = n + 1
    BY <1>1
  <1>5. n + 1 \in 1 .. n + 1 /\ 1 .. n \subseteq 1 .. n + 1
    BY <1>1
  <1>6. Queued' = Queued \cup {x}
    BY <1>1, <1>2, <1>3, <1>4, <1>5 DEF Queued
  <1>7. ASSUME x \notin Queued, \A k, l \in DOMAIN buffer : buffer[k] = buffer[l] => k = l
        PROVE  \A k, l \in DOMAIN buffer' : buffer'[k] = buffer'[l] => k = l
    <2>1. \A k \in 1 .. n : buffer[k] # x
      BY <1>1, <1>7 DEF Queued
    <2>. QED BY <1>1, <1>2, <1>3, <1>4, <1>7, <2>1
  <1>. QED BY <1>1, <1>2, <1>6, <1>7 DEF n

\* An item leaves the queue at its head.
LEMMA QueueShrinks ==
  ASSUME buffer \in Seq(Item), buffer # <<>>, buffer' = Tail(buffer),
         \A k, l \in DOMAIN buffer : buffer[k] = buffer[l] => k = l
  PROVE  /\ buffer' \in Seq(Item) /\ Len(buffer') = Len(buffer) - 1 /\ Len(buffer) \in Nat
         /\ Head(buffer) \in Queued /\ Head(buffer) \in Item
         /\ Queued' = Queued \ {Head(buffer)}
         /\ \A k, l \in DOMAIN buffer' : buffer'[k] = buffer'[l] => k = l
  <1> DEFINE n == Len(buffer)
  <1>1. n \in Nat /\ DOMAIN buffer = 1 .. n /\ n > 0
    BY LenProperties, EmptySeq
  <1>2. /\ buffer' \in Seq(Item) /\ Len(buffer') = n - 1 /\ Head(buffer) \in Item
        /\ \A k \in 1 .. Len(Tail(buffer)) : Tail(buffer)[k] = buffer[k + 1]
    BY HeadTailProperties
  <1>3. DOMAIN buffer' = 1 .. n - 1 /\ \A k \in 1 .. n - 1 : buffer'[k] = buffer[k + 1]
    BY <1>1, <1>2, LenProperties
  <1>4. Head(buffer) = buffer[1] /\ 1 \in 1 .. n
    BY <1>1
  <1> HIDE DEF n
  <1>5. \A k \in 1 .. n : k = 1 \/ (k - 1 \in 1 .. n - 1 /\ (k - 1) + 1 = k)
    BY <1>1
  <1>6. \A k \in 1 .. n - 1 : k + 1 \in 1 .. n /\ k + 1 # 1
    BY <1>1
  <1>7. Head(buffer) \in Queued
    BY <1>1, <1>4 DEF Queued
  <1>8. Queued' = Queued \ {Head(buffer)}
    <2>1. ASSUME NEW x \in Queued' PROVE x \in Queued \ {Head(buffer)}
      <3>1. PICK k \in 1 .. n - 1 : x = buffer[k + 1]
        BY <1>3 DEF Queued
      <3>2. k + 1 \in 1 .. n /\ buffer[k + 1] # buffer[1]
        BY <1>1, <1>4, <1>6
      <3>. QED BY <1>1, <1>4, <3>1, <3>2 DEF Queued
    <2>2. ASSUME NEW x \in Queued, x # Head(buffer) PROVE x \in Queued'
      <3>1. PICK k \in 1 .. n : x = buffer[k]
        BY <1>1 DEF Queued
      <3>2. k - 1 \in 1 .. n - 1 /\ (k - 1) + 1 = k
        BY <1>4, <1>5, <2>2, <3>1
      <3>3. buffer'[k - 1] = x
        BY <1>3, <3>1, <3>2
      <3>. QED BY <1>3, <3>2, <3>3 DEF Queued
    <2>. QED BY <2>1, <2>2
  <1>9. ASSUME NEW k \in 1 .. n - 1, NEW l \in 1 .. n - 1, buffer[k + 1] = buffer[l + 1] PROVE k = l
    <2>1. k + 1 = l + 1
      BY <1>1, <1>6, <1>9
    <2>. QED BY <2>1
  <1>. QED BY <1>1, <1>2, <1>3, <1>7, <1>8, <1>9 DEF n

\* Prefetch and the signals of a shutdown.
LEMMA PrefetchStep ==
  ASSUME BufferInv,
         WaitForRoom \/ ClaimNothing \/ StopPrefetch \/ AcquirePermit \/ StopDispatch
           \/ CancelRunner \/ RunnerReturns \/ \E r \in LocalRange : LoseLease(r)
  PROVE  BufferInv'
  <1>t. BufferType
    BY DEF BufferInv
  <1>0. Len(buffer) \in Nat
    BY <1>t, LenProperties DEF BufferType
  <1>1. /\ UNCHANGED <<settledTo, recordedAs, rangeVars, buffer, handlers>>
        /\ \A r \in LocalRange : leaseOf'[r] = "unclaimed" => leaseOf[r] = "unclaimed"
        /\ \A r \in LocalRange : leaseOf'[r] = "surrendered" => leaseOf[r] = "surrendered"
        /\ dispatcher' # "stopped" => dispatcher # "stopped"
    BY <1>t
    DEF WaitForRoom, ClaimNothing, StopPrefetch, AcquirePermit, StopDispatch, CancelRunner,
        RunnerReturns, LoseLease, leaseVars, BufferType
  <1>p. /\ prefetcher' \in [pc : {"waiting", "claiming", "adding", "stopped"}, room : Nat,
                            items : SUBSET (Item \cup LocalRange)]
        /\ \/ prefetcher'.pc \in {"waiting", "stopped"}
           \/ prefetcher' = prefetcher
           \/ prefetcher'.pc = "claiming" /\ prefetcher'.room = QueueSize - Len(buffer)
    <2>1. CASE WaitForRoom
      <3>1. prefetcher' = [prefetcher EXCEPT !.pc = "claiming", !.room = QueueSize - Len(buffer)]
        BY <2>1 DEF WaitForRoom
      <3>2. QueueSize - Len(buffer) \in Nat
        BY <1>0, <2>1, ClaimBufferBounds DEF WaitForRoom
      <3>. QED BY <1>t, <3>1, <3>2 DEF BufferType
    <2>2. CASE ClaimNothing
      BY <2>2 DEF ClaimNothing, PrefetchWaits
    <2>3. CASE StopPrefetch
      <3>1. prefetcher' = [PrefetchWaits EXCEPT !.pc = "stopped"]
        BY <2>3 DEF StopPrefetch
      <3>2. PrefetchWaits \in [pc : {"waiting", "claiming", "adding", "stopped"}, room : Nat,
                               items : SUBSET (Item \cup LocalRange)]
        BY DEF PrefetchWaits
      <3>. QED BY <3>1, <3>2
    <2>4. CASE UNCHANGED prefetcher
      BY <1>t, <2>4 DEF BufferType
    <2>. QED
      BY <2>1, <2>2, <2>3, <2>4
      DEF AcquirePermit, StopDispatch, CancelRunner, RunnerReturns, LoseLease
  <1>2. Adding' \subseteq Adding /\ Queued' = Queued
    <2>1. Adding' \subseteq Adding
      BY <1>p DEF Adding
    <2>. QED BY <1>1, <2>1 DEF Queued
  <1>3. JobsInv' /\ CountInv' /\ CommitInv' /\ DispatchInv'
    BY <1>1, <1>2, QuietStep DEF rangeVars, Pending
  <1>4. BufferType'
    <2>1. /\ leaseOf' \in [LocalRange -> {"unclaimed", "live", "freed", "lost", "surrendered"}]
          /\ dispatcher' \in {"idle", "permit", "stopped"}
          /\ runnerAt' \in {"running", "cancelled", "closing", "closed"}
      BY <1>t
      DEF WaitForRoom, ClaimNothing, StopPrefetch, AcquirePermit, StopDispatch, CancelRunner,
          RunnerReturns, LoseLease, leaseVars, BufferType
    <2>. QED BY <1>t, <1>1, <1>p, <2>1 DEF BufferType, rangeVars, IsTable, Position
  <1>5. QueueInv'
    BY <1>1, <1>2 DEF BufferInv, QueueInv
  <1>6. CloseInv'
    <2>1. \/ UNCHANGED <<dispatcher, prefetcher, runnerAt>>
          \/ runnerAt' \in {"running", "cancelled"}
          \/ runnerAt' \in {"closing", "closed"} /\ runnerAt = "closing" /\ UNCHANGED <<dispatcher, prefetcher>>
             /\ runnerAt' = "closed"
          \/ UNCHANGED <<runnerAt, prefetcher>> /\ dispatcher # "stopped"
          \/ UNCHANGED <<runnerAt, dispatcher>> /\ prefetcher.pc # "stopped"
      BY <1>t
      DEF WaitForRoom, ClaimNothing, StopPrefetch, AcquirePermit, StopDispatch, CancelRunner,
          RunnerReturns, LoseLease, BufferType
    <2>2. \A r \in LocalRange : leaseOf'[r] = "surrendered" =>
            runnerAt \in {"closing", "closed"} /\ dispatchedCount'[r] = 0
      BY <1>1 DEF BufferInv, CloseInv, rangeVars
    <2>3. runnerAt \in {"closing", "closed"} => runnerAt' \in {"closing", "closed"}
      BY DEF WaitForRoom, ClaimNothing, StopPrefetch, AcquirePermit, StopDispatch, CancelRunner,
             RunnerReturns, LoseLease
    <2>. QED BY <2>1, <2>2, <2>3 DEF BufferInv, CloseInv
  <1>7. RoomInv'
    <2>2. CASE prefetcher'.pc \in {"waiting", "stopped"}
      BY <2>2 DEF RoomInv, AddedRangeFits
    <2>3. CASE prefetcher' = prefetcher
      BY <1>1, <2>3 DEF BufferInv, RoomInv, AddedRangeFits
    <2>4. CASE prefetcher'.pc = "claiming" /\ prefetcher'.room = QueueSize - Len(buffer)
      <3>1. prefetcher'.room + Len(buffer') <= QueueSize
        BY <1>0, <1>1, <2>4, ClaimBufferBounds
      <3>. QED BY <2>4, <3>1 DEF RoomInv, AddedRangeFits
    <2>. QED BY <1>p, <2>2, <2>3, <2>4
  <1>8. CoveredIsResolved'
    BY <1>1, CoveredStands DEF BufferInv, rangeVars
  <1>. QED BY <1>3, <1>4, <1>5, <1>6, <1>7, <1>8 DEF BufferInv

\* A claimed range: the first item of every key's chain is added.
LEMMA ClaimIntoStep ==
  ASSUME BufferInv, NEW r \in LocalRange, ClaimInto(r)
  PROVE  BufferInv'
  <1> DEFINE New == {<<r, i>> : i \in ChainHeads(r)}
  <1>t. BufferType
    BY DEF BufferInv
  <1>j. JobsInv
    BY DEF BufferInv
  <1>0. Len(buffer) \in Nat
    BY <1>t, LenProperties DEF BufferType
  <1>1. /\ prefetcher.pc = "claiming" /\ leaseOf[r] = "unclaimed"
        /\ leaseOf' = [leaseOf EXCEPT ![r] = "live"]
        /\ tracked' = tracked \cup {r}
        /\ prefetcher' = [pc |-> "adding", room |-> 0, items |-> New]
        /\ UNCHANGED <<settledTo, recordedAs, results, resolvedCount, dispatchedCount,
                       snapshotTaken, staleMark, buffer, dispatcher, handlers, runnerAt>>
    BY DEF ClaimInto
  <1>2. ChainHeads(r) \subseteq Position(r) /\ New \subseteq Item
    BY ItemParts DEF ChainHeads
  <1>3. /\ \A x : Out(x)' = Out(x) /\ (Held(x)' <=> Held(x))
        /\ \A p : Position(p)' = Position(p)
    BY <1>1 DEF Out, Position, Held
  <1>4. Adding = {} /\ Adding' = New /\ Queued' = Queued
    BY <1>1 DEF Adding, Queued
  <1>5. \A i \in Position(r) : ~Reached(<<r, i>>)
    BY <1>1, <1>j DEF JobsInv
  <1>6. \A x \in New : ~Reached(x) /\ x[1] = r
    BY <1>2, <1>5
  <1> HIDE DEF New
  <1>7. Pending' = Pending \cup New
    BY <1>4 DEF Pending
  <1>8. \A x : Reached(x)' => Reached(x) \/ x \in New
    BY <1>3, <1>7 DEF Reached
  <1>9. JobsInv'
    <2>1. \A g, h \in handlers' : g.item = h.item => g = h
      BY <1>1, <1>j DEF JobsInv
    <2>2. \A x \in Pending' : ~Held(x)' /\ Out(x)' = "none"
      BY <1>3, <1>6, <1>7, <1>j DEF JobsInv, Reached
    <2>3. \A g \in handlers' : Early(g)' <=> Out(g.item)' = "none"
      BY <1>1, <1>3, <1>j DEF JobsInv, Early
    <2>4. ASSUME NEW p \in LocalRange, NEW i \in Position(p), NEW j \in Position(p),
                 Behind[p][i] = j, Reached(<<p, j>>)'
          PROVE  Out(<<p, i>>)' # "none" /\ <<p, i>> \notin Pending' /\ ~Held(<<p, i>>)'
      <3>1. <<p, j>> \notin New
        BY <2>4 DEF New, ChainHeads
      <3>2. Reached(<<p, j>>)
        BY <1>8, <2>4, <3>1
      <3>3. p # r
        BY <1>5, <3>2
      <3>4. <<p, i>> \notin New
        BY <3>3 DEF New
      <3>5. Out(<<p, i>>) # "none" /\ <<p, i>> \notin Pending /\ ~Held(<<p, i>>)
        BY <1>j, <2>4, <3>2 DEF JobsInv
      <3>. QED BY <1>3, <1>7, <3>4, <3>5
    <2>5. ASSUME NEW p \in LocalRange, leaseOf'[p] = "unclaimed", NEW i \in Position(p)
          PROVE  ~Reached(<<p, i>>)'
      <3>1. p # r /\ leaseOf[p] = "unclaimed"
        BY <1>1, <1>t, <2>5 DEF BufferType
      <3>2. ~Reached(<<p, i>>) /\ <<p, i>> \notin New
        BY <1>j, <3>1 DEF JobsInv, New
      <3>. QED BY <1>8, <3>2
    <2>. QED BY <1>3, <2>1, <2>2, <2>3, <2>4, <2>5 DEF JobsInv
  <1>10. CountInv'
    <2>1. \A p : Counted(p)' = Counted(p)
      BY <1>1, <1>3 DEF Counted
    <2>. QED BY <1>1, <2>1 DEF BufferInv, CountInv
  <1>11. CommitInv'
    BY <1>1, <1>3 DEF BufferInv, CommitInv, AllResolved
  <1>12. DispatchInv'
    <2>1. dispatcher' # "stopped" => \A x \in Pending' : x[1] \in tracked'
      BY <1>1, <1>6, <1>7 DEF BufferInv, DispatchInv
    <2>. QED BY <1>1, <1>3, <2>1 DEF BufferInv, DispatchInv
  <1>13. CloseInv'
    <2>1. runnerAt \notin {"closing", "closed"}
      BY <1>1 DEF BufferInv, CloseInv
    <2>2. \A p \in LocalRange : leaseOf'[p] = "surrendered" => leaseOf[p] = "surrendered"
      BY <1>1, <1>t DEF BufferType
    <2>. QED BY <1>1, <2>1, <2>2 DEF BufferInv, CloseInv
  <1>14. RoomInv'
    <2>1. Size[r] \in Nat /\ Position(r) = 1 .. Size[r] /\ IsFiniteSet(Position(r))
          /\ Cardinality(Position(r)) = Size[r]
      BY ClaimBufferBounds, FS_Interval DEF Position
    <2>2. /\ IsFiniteSet(ChainHeads(r)) /\ Cardinality(ChainHeads(r)) <= Size[r]
          /\ Cardinality(ChainHeads(r)) \in Nat
      BY <1>2, <2>1, FS_Subset, FS_CardinalityType
    <2>3. /\ IsFiniteSet(New) /\ Cardinality(New) <= Cardinality(ChainHeads(r))
          /\ Cardinality(New) \in Nat
      <3> DEFINE f == [i \in ChainHeads(r) |-> <<r, i>>]
      <3>1. f \in Surjection(ChainHeads(r), New)
        BY DEF Surjection, New
      <3> HIDE DEF f
      <3>. QED BY <2>2, <3>1, FS_Surjection, FS_CardinalityType
    <2>4. ASSUME r \notin Expired
          PROVE  /\ prefetcher.room \in Nat /\ prefetcher.room + Len(buffer) <= QueueSize
                 /\ Size[r] <= prefetcher.room
      <3>1. prefetcher.room \in Nat
        BY <1>t DEF BufferType
      <3>2. Size[r] <= ClaimLimit(prefetcher.room)
        BY <2>4 DEF ClaimInto
      <3>3. ClaimLimit(prefetcher.room) <= prefetcher.room /\ ClaimLimit(prefetcher.room) \in Nat
        BY <3>1, ClaimBufferBounds DEF ClaimLimit
      <3>. QED BY <1>1, <2>1, <3>1, <3>2, <3>3 DEF BufferInv, RoomInv
    <2>5. r \notin Expired => Len(buffer') + Cardinality(New) <= QueueSize
      BY <1>0, <1>1, <2>1, <2>2, <2>3, <2>4, ClaimBufferBounds
    <2>6. ASSUME NEW item \in New PROVE item[1] = r
      <3>1. PICK i \in ChainHeads(r) : item = <<r, i>>
        BY DEF New
      <3>. QED BY <3>1
    <2>. QED BY <1>1, <2>3, <2>5, <2>6 DEF RoomInv, AddedRangeFits
  <1>15. CoveredIsResolved'
    BY <1>1, CoveredStands DEF BufferInv
  <1>16. QueueInv'
    <2>1. Queued \cap New = {}
      BY <1>6 DEF Reached, Pending
    <2>2. \A k \in DOMAIN buffer' : buffer'[k] \notin Adding'
      BY <1>1, <1>4, <2>1 DEF Queued
    <2>. QED BY <1>1, <1>2, <1>4, <2>2 DEF BufferInv, QueueInv
  <1>17. BufferType'
    <2>1. leaseOf' \in [LocalRange -> {"unclaimed", "live", "freed", "lost", "surrendered"}]
      BY <1>1, <1>t DEF BufferType
    <2>2. prefetcher' \in [pc : {"waiting", "claiming", "adding", "stopped"}, room : Nat,
                           items : SUBSET (Item \cup LocalRange)]
      BY <1>1, <1>2
    <2>. QED BY <1>1, <1>t, <2>1, <2>2 DEF BufferType, IsTable, Position
  <1>. QED
    BY <1>9, <1>10, <1>11, <1>12, <1>13, <1>14, <1>15, <1>16, <1>17 DEF BufferInv

\* An item goes from prefetch to the queue.
LEMMA EnQueueStep ==
  ASSUME BufferInv, EnQueue
  PROVE  BufferInv'
  <1>t. BufferType
    BY DEF BufferInv
  <1>1. /\ prefetcher.pc = "adding"
        /\ UNCHANGED <<leaseVars, rangeVars, dispatcher, handlers, runnerAt>>
    BY DEF EnQueue
  <1>2. PICK x \in prefetcher.items :
          /\ buffer' = Append(buffer, x)
          /\ prefetcher' = IF prefetcher.items = {x} THEN PrefetchWaits
                           ELSE [prefetcher EXCEPT !.items = @ \ {x}]
    BY DEF EnQueue
  <1>3. Adding = prefetcher.items /\ x \in Item /\ x \in Adding
    BY <1>1 DEF Adding, BufferInv, QueueInv
  <1>4. x \notin Queued
    BY <1>3 DEF BufferInv, QueueInv, Queued
  <1>5. /\ buffer' \in Seq(Item) /\ Len(buffer') = Len(buffer) + 1 /\ Len(buffer) \in Nat
        /\ Queued' = Queued \cup {x}
        /\ \A k, l \in DOMAIN buffer' : buffer'[k] = buffer'[l] => k = l
    BY <1>t, <1>2, <1>3, <1>4, QueueGrows DEF BufferType, BufferInv, QueueInv
  <1>6. /\ prefetcher' \in [pc : {"waiting", "claiming", "adding", "stopped"}, room : Nat,
                            items : SUBSET (Item \cup LocalRange)]
        /\ \/ prefetcher'.pc = "waiting" /\ prefetcher.items = {x}
           \/ prefetcher'.pc = "adding" /\ prefetcher'.items = prefetcher.items \ {x}
    <2>1. CASE prefetcher.items = {x}
      BY <1>2, <2>1 DEF PrefetchWaits
    <2>2. CASE prefetcher.items # {x}
      <3>1. prefetcher' = [prefetcher EXCEPT !.items = prefetcher.items \ {x}]
        BY <1>2, <2>2
      <3>2. prefetcher.items \ {x} \in SUBSET (Item \cup LocalRange)
        BY <1>t DEF BufferType
      <3>. QED BY <1>1, <1>t, <3>1, <3>2 DEF BufferType
    <2>. QED BY <2>1, <2>2
  <1>7. Adding' = Adding \ {x}
    BY <1>3, <1>6 DEF Adding
  <1>8. Pending' = Pending
    BY <1>3, <1>5, <1>7 DEF Pending
  <1>9. JobsInv' /\ CountInv' /\ CommitInv' /\ DispatchInv'
    BY <1>1, <1>8, QuietStep DEF rangeVars, leaseVars
  <1>10. QueueInv'
    <2>1. Adding' \subseteq Item
      BY <1>7 DEF BufferInv, QueueInv
    <2>2. \A y \in Queued' : y \notin Adding'
      BY <1>5, <1>7 DEF BufferInv, QueueInv, Queued
    <2>. QED BY <1>5, <2>1, <2>2 DEF QueueInv, Queued
  <1>11. CloseInv'
    <2>1. runnerAt \notin {"closing", "closed"}
      BY <1>1 DEF BufferInv, CloseInv
    <2>. QED BY <1>1, <2>1 DEF BufferInv, CloseInv, leaseVars
  <1>12. RoomInv'
    <2>1. /\ IsFiniteSet(prefetcher.items)
          /\ (\E item \in prefetcher.items : item[1] \notin Expired)
               => Len(buffer) + Cardinality(prefetcher.items) <= QueueSize
      BY <1>1 DEF BufferInv, RoomInv, AddedRangeFits
    <2>2. CASE prefetcher'.pc = "waiting"
      BY <2>2 DEF RoomInv, AddedRangeFits
    <2>3. CASE prefetcher'.pc = "adding" /\ prefetcher'.items = prefetcher.items \ {x}
      <3>1. /\ IsFiniteSet(prefetcher'.items)
            /\ Cardinality(prefetcher'.items) = Cardinality(prefetcher.items) - 1
            /\ Cardinality(prefetcher.items) \in Nat
        BY <2>1, <2>3, FS_RemoveElement, FS_CardinalityType
      <3>2. (\E item \in prefetcher'.items : item[1] \notin Expired)
              => Len(buffer') + Cardinality(prefetcher'.items) <= QueueSize
        BY <1>5, <2>1, <2>3, <3>1, ClaimBufferBounds
      <3>. QED BY <2>3, <3>1, <3>2 DEF RoomInv, AddedRangeFits
    <2>. QED BY <1>6, <2>2, <2>3
  <1>13. CoveredIsResolved'
    BY <1>1, CoveredStands DEF BufferInv, rangeVars, leaseVars
  <1>14. BufferType'
    BY <1>1, <1>5, <1>6, <1>t DEF BufferType, IsTable, Position, leaseVars, rangeVars
  <1>. QED BY <1>9, <1>10, <1>11, <1>12, <1>13, <1>14 DEF BufferInv

\* The queue's first item gets a handler.
LEMMA DispatchStep ==
  ASSUME BufferInv, Dispatch
  PROVE  BufferInv'
  <1>t. BufferType
    BY DEF BufferInv
  <1>j. JobsInv
    BY DEF BufferInv
  <1>1. PICK x : x = Head(buffer)
    OBVIOUS
  <1>2. PICK h : h = Handler(x, "start", "none")
    OBVIOUS
  <1>3. /\ dispatcher = "permit" /\ buffer # <<>> /\ buffer' = Tail(buffer)
        /\ dispatcher' = "idle" /\ handlers' = handlers \cup {h}
        /\ dispatchedCount' = [dispatchedCount EXCEPT ![x[1]] = IF x[1] \in tracked THEN @ + 1 ELSE @]
        /\ UNCHANGED <<leaseVars, tracked, results, resolvedCount, snapshotTaken, staleMark,
                       prefetcher, runnerAt>>
    BY <1>1, <1>2 DEF Dispatch, CountDispatch
  <1>4. /\ buffer' \in Seq(Item) /\ Len(buffer') = Len(buffer) - 1 /\ Len(buffer) \in Nat
        /\ x \in Queued /\ x \in Item
        /\ Queued' = Queued \ {x}
        /\ \A k, l \in DOMAIN buffer' : buffer'[k] = buffer'[l] => k = l
    BY <1>t, <1>1, <1>3, QueueShrinks DEF BufferType, BufferInv, QueueInv
  <1>5. h \in HandlerOf /\ h.item = x /\ h.pc = "start" /\ h.kind = "none"
    BY <1>2, <1>4 DEF Handler, HandlerOf, Outcome
  <1>6. Adding' = Adding /\ x \notin Adding /\ x \in Pending
    BY <1>3, <1>4 DEF Adding, BufferInv, QueueInv, Queued, Pending
  <1>7. Pending' = Pending \ {x}
    BY <1>4, <1>6 DEF Pending
  <1>8. /\ \A y : Out(y)' = Out(y)
        /\ \A y : Held(y)' <=> Held(y) \/ y = x
        /\ \A p : Position(p)' = Position(p)
    BY <1>3, <1>5 DEF Out, Held, Position
  <1>9. ~Held(x) /\ Out(x) = "none"
    BY <1>6, <1>j DEF JobsInv
  <1>10. \A y : Reached(y)' <=> Reached(y)
    BY <1>6, <1>7, <1>8 DEF Reached
  <1>11. JobsInv'
    <2>1. \A g, k \in handlers' : g.item = k.item => g = k
      BY <1>3, <1>5, <1>9, <1>j DEF JobsInv, Held
    <2>2. \A y \in Pending' : ~Held(y)' /\ Out(y)' = "none"
      BY <1>7, <1>8, <1>j DEF JobsInv
    <2>3. \A g \in handlers' : Early(g)' <=> Out(g.item)' = "none"
      BY <1>3, <1>5, <1>8, <1>9, <1>j DEF JobsInv, Early
    <2>4. \A p \in LocalRange : \A i, j \in Position(p) :
            Behind[p][i] = j /\ Reached(<<p, j>>)' =>
               Out(<<p, i>>)' # "none" /\ <<p, i>> \notin Pending' /\ ~Held(<<p, i>>)'
      BY <1>6, <1>7, <1>8, <1>10, <1>j DEF JobsInv
    <2>5. \A p \in LocalRange : leaseOf'[p] = "unclaimed" => \A i \in Position(p) : ~Reached(<<p, i>>)'
      BY <1>3, <1>10, <1>j DEF JobsInv, leaseVars
    <2>. QED BY <1>8, <2>1, <2>2, <2>3, <2>4, <2>5 DEF JobsInv
  <1>12. CountInv'
    <2>1. \A p : Counted(p)' = Counted(p)
      BY <1>3, <1>5, <1>8 DEF Counted
    <2>. QED BY <1>3, <2>1 DEF BufferInv, CountInv
  <1>13. CommitInv'
    BY <1>3, <1>5, <1>8 DEF BufferInv, CommitInv, AllResolved
  <1>14. x[1] \in tracked
    BY <1>3, <1>6 DEF BufferInv, DispatchInv
  <1>15. /\ dispatchedCount' \in [LocalRange -> Nat]
         /\ \A p \in LocalRange : dispatchedCount'[p] = IF p = x[1] THEN dispatchedCount[p] + 1
                                                                   ELSE dispatchedCount[p]
    <2>1. dispatchedCount \in [LocalRange -> Nat] /\ x[1] \in LocalRange
      BY <1>t, <1>4, ItemParts DEF BufferType
    <2>. QED BY <1>3, <1>14, <2>1
  <1>16. DispatchInv'
    <2>0. \A p \in LocalRange : dispatchedCount[p] \in Nat
      BY <1>t DEF BufferType
    <2>1. \A p \in LocalRange : dispatchedCount'[p] >= dispatchedCount[p]
      <3> SUFFICES ASSUME NEW p \in LocalRange PROVE dispatchedCount'[p] >= dispatchedCount[p]
        OBVIOUS
      <3>1. dispatchedCount[p] \in Nat /\ dispatchedCount'[p] \in {dispatchedCount[p], dispatchedCount[p] + 1}
        BY <1>15, <2>0
      <3>. QED BY <3>1
    <2>2. dispatchedCount'[x[1]] > 0
      <3>1. PICK p \in LocalRange : p = x[1]
        BY <1>4, ItemParts
      <3>2. dispatchedCount[p] \in Nat /\ dispatchedCount'[p] = dispatchedCount[p] + 1
        BY <1>15, <2>0, <3>1
      <3>. QED BY <3>1, <3>2
    <2>3. \A g \in handlers : g.item[1] \in LocalRange
      BY <1>t, ItemParts DEF BufferType, HandlerOf
    <2>4. \A g \in handlers : dispatchedCount'[g.item[1]] > 0
      <3> SUFFICES ASSUME NEW g \in handlers PROVE dispatchedCount'[g.item[1]] > 0
        OBVIOUS
      <3>1. PICK p \in LocalRange : p = g.item[1]
        BY <2>3
      <3>2. dispatchedCount[p] > 0 /\ dispatchedCount'[p] \in Nat
        BY <1>15, <3>1 DEF BufferInv, DispatchInv
      <3>. QED BY <2>0, <2>1, <3>1, <3>2
    <2>5. \A p \in LocalRange : \A i \in Position(p) : Out(<<p, i>>) # "none" => dispatchedCount'[p] > 0
      <3> SUFFICES ASSUME NEW p \in LocalRange, NEW i \in Position(p), Out(<<p, i>>) # "none"
                   PROVE  dispatchedCount'[p] > 0
        OBVIOUS
      <3>1. dispatchedCount[p] > 0 /\ dispatchedCount'[p] \in Nat
        BY <1>15 DEF BufferInv, DispatchInv
      <3>. QED BY <2>0, <2>1, <3>1
    <2>6. \A y \in Pending' : y[1] \in tracked'
      BY <1>3, <1>7 DEF BufferInv, DispatchInv
    <2>. QED BY <1>3, <1>5, <1>8, <2>2, <2>4, <2>5, <2>6 DEF DispatchInv
  <1>17. CloseInv'
    <2>1. runnerAt \notin {"closing", "closed"}
      BY <1>3 DEF BufferInv, CloseInv
    <2>. QED BY <1>3, <2>1 DEF BufferInv, CloseInv, leaseVars
  <1>18. RoomInv'
    <2>1. prefetcher.room \in Nat
      BY <1>t DEF BufferType
    <2>2. prefetcher.pc = "claiming" => prefetcher.room + Len(buffer') <= QueueSize
      BY <1>4, <2>1, ClaimBufferBounds DEF BufferInv, RoomInv
    <2>3. ASSUME prefetcher.pc = "adding", \E item \in prefetcher.items : item[1] \notin Expired
          PROVE  Len(buffer') + Cardinality(prefetcher.items) <= QueueSize
      <3>1. /\ Cardinality(prefetcher.items) \in Nat
            /\ Len(buffer) + Cardinality(prefetcher.items) <= QueueSize
        BY <2>3, FS_CardinalityType DEF BufferInv, RoomInv, AddedRangeFits
      <3>. QED BY <1>4, <3>1, ClaimBufferBounds
    <2>. QED BY <1>3, <2>2, <2>3 DEF BufferInv, RoomInv, AddedRangeFits
  <1>19. CoveredIsResolved'
    BY <1>3, CoveredStands DEF BufferInv, leaseVars
  <1>20. QueueInv'
    BY <1>4, <1>6 DEF BufferInv, QueueInv, Queued
  <1>21. BufferType'
    <2>1. handlers' \in SUBSET HandlerOf /\ \A g \in handlers' : g.pc # "start" => g.kind # "none"
      BY <1>3, <1>5, <1>t DEF BufferType
    <2>. QED BY <1>3, <1>4, <1>15, <1>t, <2>1 DEF BufferType, IsTable, Position, HandlerOf, Item, leaseVars
  <1>. QED
    BY <1>11, <1>12, <1>13, <1>16, <1>17, <1>18, <1>19, <1>20, <1>21 DEF BufferInv

\* A range is closed: it is given back, or its resolved prefix is committed.
LEMMA CloseStep ==
  ASSUME BufferInv, CloseOpenRanges \/ CloseRange
  PROVE  BufferInv'
  <1>t. BufferType
    BY DEF BufferInv
  <1>1. CASE CloseOpenRanges
    <2>1. /\ runnerAt = "cancelled" /\ prefetcher.pc = "stopped" /\ dispatcher = "stopped"
          /\ runnerAt' = "closing" /\ prefetcher' = [prefetcher EXCEPT !.items = tracked]
          /\ tracked' = {}
          /\ UNCHANGED <<leaseVars, results, resolvedCount, dispatchedCount, snapshotTaken,
                         staleMark, buffer, dispatcher, handlers>>
      BY <1>1 DEF CloseOpenRanges
    <2>2. /\ prefetcher' \in [pc : {"waiting", "claiming", "adding", "stopped"}, room : Nat,
                              items : SUBSET (Item \cup LocalRange)]
          /\ prefetcher'.pc = "stopped" /\ prefetcher'.items = tracked /\ tracked \subseteq LocalRange
      BY <1>t, <2>1 DEF BufferType
    <2>3. Adding' = {} /\ Queued' = Queued /\ Pending' \subseteq Pending
      BY <2>1, <2>2 DEF Adding, Queued, Pending
    <2>4. JobsInv' /\ CountInv' /\ CommitInv' /\ DispatchInv'
      BY <2>1, <2>3, QuietStep DEF leaseVars
    <2>5. CloseInv'
      BY <2>1, <2>2 DEF BufferInv, CloseInv, leaseVars
    <2>6. RoomInv'
      BY <2>2 DEF RoomInv, AddedRangeFits
    <2>7. QueueInv'
      BY <2>1, <2>3 DEF BufferInv, QueueInv
    <2>8. CoveredIsResolved'
      BY <2>1, CoveredStands DEF BufferInv, leaseVars
    <2>9. BufferType'
      BY <1>t, <2>1, <2>2 DEF BufferType, IsTable, Position, leaseVars
    <2>. QED BY <2>4, <2>5, <2>6, <2>7, <2>8, <2>9 DEF BufferInv
  <1>2. CASE CloseRange
    <2>1. PICK r \in prefetcher.items :
            /\ Surrender(r) \/ CommitPrefix(r) \/ UNCHANGED leaseVars
            /\ prefetcher' = [prefetcher EXCEPT !.items = prefetcher.items \ {r}]
      BY <1>2 DEF CloseRange
    <2>2. runnerAt = "closing" /\ UNCHANGED <<rangeVars, buffer, dispatcher, handlers, runnerAt>>
      BY <1>2 DEF CloseRange
    <2>3. r \in LocalRange /\ prefetcher.pc = "stopped" /\ dispatcher = "stopped"
          /\ prefetcher.items \subseteq LocalRange
      BY <2>1, <2>2 DEF BufferInv, CloseInv
    <2>4. /\ prefetcher' \in [pc : {"waiting", "claiming", "adding", "stopped"}, room : Nat,
                              items : SUBSET (Item \cup LocalRange)]
          /\ prefetcher'.pc = "stopped" /\ prefetcher'.items \subseteq LocalRange
      BY <1>t, <2>1, <2>3 DEF BufferType
    <2>5. Adding' = {} /\ Queued' = Queued /\ Pending' \subseteq Pending
      BY <2>2, <2>4 DEF Adding, Queued, Pending
    <2>6. /\ leaseOf' \in [LocalRange -> {"unclaimed", "live", "freed", "lost", "surrendered"}]
          /\ \A p \in LocalRange : leaseOf'[p] = "unclaimed" => leaseOf[p] = "unclaimed"
          /\ \A p \in LocalRange : leaseOf'[p] = "surrendered" =>
               leaseOf[p] = "surrendered" \/ dispatchedCount[p] = 0
      BY <1>t, <2>1, <2>3 DEF BufferType, Surrender, CommitPrefix, leaseVars
    <2>7. JobsInv' /\ CountInv' /\ CommitInv' /\ DispatchInv'
      BY <2>2, <2>3, <2>5, <2>6, QuietStep DEF rangeVars
    <2>8. CloseInv'
      BY <2>2, <2>3, <2>4, <2>6 DEF BufferInv, CloseInv, rangeVars
    <2>9. RoomInv'
      BY <2>4 DEF RoomInv, AddedRangeFits
    <2>10. QueueInv'
      BY <2>2, <2>5 DEF BufferInv, QueueInv
    <2>11. settledTo' \in [LocalRange -> Nat] /\ IsTable(recordedAs') /\ CoveredIsResolved'
      <3>1. CASE UNCHANGED <<settledTo, recordedAs>>
        BY <1>t, <2>2, <3>1, CoveredStands DEF BufferInv, BufferType, rangeVars
      <3>2. ASSUME NEW n \in 0 .. Size[r], ContiguousResolved(r, n), n > settledTo[r],
                   settledTo' = [settledTo EXCEPT ![r] = n],
                   recordedAs' = [recordedAs EXCEPT ![r] =
                     [i \in Position(r) |-> IF i <= n THEN results[r][i] ELSE recordedAs[r][i]]]
            PROVE  settledTo' \in [LocalRange -> Nat] /\ IsTable(recordedAs') /\ CoveredIsResolved'
        <4>1. n \in Nat /\ Size[r] \in Nat
          BY <2>3, <3>2, ClaimBufferBounds
        <4>2. /\ settledTo' \in [LocalRange -> Nat]
              /\ \A p \in LocalRange : settledTo'[p] = IF p = r THEN n ELSE settledTo[p]
          BY <1>t, <2>3, <3>2, <4>1 DEF BufferType
        <4>3. /\ IsTable(recordedAs) /\ IsTable(results)
          BY <1>t DEF BufferType
        <4> DEFINE new == [i \in Position(r) |-> IF i <= n THEN results[r][i] ELSE recordedAs[r][i]]
        <4>4. new \in [Position(r) -> Outcome]
          BY <2>3, <4>3 DEF IsTable
        <4>5. \A p \in LocalRange : recordedAs'[p] = IF p = r THEN new ELSE recordedAs[p]
          BY <2>3, <3>2, <4>3 DEF IsTable
        <4>6. \A i \in Position(r) : i <= n => new[i] = results[r][i] /\ results[r][i] # "none"
          BY <3>2, <4>1 DEF ContiguousResolved, Position
        <4>7. recordedAs' = [p \in LocalRange |-> recordedAs'[p]]
          BY <3>2, <4>3 DEF IsTable
        <4> HIDE DEF new
        <4>8. IsTable(recordedAs')
          BY <4>3, <4>4, <4>5, <4>7 DEF IsTable
        <4>9. CoveredIsResolved'
          <5>1. results' = results
            BY <2>2 DEF rangeVars
          <5>2. ASSUME NEW p \in LocalRange, NEW i \in Position(p), i <= settledTo'[p]
                PROVE  recordedAs'[p][i] # "none" /\ recordedAs'[p][i] = results[p][i]
            <6>1. CASE p = r
              BY <4>2, <4>5, <4>6, <5>2, <6>1
            <6>2. CASE p # r
              BY <4>2, <4>5, <5>2, <6>2 DEF BufferInv, CoveredIsResolved
            <6>. QED BY <6>1, <6>2
          <5>. QED BY <5>1, <5>2 DEF CoveredIsResolved, Position
        <4>. QED BY <4>2, <4>8, <4>9
      <3>3. \/ UNCHANGED <<settledTo, recordedAs>>
            \/ \E n \in 0 .. Size[r] :
                 /\ ContiguousResolved(r, n) /\ n > settledTo[r]
                 /\ settledTo' = [settledTo EXCEPT ![r] = n]
                 /\ recordedAs' = [recordedAs EXCEPT ![r] =
                      [i \in Position(r) |-> IF i <= n THEN results[r][i] ELSE recordedAs[r][i]]]
        <4>1. CASE Surrender(r) \/ UNCHANGED leaseVars
          BY <4>1 DEF Surrender, leaseVars
        <4>2. CASE CommitPrefix(r)
          <5>1. PICK n \in 0 .. Size[r] :
                  /\ ContiguousResolved(r, n)
                  /\ IF n > settledTo[r] /\ leaseOf[r] = "live"
                     THEN /\ settledTo' = [settledTo EXCEPT ![r] = n]
                          /\ recordedAs' = [recordedAs EXCEPT ![r] =
                               [i \in Position(r) |-> IF i <= n THEN results[r][i] ELSE recordedAs[r][i]]]
                     ELSE UNCHANGED <<settledTo, recordedAs>>
            BY <4>2 DEF CommitPrefix
          <5>. QED BY <5>1
        <4>. QED BY <2>1, <4>1, <4>2
      <3>. QED BY <3>1, <3>2, <3>3
    <2>12. BufferType'
      BY <1>t, <2>2, <2>4, <2>6, <2>11 DEF BufferType, IsTable, Position, rangeVars
    <2>. QED BY <2>7, <2>8, <2>9, <2>10, <2>11, <2>12 DEF BufferInv
  <1>. QED BY <1>1, <1>2

\* A handler goes on, or leaves: the queue and the ranges' marks stand.
LEMMA HandlerGoes ==
  ASSUME BufferInv, NEW g \in handlers, NEW H \in SUBSET HandlerOf, Successors(g, H),
         handlers' = (handlers \ {g}) \cup H,
         \A h \in H : h.pc # "start" => h.kind # "none",
         UNCHANGED <<results, dispatchedCount, buffer, prefetcher, dispatcher, runnerAt>>,
         \A r \in LocalRange : leaseOf'[r] = "unclaimed" => leaseOf[r] = "unclaimed",
         \A r \in LocalRange : leaseOf'[r] = "surrendered" => leaseOf[r] = "surrendered",
         dispatcher # "stopped" => \A x \in Pending : x[1] \in tracked'
  PROVE  /\ QueueInv' /\ JobsInv' /\ DispatchInv' /\ CloseInv' /\ RoomInv'
         /\ handlers' \in SUBSET HandlerOf /\ \A h \in handlers' : h.pc # "start" => h.kind # "none"
  <1>1. Pending' = Pending /\ Adding' = Adding
    BY DEF Pending, Adding, Queued
  <1>2. handlers \subseteq HandlerOf
    BY DEF BufferInv, BufferType
  <1>3. JobsInv'
    BY <1>1, HandlerPasses DEF BufferInv
  <1>4. QueueInv' /\ RoomInv'
    BY <1>1 DEF BufferInv, QueueInv, RoomInv, AddedRangeFits, Item, Position
  <1>5. CloseInv'
    BY DEF BufferInv, CloseInv
  <1>6. DispatchInv'
    <2>1. \A h \in H : h.item[1] = g.item[1]
      BY <1>2, NextOfKeyIs DEF Successors
    <2>2. \A h \in handlers' : dispatchedCount'[h.item[1]] > 0
      BY <2>1 DEF BufferInv, DispatchInv
    <2>3. \A r \in LocalRange : \A i \in Position(r) : Out(<<r, i>>)' # "none" => dispatchedCount'[r] > 0
      BY DEF BufferInv, DispatchInv, Out
    <2>. QED BY <1>1, <2>2, <2>3 DEF DispatchInv, Position
  <1>7. handlers' \in SUBSET HandlerOf /\ \A h \in handlers' : h.pc # "start" => h.kind # "none"
    BY <1>2 DEF BufferInv, BufferType
  <1>. QED BY <1>3, <1>4, <1>5, <1>6, <1>7

\* No result is counted.
LEMMA CountsStand ==
  ASSUME CountInv, NEW g, NEW H, handlers' = (handlers \ {g}) \cup H,
         g.pc # "count", \A h \in H : h.pc # "count", UNCHANGED <<results, resolvedCount>>
  PROVE  CountInv'
  <1>1. /\ \A x : Out(x)' = Out(x)
        /\ \A r : Position(r)' = Position(r)
    BY DEF Out, Position
  <1>2. \A r : \A i \in Position(r) :
          (\A h \in handlers' : h.item = <<r, i>> => h.pc # "count")
            <=> \A h \in handlers : h.item = <<r, i>> => h.pc # "count"
    OBVIOUS
  <1>3. \A r : Counted(r)' = Counted(r)
    BY <1>1, <1>2 DEF Counted
  <1>. QED BY <1>3 DEF CountInv

\* No handler starts to commit.
LEMMA CommitsStand ==
  ASSUME CommitInv, NEW g, NEW H, handlers' = (handlers \ {g}) \cup H,
         \A h \in H : h.pc # "commit", UNCHANGED <<results, snapshotTaken>>
  PROVE  CommitInv'
  <1>1. \A r : AllResolved(r)' = AllResolved(r)
    BY DEF Out, Position, AllResolved
  <1>. QED BY <1>1 DEF CommitInv

\* What follows an item whose result is counted.
LEMMA FollowIs ==
  ASSUME NEW g \in HandlerOf, ~Early(g), g.kind # "none", Follow(g)
  PROVE  \E H \in SUBSET HandlerOf :
           /\ Successors(g, H) /\ handlers' = (handlers \ {g}) \cup H
           /\ \A h \in H : /\ h.pc \in {"start", "lookup"}
                           /\ h.pc # "start" => h.kind # "none"
  <1>1. CASE Leave(g)
    <2>1. handlers' = (handlers \ {g}) \cup {}
      BY <1>1 DEF Leave
    <2>2. Successors(g, {})
      BY DEF Successors
    <2>. QED BY <2>1, <2>2
  <1>2. ASSUME ~Leave(g)
        PROVE  \E H \in SUBSET HandlerOf :
                 /\ Successors(g, H) /\ handlers' = (handlers \ {g}) \cup H
                 /\ \A h \in H : /\ h.pc \in {"start", "lookup"}
                                 /\ h.pc # "start" => h.kind # "none"
    <2>1. PICK h \in {Handler(Successor(g), "start", "none"), Handler(Successor(g), "lookup", "deferred")} :
            HasSuccessor(g) /\ handlers' = (handlers \ {g}) \cup {h}
      BY <1>2 DEF Follow, Become
    <2>2. Successor(g) \in Item
      BY <2>1, NextOfKeyIs
    <2>3. /\ h \in HandlerOf /\ h.item = Successor(g) /\ h.pc \in {"start", "lookup"}
          /\ h.pc # "start" => h.kind # "none"
      BY <2>1, <2>2 DEF Handler, HandlerOf, Outcome
    <2>4. Successors(g, {h})
      BY <2>1, <2>3 DEF Successors, Early
    <2>. QED BY <2>1, <2>3, <2>4
  <1>. QED BY <1>1, <1>2

\* A handler that overruns its lease, runs its item or finds its range.
LEMMA RunStep ==
  ASSUME BufferInv, NEW g \in handlers,
         LeaveStale(g) \/ (\E kind \in HandlerOutcome : RunItem(g, kind)) \/ LookupRange(g)
  PROVE  BufferInv'
  <1>t. BufferType
    BY DEF BufferInv
  <1>g. g \in HandlerOf /\ g.item \in Item /\ g.item[1] \in LocalRange
    BY <1>t, ItemParts DEF BufferType, HandlerOf
  <1>1. /\ UNCHANGED <<leaseVars, tracked, results, resolvedCount, dispatchedCount, snapshotTaken,
                       buffer, prefetcher, dispatcher, runnerAt>>
        /\ staleMark' \in [LocalRange -> BOOLEAN]
        /\ g.pc \in {"start", "lookup"}
    BY <1>t DEF LeaveStale, RunItem, LookupRange, rangeVars, BufferType
  <1>2. PICK H \in SUBSET HandlerOf :
          /\ Successors(g, H) /\ handlers' = (handlers \ {g}) \cup H
          /\ \A h \in H : h.pc \in {"lookup", "write"} /\ h.kind # "none"
    <2>1. CASE Leave(g)
      <3>1. handlers' = (handlers \ {g}) \cup {} /\ Successors(g, {})
        BY <2>1 DEF Leave, Successors
      <3>. QED BY <3>1
    <2>2. ASSUME NEW k \in Outcome, k # "none", NEW at \in {"lookup", "write"},
                 Become(g, Handler(g.item, at, k))
          PROVE  \E H \in SUBSET HandlerOf :
                   /\ Successors(g, H) /\ handlers' = (handlers \ {g}) \cup H
                   /\ \A h \in H : h.pc \in {"lookup", "write"} /\ h.kind # "none"
      <3>1. PICK h : h = Handler(g.item, at, k)
        OBVIOUS
      <3>2. h \in HandlerOf /\ h.item = g.item /\ h.pc = at /\ h.kind = k
        BY <1>g, <2>2, <3>1 DEF Handler, HandlerOf
      <3>3. Successors(g, {h})
        BY <1>1, <2>2, <3>2 DEF Successors, Early
      <3>4. handlers' = (handlers \ {g}) \cup {h}
        BY <2>2, <3>1 DEF Become
      <3>. QED BY <2>2, <3>2, <3>3, <3>4
    <2>3. \/ Leave(g)
          \/ \E k \in Outcome : k # "none" /\ \E at \in {"lookup", "write"} : Become(g, Handler(g.item, at, k))
      <3>1. CASE LeaveStale(g)
        BY <3>1 DEF LeaveStale
      <3>2. CASE \E kind \in HandlerOutcome : RunItem(g, kind)
        BY <3>2 DEF RunItem, HandlerOutcome, Outcome
      <3>3. CASE LookupRange(g)
        <4>1. g.kind \in Outcome /\ g.kind # "none"
          BY <1>g, <1>t, <3>3 DEF LookupRange, BufferType, HandlerOf
        <4>. QED BY <3>3, <4>1 DEF LookupRange
      <3>. QED BY <3>1, <3>2, <3>3
    <2>. QED BY <2>1, <2>2, <2>3
  <1>3. /\ QueueInv' /\ JobsInv' /\ DispatchInv' /\ CloseInv' /\ RoomInv'
        /\ handlers' \in SUBSET HandlerOf /\ \A h \in handlers' : h.pc # "start" => h.kind # "none"
    <2>1. dispatcher # "stopped" => \A x \in Pending : x[1] \in tracked'
      BY <1>1 DEF BufferInv, DispatchInv
    <2>. QED BY <1>1, <1>2, <2>1, HandlerGoes DEF leaseVars
  <1>4. CountInv'
    BY <1>1, <1>2, CountsStand DEF BufferInv
  <1>5. CommitInv'
    BY <1>1, <1>2, CommitsStand DEF BufferInv
  <1>6. CoveredIsResolved'
    BY <1>1, CoveredStands DEF BufferInv, leaseVars
  <1>7. BufferType'
    BY <1>t, <1>1, <1>3 DEF BufferType, IsTable, Position, HandlerOf, Item, leaseVars
  <1>. QED BY <1>3, <1>4, <1>5, <1>6, <1>7 DEF BufferInv

\* The result is written before it is counted.
LEMMA WriteStep ==
  ASSUME BufferInv, NEW g \in handlers, WriteResult(g)
  PROVE  BufferInv'
  <1> DEFINE x == g.item
  <1>t. BufferType
    BY DEF BufferInv
  <1>j. JobsInv
    BY DEF BufferInv
  <1>g. /\ g \in HandlerOf /\ x \in Item /\ x[1] \in LocalRange /\ x[2] \in Position(x[1])
        /\ x = <<x[1], x[2]>> /\ g.kind \in Outcome /\ g.kind # "none" /\ g.pc = "write"
    BY <1>t, ItemParts DEF BufferType, HandlerOf, WriteResult
  <1>1. PICK h : h = Handler(x, "count", g.kind)
    OBVIOUS
  <1>2. /\ results' = [results EXCEPT ![x[1]][x[2]] = g.kind]
        /\ handlers' = (handlers \ {g}) \cup {h}
        /\ UNCHANGED <<leaseVars, tracked, resolvedCount, dispatchedCount, snapshotTaken, staleMark,
                       buffer, prefetcher, dispatcher, runnerAt>>
    BY <1>1 DEF WriteResult, Become
  <1>3. h \in HandlerOf /\ h.item = x /\ h.pc = "count" /\ h.kind = g.kind
    BY <1>g, <1>1 DEF Handler, HandlerOf
  <1>4. /\ IsTable(results')
        /\ \A r \in LocalRange : \A i \in Position(r) :
             results'[r][i] = IF r = x[1] /\ i = x[2] THEN g.kind ELSE results[r][i]
    <2>1. IsTable(results)
      BY <1>t DEF BufferType
    <2>2. results' = [r \in LocalRange |-> results'[r]]
      BY <1>2, <2>1 DEF IsTable
    <2>3. \A r \in LocalRange : results[r] \in [Position(r) -> Outcome]
      BY <2>1 DEF IsTable
    <2>4. \A r \in LocalRange :
            results'[r] = IF r = x[1] THEN [results[r] EXCEPT ![x[2]] = g.kind] ELSE results[r]
      BY <1>g, <1>2, <2>1 DEF IsTable
    <2>5. \A r \in LocalRange : /\ results'[r] \in [Position(r) -> Outcome]
                                /\ \A i \in Position(r) :
                                     results'[r][i] = IF r = x[1] /\ i = x[2] THEN g.kind ELSE results[r][i]
      <3> SUFFICES ASSUME NEW r \in LocalRange
                   PROVE  /\ results'[r] \in [Position(r) -> Outcome]
                          /\ \A i \in Position(r) :
                               results'[r][i] = IF r = x[1] /\ i = x[2] THEN g.kind ELSE results[r][i]
        OBVIOUS
      <3>1. CASE r # x[1]
        BY <2>3, <2>4, <3>1
      <3>2. CASE r = x[1]
        <4>1. PICK b : b = x[2]
          OBVIOUS
        <4>2. PICK k : k = g.kind
          OBVIOUS
        <4>3. PICK f : f = results[r]
          OBVIOUS
        <4>4. f \in [Position(r) -> Outcome] /\ b \in Position(r) /\ k \in Outcome
          BY <1>g, <2>3, <3>2, <4>1, <4>2, <4>3
        <4>5. results'[r] = [f EXCEPT ![b] = k]
          BY <2>4, <3>2, <4>1, <4>2, <4>3
        <4>6. /\ [f EXCEPT ![b] = k] \in [Position(r) -> Outcome]
              /\ \A i \in Position(r) : [f EXCEPT ![b] = k][i] = IF i = b THEN k ELSE f[i]
          BY <4>4
        <4>. QED BY <3>2, <4>1, <4>2, <4>3, <4>5, <4>6
      <3>. QED BY <3>1, <3>2
    <2>. QED BY <2>2, <2>5 DEF IsTable, Position
  <1>5. /\ \A r : Position(r)' = Position(r)
        /\ \A y : Held(y)' <=> Held(y)
        /\ Pending' = Pending /\ Adding' = Adding /\ Pending \subseteq Item
    <2>1. \A y : Held(y)' <=> Held(y)
      BY <1>2, <1>3 DEF Held
    <2>2. Pending' = Pending /\ Adding' = Adding
      BY <1>2 DEF Pending, Adding, Queued
    <2>3. Queued \subseteq Item
      BY <1>t, ElementOfSeq, LenProperties DEF BufferType, Queued
    <2>. QED BY <2>1, <2>2, <2>3 DEF Pending, BufferInv, QueueInv, Position
  <1>6. \A y \in Item : Out(y)' = IF y = x THEN g.kind ELSE Out(y)
    <2> SUFFICES ASSUME NEW y \in Item PROVE Out(y)' = IF y = x THEN g.kind ELSE Out(y)
      OBVIOUS
    <2>1. y[1] \in LocalRange /\ y[2] \in Position(y[1]) /\ y = <<y[1], y[2]>>
      BY ItemParts
    <2>2. Out(y)' = IF y[1] = x[1] /\ y[2] = x[2] THEN g.kind ELSE Out(y)
      BY <1>4, <2>1 DEF Out
    <2>. QED BY <1>g, <2>1, <2>2
  <1>7. Held(x) /\ x \notin Pending /\ Out(x) = "none" /\ Out(x)' = g.kind
    BY <1>g, <1>6, <1>j DEF JobsInv, Held, Early
  <1>8. \A r \in LocalRange : \A i \in Position(r) : <<r, i>> \in Item
    BY ItemParts
  <1>9. \A y \in Item : Reached(y)' <=> Reached(y)
    BY <1>5, <1>6, <1>7 DEF Reached
  <1> HIDE DEF x
  <1>10. JobsInv'
    <2>1. \A k, l \in handlers' : k.item = l.item => k = l
      BY <1>2, <1>3, <1>j DEF JobsInv, x
    <2>2. \A y \in Pending' : ~Held(y)' /\ Out(y)' = "none"
      BY <1>5, <1>6, <1>7, <1>j DEF JobsInv
    <2>3. \A k \in handlers' : Early(k)' <=> Out(k.item)' = "none"
      <3>1. ASSUME NEW k \in handlers, k # g PROVE Early(k)' <=> Out(k.item)' = "none"
        <4>1. k.item # x /\ k.item \in Item
          BY <1>j, <1>t, <3>1 DEF JobsInv, BufferType, HandlerOf, x
        <4>. QED BY <1>6, <1>j, <4>1 DEF JobsInv, Early
      <3>2. Early(h)' <=> Out(h.item)' = "none"
        BY <1>g, <1>3, <1>7 DEF Early
      <3>. QED BY <1>2, <3>1, <3>2
    <2>4. \A r \in LocalRange : \A i, j \in Position(r) :
            Behind[r][i] = j /\ Reached(<<r, j>>)' =>
               Out(<<r, i>>)' # "none" /\ <<r, i>> \notin Pending' /\ ~Held(<<r, i>>)'
      BY <1>g, <1>5, <1>6, <1>8, <1>9, <1>j DEF JobsInv
    <2>5. \A r \in LocalRange : leaseOf'[r] = "unclaimed" => \A i \in Position(r) : ~Reached(<<r, i>>)'
      BY <1>2, <1>8, <1>9, <1>j DEF JobsInv, leaseVars
    <2>. QED BY <1>5, <2>1, <2>2, <2>3, <2>4, <2>5 DEF JobsInv
  <1>11. CountInv'
    <2>1. ASSUME NEW r \in LocalRange PROVE Counted(r)' = Counted(r)
      <3> SUFFICES ASSUME NEW i \in Position(r) PROVE i \in Counted(r)' <=> i \in Counted(r)
        BY <1>5 DEF Counted
      <3>1. CASE <<r, i>> = x
        <4>1. i \notin Counted(r)
          BY <1>7, <3>1 DEF Counted
        <4>2. i \notin Counted(r)'
          BY <1>2, <1>3, <3>1 DEF Counted
        <4>. QED BY <4>1, <4>2
      <3>2. CASE <<r, i>> # x
        <4>1. Out(<<r, i>>)' = Out(<<r, i>>)
          BY <1>6, <1>8, <3>2
        <4>2. \A k : k.item = <<r, i>> => (k \in handlers' <=> k \in handlers)
          BY <1>2, <1>3, <3>2 DEF x
        <4>. QED BY <1>5, <4>1, <4>2 DEF Counted
      <3>. QED BY <3>1, <3>2
    <2>. QED BY <1>2, <2>1 DEF BufferInv, CountInv
  <1>12. CommitInv'
    <2>1. \A r \in LocalRange : AllResolved(r) => AllResolved(r)'
      BY <1>g, <1>5, <1>6, <1>8 DEF AllResolved
    <2>2. \A k \in handlers : k.item[1] \in LocalRange
      BY <1>t, ItemParts DEF BufferType, HandlerOf
    <2>. QED BY <1>2, <1>3, <2>1, <2>2 DEF BufferInv, CommitInv
  <1>13. DispatchInv'
    <2>1. \A k \in handlers' : dispatchedCount'[k.item[1]] > 0
      BY <1>2, <1>3 DEF BufferInv, DispatchInv, x
    <2>2. \A r \in LocalRange : \A i \in Position(r) : Out(<<r, i>>)' # "none" => dispatchedCount'[r] > 0
      <3>1. dispatchedCount[x[1]] > 0
        BY DEF BufferInv, DispatchInv, x
      <3>. QED BY <1>2, <1>6, <1>8, <3>1 DEF BufferInv, DispatchInv
    <2>. QED BY <1>2, <1>5, <2>1, <2>2 DEF BufferInv, DispatchInv
  <1>14. CloseInv'
    BY <1>2 DEF BufferInv, CloseInv, leaseVars
  <1>15. RoomInv'
    BY <1>2 DEF BufferInv, RoomInv, AddedRangeFits
  <1>16. QueueInv'
    BY <1>2, <1>5 DEF BufferInv, QueueInv, Item, Position
  <1>17. CoveredIsResolved'
    <2>1. ASSUME NEW r \in LocalRange, NEW i \in Position(r), i <= settledTo[r]
          PROVE  recordedAs[r][i] # "none" /\ recordedAs[r][i] = results'[r][i]
      <3>1. recordedAs[r][i] # "none" /\ recordedAs[r][i] = results[r][i]
        BY <2>1 DEF BufferInv, CoveredIsResolved
      <3>2. ~(r = x[1] /\ i = x[2])
        BY <1>7, <3>1 DEF Out
      <3>. QED BY <1>4, <3>1, <3>2
    <2>. QED BY <1>2, <1>5, <2>1 DEF CoveredIsResolved, leaseVars
  <1>18. BufferType'
    <2>1. handlers' \in SUBSET HandlerOf /\ \A k \in handlers' : k.pc # "start" => k.kind # "none"
      BY <1>g, <1>2, <1>3, <1>t DEF BufferType
    <2>. QED BY <1>t, <1>2, <1>4, <2>1 DEF BufferType, IsTable, Position, HandlerOf, Item, leaseVars
  <1>. QED
    BY <1>10, <1>11, <1>12, <1>13, <1>14, <1>15, <1>16, <1>17, <1>18 DEF BufferInv

\* The count follows: one more of the range's messages is written and counted.
LEMMA CountStep ==
  ASSUME BufferInv, NEW g \in handlers, CountResult(g)
  PROVE  BufferInv'
  <1> DEFINE r == g.item[1]
             i == g.item[2]
  <1>t. BufferType
    BY DEF BufferInv
  <1>j. JobsInv
    BY DEF BufferInv
  <1>g. /\ g \in HandlerOf /\ g.item \in Item /\ r \in LocalRange /\ i \in Position(r)
        /\ g.item = <<r, i>> /\ g.kind \in Outcome /\ g.kind # "none" /\ g.pc = "count"
    BY <1>t, ItemParts DEF BufferType, HandlerOf, CountResult
  <1> HIDE DEF r, i
  <1>1. PICK h \in {Handler(Successor(g), "lookup", "deferred"), Handler(g.item, "check", g.kind)} :
          /\ h = Handler(Successor(g), "lookup", "deferred") => HasSuccessor(g)
          /\ handlers' = (handlers \ {g}) \cup {h}
    <2>1. CASE g.kind = "deferred" /\ HasSuccessor(g)
      BY <2>1 DEF CountResult, Become
    <2>2. CASE ~(g.kind = "deferred" /\ HasSuccessor(g))
      <3>1. Handler(g.item, "check", g.kind) # Handler(Successor(g), "lookup", "deferred")
        BY DEF Handler
      <3>. QED BY <2>2, <3>1 DEF CountResult, Become
    <2>. QED BY <2>1, <2>2
  <1>2. /\ resolvedCount' = [resolvedCount EXCEPT ![r] = resolvedCount[r] + 1]
        /\ UNCHANGED <<leaseVars, tracked, results, dispatchedCount, snapshotTaken, staleMark,
                       buffer, prefetcher, dispatcher, runnerAt>>
    BY DEF CountResult, r
  <1>3. /\ h \in HandlerOf /\ h.pc \in {"lookup", "check"} /\ h.kind # "none"
        /\ Successors(g, {h})
    <2>1. CASE h = Handler(g.item, "check", g.kind)
      <3>1. h.item = g.item /\ h.pc = "check" /\ h.kind = g.kind
        BY <2>1 DEF Handler
      <3>2. h \in HandlerOf
        BY <1>g, <2>1 DEF Handler, HandlerOf
      <3>. QED BY <1>g, <3>1, <3>2 DEF Successors, Early
    <2>2. CASE h = Handler(Successor(g), "lookup", "deferred")
      <3>1. h.item = Successor(g) /\ h.pc = "lookup" /\ h.kind = "deferred"
        BY <2>2 DEF Handler
      <3>2. HasSuccessor(g) /\ h \in HandlerOf
        <4>1. HasSuccessor(g)
          BY <1>1, <2>2
        <4>2. Successor(g) \in Item
          BY <1>g, <4>1, NextOfKeyIs
        <4>. QED BY <2>2, <4>1, <4>2 DEF Handler, HandlerOf, Outcome
      <3>. QED BY <1>g, <3>1, <3>2 DEF Successors, Early
    <2>. QED BY <1>1, <2>1, <2>2
  <1>4. /\ QueueInv' /\ JobsInv' /\ DispatchInv' /\ CloseInv' /\ RoomInv'
        /\ handlers' \in SUBSET HandlerOf /\ \A k \in handlers' : k.pc # "start" => k.kind # "none"
    <2>1. dispatcher # "stopped" => \A x \in Pending : x[1] \in tracked'
      BY <1>2 DEF BufferInv, DispatchInv
    <2>2. {h} \in SUBSET HandlerOf
      BY <1>3
    <2>. QED BY <1>1, <1>2, <1>3, <2>1, <2>2, HandlerGoes DEF leaseVars
  <1>5. /\ resolvedCount' \in [LocalRange -> Nat]
        /\ \A p \in LocalRange : resolvedCount'[p] = IF p = r THEN resolvedCount[p] + 1 ELSE resolvedCount[p]
    BY <1>t, <1>g, <1>2 DEF BufferType
  <1>6. /\ \A y : Out(y)' = Out(y)
        /\ \A p : Position(p)' = Position(p)
    BY <1>2 DEF Out, Position
  <1>7. Counted(r)' = Counted(r) \cup {i} /\ i \notin Counted(r)
    <2>1. i \notin Counted(r)
      BY <1>g DEF Counted
    <2>2. Out(<<r, i>>) # "none"
      BY <1>g, <1>j DEF JobsInv, Early
    <2>3. \A k \in handlers' : k.item = <<r, i>> => k.pc # "count"
      BY <1>g, <1>1, <1>3, <1>j DEF JobsInv
    <2>4. i \in Counted(r)'
      BY <1>g, <1>6, <2>2, <2>3 DEF Counted
    <2>5. ASSUME NEW p \in Position(r), p # i PROVE p \in Counted(r)' <=> p \in Counted(r)
      <3>1. (\A k \in handlers' : k.item = <<r, p>> => k.pc # "count")
              <=> \A k \in handlers : k.item = <<r, p>> => k.pc # "count"
        BY <1>g, <1>1, <1>3, <2>5
      <3>. QED BY <1>6, <3>1 DEF Counted
    <2>. QED BY <1>g, <1>6, <2>1, <2>4, <2>5 DEF Counted
  <1>8. \A p \in LocalRange : p # r => Counted(p)' = Counted(p)
    <2> SUFFICES ASSUME NEW p \in LocalRange, p # r PROVE Counted(p)' = Counted(p)
      OBVIOUS
    <2>1. \A q \in Position(p) :
            (\A k \in handlers' : k.item = <<p, q>> => k.pc # "count")
              <=> \A k \in handlers : k.item = <<p, q>> => k.pc # "count"
      BY <1>g, <1>1, <1>3
    <2>. QED BY <1>6, <2>1 DEF Counted
  <1>9. CountInv'
    <2>1. IsFiniteSet(Counted(r))
      <3>1. IsFiniteSet(Position(r))
        BY <1>g, ClaimBufferBounds, FS_Interval DEF Position
      <3>2. Counted(r) \in SUBSET Position(r)
        BY DEF Counted
      <3>. QED BY <3>1, <3>2, FS_Subset
    <2>2. Cardinality(Counted(r) \cup {i}) = Cardinality(Counted(r)) + 1
      BY <1>7, <2>1, FS_AddElement
    <2>3. resolvedCount'[r] = Cardinality(Counted(r)')
      BY <1>g, <1>5, <1>7, <2>2 DEF BufferInv, CountInv
    <2>. QED BY <1>5, <1>8, <2>3 DEF BufferInv, CountInv
  <1>10. CommitInv'
    BY <1>1, <1>2, <1>3, CommitsStand DEF BufferInv
  <1>11. CoveredIsResolved'
    BY <1>2, CoveredStands DEF BufferInv, leaseVars
  <1>12. BufferType'
    BY <1>t, <1>2, <1>4, <1>5 DEF BufferType, IsTable, Position, HandlerOf, Item, leaseVars
  <1>. QED BY <1>4, <1>9, <1>10, <1>11, <1>12 DEF BufferInv

\* Of the handlers that see a range resolved one commits it.
LEMMA CheckStep ==
  ASSUME BufferInv, NEW g \in handlers, CommitIfResolved(g)
  PROVE  BufferInv'
  <1> DEFINE r == g.item[1]
  <1>t. BufferType
    BY DEF BufferInv
  <1>g. /\ g \in HandlerOf /\ g.item \in Item /\ r \in LocalRange
        /\ g.kind \in Outcome /\ g.kind # "none" /\ g.pc = "check"
    BY <1>t, ItemParts DEF BufferType, HandlerOf, CommitIfResolved
  <1>1. /\ UNCHANGED <<leaseVars, tracked, results, resolvedCount, dispatchedCount, staleMark,
                       buffer, prefetcher, dispatcher, runnerAt>>
        /\ \/ /\ MayTakeSnapshot(r) /\ snapshotTaken' = [snapshotTaken EXCEPT ![r] = TRUE]
              /\ Become(g, Handler(g.item, "commit", g.kind))
           \/ UNCHANGED snapshotTaken /\ Follow(g)
    BY DEF CommitIfResolved
  <1> HIDE DEF r
  <1>2. CASE /\ MayTakeSnapshot(r) /\ snapshotTaken' = [snapshotTaken EXCEPT ![r] = TRUE]
             /\ Become(g, Handler(g.item, "commit", g.kind))
    <2>1. PICK h : h = Handler(g.item, "commit", g.kind)
      OBVIOUS
    <2>2. h \in HandlerOf /\ h.item = g.item /\ h.pc = "commit" /\ h.kind = g.kind
      BY <1>g, <2>1 DEF Handler, HandlerOf
    <2>3. Successors(g, {h}) /\ handlers' = (handlers \ {g}) \cup {h} /\ {h} \in SUBSET HandlerOf
      BY <1>2, <1>g, <2>1, <2>2 DEF Successors, Early, Become
    <2>4. /\ QueueInv' /\ JobsInv' /\ DispatchInv' /\ CloseInv' /\ RoomInv'
          /\ handlers' \in SUBSET HandlerOf /\ \A k \in handlers' : k.pc # "start" => k.kind # "none"
      <3>1. dispatcher # "stopped" => \A x \in Pending : x[1] \in tracked'
        BY <1>1 DEF BufferInv, DispatchInv
      <3>. QED BY <1>1, <1>g, <2>2, <2>3, <3>1, HandlerGoes DEF leaseVars
    <2>5. CountInv'
      BY <1>1, <1>g, <2>2, <2>3, CountsStand DEF BufferInv
    <2>6. AllResolved(r)
      <3>1. /\ Size[r] \in Nat /\ IsFiniteSet(Position(r)) /\ Cardinality(Position(r)) = Size[r]
        BY <1>g, ClaimBufferBounds, FS_Interval DEF Position
      <3>2. Counted(r) \in SUBSET Position(r)
        BY DEF Counted
      <3>3. Cardinality(Counted(r)) = Size[r]
        BY <1>2, <1>g DEF MayTakeSnapshot, BufferInv, CountInv
      <3>4. Counted(r) = Position(r)
        BY <3>1, <3>2, <3>3, FS_Subset
      <3>. QED BY <3>4 DEF Counted, AllResolved
    <2>7. CommitInv'
      <3>1. \A p : AllResolved(p)' = AllResolved(p)
        BY <1>1 DEF Out, Position, AllResolved
      <3>2. \A p : snapshotTaken[p] => snapshotTaken'[p]
        BY <1>2, <1>t, <1>g DEF BufferType
      <3>3. snapshotTaken'[r] /\ ~snapshotTaken[r]
        BY <1>2, <1>t, <1>g DEF BufferType, MayTakeSnapshot
      <3>4. \A k \in handlers : k.pc = "commit" => k.item[1] # r
        BY <3>3 DEF BufferInv, CommitInv
      <3>. QED BY <2>2, <2>3, <2>6, <3>1, <3>2, <3>3, <3>4 DEF BufferInv, CommitInv, r
    <2>8. CoveredIsResolved'
      BY <1>1, CoveredStands DEF BufferInv, leaseVars
    <2>9. BufferType'
      <3>1. snapshotTaken' \in [LocalRange -> BOOLEAN]
        BY <1>2, <1>t DEF BufferType
      <3>. QED BY <1>t, <1>1, <2>4, <3>1 DEF BufferType, IsTable, Position, HandlerOf, Item, leaseVars
    <2>. QED BY <2>4, <2>5, <2>7, <2>8, <2>9 DEF BufferInv
  <1>3. CASE UNCHANGED snapshotTaken /\ Follow(g)
    <2>1. ~Early(g)
      BY <1>g DEF Early
    <2>2. PICK H \in SUBSET HandlerOf :
            /\ Successors(g, H) /\ handlers' = (handlers \ {g}) \cup H
            /\ \A h \in H : h.pc \in {"start", "lookup"} /\ (h.pc # "start" => h.kind # "none")
      BY <1>3, <1>g, <2>1, FollowIs
    <2>3. /\ QueueInv' /\ JobsInv' /\ DispatchInv' /\ CloseInv' /\ RoomInv'
          /\ handlers' \in SUBSET HandlerOf /\ \A k \in handlers' : k.pc # "start" => k.kind # "none"
      <3>1. dispatcher # "stopped" => \A x \in Pending : x[1] \in tracked'
        BY <1>1 DEF BufferInv, DispatchInv
      <3>. QED BY <1>1, <2>2, <3>1, HandlerGoes DEF leaseVars
    <2>4. CountInv' /\ CommitInv'
      BY <1>1, <1>3, <1>g, <2>2, CountsStand, CommitsStand DEF BufferInv
    <2>5. CoveredIsResolved'
      BY <1>1, CoveredStands DEF BufferInv, leaseVars
    <2>6. BufferType'
      BY <1>t, <1>1, <1>3, <2>3 DEF BufferType, IsTable, Position, HandlerOf, Item, leaseVars
    <2>. QED BY <2>3, <2>4, <2>5, <2>6 DEF BufferInv
  <1>. QED BY <1>1, <1>2, <1>3

\* A commit lands, finds the lease lost, or fails.
LEMMA CommitStep ==
  ASSUME BufferInv, NEW g \in handlers, CommitRangeOf(g)
  PROVE  BufferInv'
  <1> DEFINE r == g.item[1]
  <1>t. BufferType
    BY DEF BufferInv
  <1>g. /\ g \in HandlerOf /\ g.item \in Item /\ r \in LocalRange
        /\ g.kind \in Outcome /\ g.kind # "none" /\ g.pc = "commit"
    BY <1>t, ItemParts DEF BufferType, HandlerOf, CommitRangeOf
  <1>1. /\ \/ CommitLands(r) /\ tracked' \in {tracked, tracked \ {r}}
           \/ leaseOf[r] # "live" /\ tracked' = tracked \ {r} /\ UNCHANGED leaseVars
           \/ UNCHANGED <<tracked, leaseVars>>
        /\ Follow(g)
        /\ UNCHANGED <<results, resolvedCount, dispatchedCount, snapshotTaken, staleMark,
                       buffer, prefetcher, dispatcher, runnerAt>>
    BY DEF CommitRangeOf
  <1>2. AllResolved(r)
    BY <1>g DEF BufferInv, CommitInv
  <1> HIDE DEF r
  <1>3. PICK H \in SUBSET HandlerOf :
          /\ Successors(g, H) /\ handlers' = (handlers \ {g}) \cup H
          /\ \A h \in H : h.pc \in {"start", "lookup"} /\ (h.pc # "start" => h.kind # "none")
    BY <1>1, <1>g, FollowIs DEF Early
  <1>4. /\ leaseOf' \in [LocalRange -> {"unclaimed", "live", "freed", "lost", "surrendered"}]
        /\ \A p \in LocalRange : leaseOf'[p] = "unclaimed" => leaseOf[p] = "unclaimed"
        /\ \A p \in LocalRange : leaseOf'[p] = "surrendered" => leaseOf[p] = "surrendered"
    BY <1>t, <1>1, <1>g DEF CommitLands, BufferType, leaseVars
  <1>5. tracked' \in SUBSET LocalRange /\ \A p \in tracked : p # r => p \in tracked'
    BY <1>t, <1>1 DEF BufferType
  <1>6. dispatcher # "stopped" => \A x \in Pending : x[1] \in tracked'
    <2> SUFFICES ASSUME dispatcher # "stopped", NEW x \in Pending PROVE x[1] \in tracked'
      OBVIOUS
    <2>1. x \in Item
      <3>1. Queued \subseteq Item
        BY <1>t, ElementOfSeq, LenProperties DEF BufferType, Queued
      <3>. QED BY <3>1 DEF Pending, BufferInv, QueueInv
    <2>2. x[1] \in tracked /\ Out(x) = "none"
      BY DEF BufferInv, DispatchInv, JobsInv
    <2>3. x[1] # r
      BY <1>2, <2>1, <2>2, ItemParts DEF AllResolved
    <2>. QED BY <1>5, <2>2, <2>3
  <1>7. /\ QueueInv' /\ JobsInv' /\ DispatchInv' /\ CloseInv' /\ RoomInv'
        /\ handlers' \in SUBSET HandlerOf /\ \A k \in handlers' : k.pc # "start" => k.kind # "none"
    BY <1>1, <1>3, <1>4, <1>6, HandlerGoes
  <1>8. CountInv' /\ CommitInv'
    BY <1>1, <1>3, <1>g, CountsStand, CommitsStand DEF BufferInv
  <1>9. settledTo' \in [LocalRange -> Nat] /\ IsTable(recordedAs') /\ CoveredIsResolved'
    <2>1. CASE UNCHANGED leaseVars
      BY <1>t, <1>1, <2>1, CoveredStands DEF BufferInv, BufferType, leaseVars
    <2>2. CASE CommitLands(r)
      <3>1. /\ settledTo' = [settledTo EXCEPT ![r] = Size[r]]
            /\ recordedAs' = [recordedAs EXCEPT ![r] = results[r]]
        BY <2>2 DEF CommitLands
      <3>2. settledTo' \in [LocalRange -> Nat] /\ \A p \in LocalRange : p # r => settledTo'[p] = settledTo[p]
        BY <1>t, <1>g, <3>1, ClaimBufferBounds DEF BufferType
      <3>3. IsTable(recordedAs) /\ IsTable(results)
        BY <1>t DEF BufferType
      <3>4. \A p \in LocalRange : recordedAs'[p] = IF p = r THEN results[r] ELSE recordedAs[p]
        BY <1>g, <3>1, <3>3 DEF IsTable
      <3>5. recordedAs' = [p \in LocalRange |-> recordedAs'[p]]
        BY <3>1, <3>3 DEF IsTable
      <3>6. IsTable(recordedAs')
        BY <1>g, <3>3, <3>4, <3>5 DEF IsTable
      <3>7. ASSUME NEW p \in LocalRange, NEW i \in Position(p), i <= settledTo'[p]
            PROVE  recordedAs'[p][i] # "none" /\ recordedAs'[p][i] = results[p][i]
        <4>1. CASE p = r
          BY <1>2, <1>g, <3>4, <4>1 DEF AllResolved, Out
        <4>2. CASE p # r
          BY <3>2, <3>4, <3>7, <4>2 DEF BufferInv, CoveredIsResolved
        <4>. QED BY <4>1, <4>2
      <3>8. CoveredIsResolved'
        BY <1>1, <3>7 DEF CoveredIsResolved, Position
      <3>. QED BY <3>2, <3>6, <3>8
    <2>. QED BY <1>1, <2>1, <2>2
  <1>10. BufferType'
    BY <1>t, <1>1, <1>4, <1>5, <1>7, <1>9 DEF BufferType, IsTable, Position, HandlerOf, Item
  <1>. QED BY <1>7, <1>8, <1>9, <1>10 DEF BufferInv

\* No range is claimed, nothing has run.
LEMMA BufferStart == ClaimBufferInit => BufferInv
  <1> SUFFICES ASSUME ClaimBufferInit PROVE BufferInv
    OBVIOUS
  <1>1. /\ \A r \in LocalRange : \A i \in Position(r) : results[r][i] = "none" /\ recordedAs[r][i] = "none"
        /\ IsTable(results) /\ IsTable(recordedAs)
    BY DEF ClaimBufferInit, NoResults, IsTable, Outcome
  <1>2. Adding = {} /\ Queued = {} /\ Pending = {}
    BY DEF ClaimBufferInit, PrefetchWaits, Adding, Queued, Pending
  <1>3. BufferType
    <2>1. prefetcher \in [pc : {"waiting", "claiming", "adding", "stopped"}, room : Nat,
                          items : SUBSET (Item \cup LocalRange)]
      BY DEF ClaimBufferInit, PrefetchWaits
    <2>2. buffer \in Seq(Item)
      BY DEF ClaimBufferInit
    <2>. QED BY <1>1, <2>1, <2>2 DEF ClaimBufferInit, BufferType
  <1>4. \A r \in LocalRange : \A i \in Position(r) : ~Reached(<<r, i>>)
    BY <1>1, <1>2 DEF ClaimBufferInit, Reached, Held, Out
  <1>5. JobsInv
    BY <1>2, <1>4 DEF ClaimBufferInit, JobsInv
  <1>6. CountInv
    <2>1. \A r \in LocalRange : Counted(r) = {}
      BY <1>1 DEF Counted, Out
    <2>. QED BY <2>1, FS_EmptySet DEF CountInv, ClaimBufferInit
  <1>7. CommitInv /\ CloseInv
    BY DEF ClaimBufferInit, CommitInv, CloseInv
  <1>8. DispatchInv
    BY <1>1, <1>2 DEF ClaimBufferInit, DispatchInv, Out
  <1>9. RoomInv
    BY DEF ClaimBufferInit, PrefetchWaits, RoomInv, AddedRangeFits
  <1>10. CoveredIsResolved
    <2>1. \A r \in LocalRange : \A i \in Position(r) : ~(i <= settledTo[r])
      BY ClaimBufferBounds DEF ClaimBufferInit, Position
    <2>. QED BY <2>1 DEF CoveredIsResolved
  <1>11. QueueInv
    BY <1>2 DEF QueueInv, ClaimBufferInit
  <1>. QED BY <1>3, <1>5, <1>6, <1>7, <1>8, <1>9, <1>10, <1>11 DEF BufferInv

\* Prefetch, dispatch, the handlers and the shutdown keep it.
LEMMA BufferStep == BufferInv /\ ClaimBufferNext => BufferInv'
  <1> SUFFICES ASSUME BufferInv, ClaimBufferNext PROVE BufferInv'
    OBVIOUS
  <1>1. CASE WaitForRoom \/ ClaimNothing \/ StopPrefetch \/ AcquirePermit \/ StopDispatch
               \/ CancelRunner \/ RunnerReturns \/ \E r \in LocalRange : LoseLease(r)
    BY <1>1, PrefetchStep
  <1>2. CASE \E r \in LocalRange : ClaimInto(r)
    BY <1>2, ClaimIntoStep
  <1>3. CASE EnQueue \/ Dispatch \/ CloseOpenRanges \/ CloseRange
    BY <1>3, EnQueueStep, DispatchStep, CloseStep
  <1>4. ASSUME NEW g \in handlers, HandlerStep(g) PROVE BufferInv'
    BY <1>4, RunStep, WriteStep, CountStep, CheckStep, CommitStep DEF HandlerStep
  <1>. QED BY <1>1, <1>2, <1>3, <1>4 DEF ClaimBufferNext

\* A step of another component leaves the buffer alone.
LEMMA BufferRests == BufferInv /\ UNCHANGED bufferVars => BufferInv'
  <1> SUFFICES ASSUME BufferInv, UNCHANGED bufferVars PROVE BufferInv'
    OBVIOUS
  <1>1. /\ UNCHANGED <<leaseOf, settledTo, recordedAs, tracked, results, resolvedCount,
                       dispatchedCount, snapshotTaken, staleMark, buffer, prefetcher,
                       dispatcher, handlers, runnerAt>>
    BY DEF bufferVars, leaseVars, rangeVars
  <1>2. Adding' = Adding /\ Queued' = Queued /\ Pending' = Pending
    BY <1>1 DEF Adding, Queued, Pending
  <1>3. JobsInv' /\ CountInv' /\ CommitInv' /\ DispatchInv'
    BY <1>1, <1>2, QuietStep
  <1>4. QueueInv' /\ CloseInv' /\ RoomInv'
    BY <1>1, <1>2 DEF BufferInv, QueueInv, CloseInv, RoomInv, AddedRangeFits, Item, Position
  <1>5. CoveredIsResolved' /\ BufferType'
    BY <1>1, CoveredStands DEF BufferInv, BufferType, IsTable, Position, HandlerOf, Item
  <1>. QED BY <1>3, <1>4, <1>5 DEF BufferInv

-----------------------------------------------------------------------------
(* The fan-out group: its log, its fences and its mark. *)

\* Ids and transaction ids are given in order.
DrawnInv ==
    /\ \A i \in Id : owner[i] # 0 <=> i <= lastId
    /\ \A i \in Id : owner[i] # 0 => owner[i] < nextXid
    /\ \A x \in Xid : txn[x] = "unused" <=> x >= nextXid

\* Every id up to h was drawn, by a transaction below x unless it is overtaken.
Fenced(h, x) ==
    \A i \in Id : i <= h => owner[i] # 0 /\ (owner[i] < x \/ Overtaken(i))

FencesInv ==
    /\ Fenced(pendingHead, pendingXid)
    /\ \A w \in Worker : Fenced(pair[w].head, pair[w].xid)

\* Below the xmin of a scan every transaction had ended, and the scan sees what
\* those transactions left.
ViewInv ==
    \A w \in Worker : phase[w] = "scanning" =>
        /\ \A x \in Xid : x < xmin[w] => txn[x] \in {"committed", "aborted"}
        /\ \A i \in Id : Visible(i) /\ owner[i] < xmin[w] => i \in view[w]

\* No message below the mark can appear any more, unless it is overtaken.
MarkInv == \A i \in Id : i <= mark => owner[i] # 0 /\ (Settled(i) \/ Overtaken(i))

DeliveryType ==
    /\ LogTypeOK
    /\ mark \in 0 .. MaxId /\ pendingHead \in 0 .. MaxId /\ pendingXid \in 0 .. MaxXid + 1
    /\ phase \in [Worker -> {"idle", "paired", "scanning"}]
    /\ pair \in [Worker -> Pair]
    /\ xmin \in [Worker -> 0 .. MaxXid + 1]
    /\ view \in [Worker -> SUBSET Id]
    /\ status \in [Id -> {"none", "ready", "processing", "done", "dead"}]

DeliveryInv ==
    DeliveryType /\ DrawnInv /\ FencesInv /\ ViewInv /\ MarkInv /\ OnlyOvertakenPassed

\* Nothing is drawn, nothing is fenced and the mark is at the beginning.
LEMMA DeliveryStart == Init => DeliveryInv
  <1> SUFFICES ASSUME Init PROVE DeliveryInv
    OBVIOUS
  <1>1. DeliveryType
    BY LogBounds DEF Init, LogInit, DeliveryType, LogTypeOK, Pair, NoPair, TxnStatus
  <1>2. DrawnInv
    BY LogBounds DEF Init, LogInit, DrawnInv, Id, Xid
  <1>3. FencesInv
    BY DEF Init, FencesInv, Fenced, NoPair, Id
  <1>4. ViewInv /\ MarkInv /\ OnlyOvertakenPassed
    BY DEF Init, LogInit, ViewInv, MarkInv, OnlyOvertakenPassed, Id
  <1>. QED BY <1>1, <1>2, <1>3, <1>4 DEF DeliveryInv

\* The batch is what lies above the mark, up to its last id when it is full.
LEMMA BatchIsLowest ==
  ASSUME DeliveryType, NEW w \in Worker
  PROVE  /\ Batch(w) \subseteq Above(w) /\ IsFiniteSet(Batch(w))
         /\ Cardinality(Batch(w)) \in Nat /\ Cardinality(Batch(w)) <= Limit
         /\ Cardinality(Batch(w)) # Limit => Batch(w) = Above(w)
         /\ Cardinality(Batch(w)) = Limit =>
              /\ Max(Batch(w)) \in Batch(w)
              /\ \A i \in Above(w) : i <= Max(Batch(w)) => i \in Batch(w)
  <1> DEFINE UpTo(i) == {j \in Above(w) : j <= i}
  <1>1. Above(w) \subseteq Id /\ Id \subseteq Nat /\ IsFiniteSet(Id)
    <2>1. Id \subseteq Nat
      BY DEF Id
    <2>2. IsFiniteSet(Id)
      BY LogBounds, FS_Interval DEF Id
    <2>3. view[w] \in SUBSET Id
      BY DEF DeliveryType
    <2>4. Above(w) \subseteq Id
      BY <2>3 DEF Above
    <2>. QED BY <2>1, <2>2, <2>4
  <1>2. /\ Batch(w) = {i \in Above(w) : Cardinality(UpTo(i)) <= Limit}
        /\ Batch(w) \subseteq Above(w)
    BY DEF Batch
  <1>3. /\ \A S \in SUBSET Above(w) : IsFiniteSet(S) /\ Cardinality(S) \in Nat
        /\ \A S \in SUBSET Above(w) : \A T \in SUBSET S : Cardinality(T) <= Cardinality(S)
    BY <1>1, FS_Subset, FS_CardinalityType
  <1> HIDE DEF UpTo
  <1>4. \A i \in Above(w) : UpTo(i) \in SUBSET Above(w) /\ i \in UpTo(i)
    <2> SUFFICES ASSUME NEW i \in Above(w) PROVE UpTo(i) \in SUBSET Above(w) /\ i \in UpTo(i)
      OBVIOUS
    <2>1. i \in Nat
      BY <1>1
    <2>2. i <= i
      BY <2>1
    <2>. QED BY <2>2 DEF UpTo
  <1>5. ASSUME NEW i \in Above(w), NEW k \in Batch(w), i <= k PROVE i \in Batch(w)
    <2>1. UpTo(i) \in SUBSET UpTo(k)
      <3>1. k \in Above(w) /\ k \in Nat /\ i \in Nat
        BY <1>1, <1>2
      <3>2. ASSUME NEW j \in UpTo(i) PROVE j \in UpTo(k)
        <4>1. j \in Above(w) /\ j <= i /\ j \in Nat
          BY <1>1, <3>2 DEF UpTo
        <4>2. j <= k
          BY <1>5, <3>1, <4>1
        <4>. QED BY <4>1, <4>2 DEF UpTo
      <3>. QED BY <3>2
    <2>2. Cardinality(UpTo(i)) <= Cardinality(UpTo(k)) /\ Cardinality(UpTo(k)) <= Limit
      BY <1>2, <1>3, <1>4, <2>1
    <2>3. Cardinality(UpTo(i)) \in Nat /\ Cardinality(UpTo(k)) \in Nat /\ Limit \in Nat
      BY <1>2, <1>3, <1>4, DeliveryBounds
    <2>4. Cardinality(UpTo(i)) <= Limit
      BY <2>2, <2>3
    <2>. QED BY <1>2, <2>4
  <1>6. ASSUME Batch(w) # {} PROVE Max(Batch(w)) \in Batch(w) /\ \A i \in Batch(w) : i <= Max(Batch(w))
    <2>1. Batch(w) \in SUBSET Nat /\ \A i \in Batch(w) : i <= MaxId
      BY <1>1, <1>2 DEF Id
    <2>. QED BY <1>6, <2>1, LogBounds, MaxOfNaturals
  <1>7. Cardinality(Batch(w)) \in Nat /\ IsFiniteSet(Batch(w))
    BY <1>2, <1>3
  <1>8. Cardinality(Batch(w)) <= Limit
    <2>1. CASE Batch(w) = {}
      BY <2>1, FS_EmptySet, DeliveryBounds
    <2>2. CASE Batch(w) # {}
      <3>1. PICK k \in Batch(w) : \A i \in Batch(w) : i <= k
        BY <1>6, <2>2
      <3>2. Batch(w) \in SUBSET UpTo(k)
        BY <1>2, <3>1 DEF UpTo
      <3>3. Cardinality(Batch(w)) <= Cardinality(UpTo(k)) /\ Cardinality(UpTo(k)) <= Limit
            /\ Cardinality(UpTo(k)) \in Nat /\ Limit \in Nat
        BY <1>2, <1>3, <1>4, <3>2, DeliveryBounds
      <3>. QED BY <1>7, <3>3
    <2>. QED BY <2>1, <2>2
  <1>9. ASSUME Cardinality(Batch(w)) # Limit PROVE Batch(w) = Above(w)
    <2> DEFINE Left == Above(w) \ Batch(w)
    <2>1. SUFFICES ASSUME Left # {} PROVE FALSE
      BY <1>2
    <2>2. PICK i \in Left : \A j \in Left : i <= j
      <3>1. Left \in SUBSET Nat
        BY <1>1
      <3>. QED BY <2>1, <3>1, MinOfNaturals
    <2>3. UpTo(i) \in SUBSET (Batch(w) \cup {i})
      <3>1. ASSUME NEW j \in UpTo(i) PROVE j \in Batch(w) \cup {i}
        <4>1. j \in Above(w) /\ j <= i /\ i \in Nat /\ j \in Nat
          BY <1>1, <2>2, <3>1 DEF UpTo
        <4>2. j \in Left => i = j
          BY <2>2, <4>1
        <4>. QED BY <4>1, <4>2
      <3>. QED BY <3>1
    <2>4. i \in Above(w) /\ i \notin Batch(w)
      BY <2>2
    <2>5. Cardinality(Batch(w) \cup {i}) = Cardinality(Batch(w)) + 1
      BY <1>7, <2>4, FS_AddElement
    <2>6. Cardinality(UpTo(i)) <= Cardinality(Batch(w) \cup {i}) /\ Cardinality(UpTo(i)) \in Nat
      BY <1>2, <1>3, <1>4, <2>3, <2>4
    <2>7. Cardinality(UpTo(i)) <= Limit
      BY <1>7, <1>8, <1>9, <2>5, <2>6, DeliveryBounds
    <2>. QED BY <1>2, <2>4, <2>7
  <1>10. Cardinality(Batch(w)) = Limit => Batch(w) # {}
    BY FS_EmptySet, DeliveryBounds
  <1>11. ASSUME Cardinality(Batch(w)) = Limit
         PROVE  /\ Max(Batch(w)) \in Batch(w)
                /\ \A i \in Above(w) : i <= Max(Batch(w)) => i \in Batch(w)
    BY <1>5, <1>6, <1>10, <1>11
  <1>. QED BY <1>2, <1>7, <1>8, <1>9, <1>11

\* The highest gate bounds the new mark, and a batch that ends below it does too.
LEMMA FanOutMoves ==
  ASSUME DeliveryType, NEW w \in Worker, FanOut(w)
  PROVE  /\ DeliveryType' /\ mark' \in Nat /\ mark <= mark'
         /\ \E gate \in Gates(w) : gate \in Nat /\ mark' <= gate
         /\ \A i \in Above(w) : i <= mark' => i \in Batch(w)
  <1>u. /\ UNCHANGED <<nextXid, txn, lastId, owner>>
        /\ status' = Materialize(w)
        /\ pendingHead' = Larger(pendingHead, pair[w].head)
        /\ pendingXid' = Larger(pendingXid, pair[w].xid)
        /\ phase' = [phase EXCEPT ![w] = "idle"]
        /\ pair' = [pair EXCEPT ![w] = NoPair]
        /\ xmin' = [xmin EXCEPT ![w] = 0]
        /\ view' = [view EXCEPT ![w] = {}]
    BY DEF FanOut, logVars
  <1>t. /\ mark \in 0 .. MaxId /\ pendingHead \in 0 .. MaxId /\ pendingXid \in 0 .. MaxXid + 1
        /\ phase \in [Worker -> {"idle", "paired", "scanning"}]
        /\ pair \in [Worker -> Pair]
        /\ xmin \in [Worker -> 0 .. MaxXid + 1]
        /\ view \in [Worker -> SUBSET Id]
        /\ status \in [Id -> {"none", "ready", "processing", "done", "dead"}]
    BY DEF DeliveryType
  <1>p. PICK h \in 0 .. MaxId, x \in 0 .. MaxXid + 1 : h = pair[w].head /\ x = pair[w].xid
    BY <1>t DEF Pair
  <1>1. PICK gate \in Gates(w) : (\A g \in Gates(w) : g <= gate) /\ mark' = Capped(w, gate)
    BY DEF FanOut
  <1>2. gate \in 0 .. MaxId /\ mark <= gate
    BY <1>1, <1>t, <1>p DEF Gates
  <1>3. /\ mark' \in mark .. gate
        /\ \A i \in Above(w) : i <= mark' => i \in Batch(w)
    <2>1. CASE Cardinality(Batch(w)) = Limit
      <3>1. PICK k : k = Max(Batch(w))
        OBVIOUS
      <3>2. k \in Above(w) /\ \A i \in Above(w) : i <= k => i \in Batch(w)
        BY <2>1, <3>1, BatchIsLowest
      <3>3. k \in Nat /\ k > mark /\ Above(w) \subseteq Nat
        BY <1>t, <3>2 DEF Above, Id
      <3>4. mark' = IF gate <= k THEN gate ELSE k
        BY <1>1, <2>1, <3>1 DEF Capped, Smaller
      <3>. QED BY <1>2, <1>t, <3>2, <3>3, <3>4
    <2>2. CASE Cardinality(Batch(w)) # Limit
      <3>1. mark' = gate /\ Batch(w) = Above(w)
        BY <1>1, <2>2, BatchIsLowest DEF Capped
      <3>. QED BY <1>2, <1>t, <3>1
    <2>. QED BY <2>1, <2>2
  <1>4. mark' \in 0 .. MaxId /\ mark <= mark' /\ mark' <= gate
    <2>1. mark \in Nat /\ gate \in Nat /\ gate <= MaxId
      BY <1>2, <1>t
    <2>. QED BY <1>3, <2>1, LogBounds
  <1>5. pendingHead' \in 0 .. MaxId /\ pendingXid' \in 0 .. MaxXid + 1
    BY <1>u, <1>t, <1>p DEF Larger
  <1>6. /\ phase' \in [Worker -> {"idle", "paired", "scanning"}]
        /\ pair' \in [Worker -> Pair] /\ xmin' \in [Worker -> 0 .. MaxXid + 1]
        /\ view' \in [Worker -> SUBSET Id]
    <2>1. NoPair \in Pair /\ 0 \in 0 .. MaxXid + 1
      BY LogBounds DEF NoPair, Pair
    <2>. QED BY <1>u, <1>t, <2>1
  <1>7. status' \in [Id -> {"none", "ready", "processing", "done", "dead"}]
    BY <1>u, <1>t DEF Materialize
  <1>8. DeliveryType'
    BY <1>u, <1>4, <1>5, <1>6, <1>7 DEF DeliveryType, LogTypeOK
  <1>. QED BY <1>1, <1>2, <1>3, <1>4, <1>8

\* A producer's step types the log, and a worker's or a runner's what it writes.
LEMMA DeliveryTypeStep == DeliveryType /\ Next => DeliveryType' /\ ForwardStep
  <1> SUFFICES ASSUME DeliveryType, Next PROVE DeliveryType' /\ ForwardStep
    OBVIOUS
  <1>t. mark \in Nat
    BY LogBounds DEF DeliveryType
  <1>1. CASE Produce /\ UNCHANGED <<markVars, workerVars, rowVars>>
    <2>1. LogTypeOK'
      <3>1. CASE ClaimIdempotencyKey
        BY <3>1, LogBounds DEF ClaimIdempotencyKey, DeliveryType, LogTypeOK, TxnStatus, Xid
      <3>2. ASSUME NEW x \in Xid, InsertMessage(x) PROVE LogTypeOK'
        BY <3>2, LogBounds DEF InsertMessage, DeliveryType, LogTypeOK, Xid, Id
      <3>3. ASSUME NEW x \in Xid, CommitProduce(x) \/ AbortProduce(x) PROVE LogTypeOK'
        BY <3>3 DEF CommitProduce, AbortProduce, DeliveryType, LogTypeOK, TxnStatus
      <3>. QED BY <1>1, <3>1, <3>2, <3>3 DEF Produce
    <2>. QED BY <1>t, <1>1, <2>1 DEF DeliveryType, ForwardStep, markVars, workerVars, rowVars
  <1>2. ASSUME NEW w \in Worker, FanOut(w) PROVE DeliveryType' /\ ForwardStep
    <2>1. status' = Materialize(w)
      BY <1>2 DEF FanOut
    <2>. QED BY <1>2, <2>1, FanOutMoves DEF ForwardStep, Materialize
  <1>3. ASSUME NEW w \in Worker, NEW h \in 0 .. MaxId, NEW x \in 1 .. MaxXid + 1, TakePair(w, h, x)
        PROVE  DeliveryType' /\ ForwardStep
    <2>1. /\ pair' = [pair EXCEPT ![w] = [head |-> h, xid |-> x]]
          /\ phase' = [phase EXCEPT ![w] = "paired"]
          /\ UNCHANGED <<nextXid, txn, lastId, owner, mark, pendingHead, pendingXid, xmin, view, status>>
      BY <1>3 DEF TakePair, logVars, markVars, rowVars
    <2>2. [head |-> h, xid |-> x] \in Pair
      <3>1. h \in 0 .. MaxId /\ x \in 0 .. MaxXid + 1
        BY LogBounds
      <3>. QED BY <3>1 DEF Pair
    <2>3. phase' \in [Worker -> {"idle", "paired", "scanning"}] /\ pair' \in [Worker -> Pair]
      BY <2>1, <2>2 DEF DeliveryType
    <2>. QED BY <1>t, <2>1, <2>3 DEF DeliveryType, LogTypeOK, ForwardStep
  <1>4. ASSUME NEW w \in Worker, NEW m \in 1 .. MaxXid + 1, BeginScan(w, m)
        PROVE  DeliveryType' /\ ForwardStep
    <2>1. /\ xmin' = [xmin EXCEPT ![w] = m]
          /\ view' = [view EXCEPT ![w] = {i \in Id : Visible(i)}]
          /\ phase' = [phase EXCEPT ![w] = "scanning"]
          /\ UNCHANGED <<nextXid, txn, lastId, owner, mark, pendingHead, pendingXid, pair, status>>
      BY <1>4 DEF BeginScan, logVars, markVars, rowVars
    <2>2. {i \in Id : Visible(i)} \in SUBSET Id /\ m \in 0 .. MaxXid + 1
      BY LogBounds
    <2>3. /\ phase' \in [Worker -> {"idle", "paired", "scanning"}]
          /\ xmin' \in [Worker -> 0 .. MaxXid + 1] /\ view' \in [Worker -> SUBSET Id]
      BY <2>1, <2>2 DEF DeliveryType
    <2>. QED BY <1>t, <2>1, <2>3 DEF DeliveryType, LogTypeOK, ForwardStep
  <1>5. ASSUME NEW w \in Worker, AbandonFanOut(w) PROVE DeliveryType' /\ ForwardStep
    <2>1. /\ pair' = [pair EXCEPT ![w] = NoPair] /\ xmin' = [xmin EXCEPT ![w] = 0]
          /\ view' = [view EXCEPT ![w] = {}] /\ phase' = [phase EXCEPT ![w] = "idle"]
          /\ UNCHANGED <<nextXid, txn, lastId, owner, mark, pendingHead, pendingXid, status>>
      BY <1>5 DEF AbandonFanOut, logVars, markVars, rowVars
    <2>2. NoPair \in Pair /\ 0 \in 0 .. MaxXid + 1
      BY LogBounds DEF NoPair, Pair
    <2>3. /\ phase' \in [Worker -> {"idle", "paired", "scanning"}] /\ pair' \in [Worker -> Pair]
          /\ xmin' \in [Worker -> 0 .. MaxXid + 1] /\ view' \in [Worker -> SUBSET Id]
      BY <2>1, <2>2 DEF DeliveryType
    <2>. QED BY <1>t, <2>1, <2>3 DEF DeliveryType, LogTypeOK, ForwardStep
  <1>6. ASSUME NEW i \in Id, DeliveryStep(i) PROVE DeliveryType' /\ ForwardStep
    <2>1. PICK s \in {"ready", "processing", "done", "dead"} :
            status[i] \in {"ready", "processing"} /\ status' = [status EXCEPT ![i] = s]
      BY <1>6 DEF DeliveryStep, ClaimDelivery, RecordSuccess, RecordFailure, RecordTerminal, Record
    <2>2. UNCHANGED <<logVars, markVars, workerVars>>
      BY <1>6 DEF DeliveryStep, ClaimDelivery, RecordSuccess, RecordFailure, RecordTerminal, Record
    <2>. QED BY <1>t, <2>1, <2>2
          DEF DeliveryType, LogTypeOK, ForwardStep, logVars, markVars, workerVars
  <1>. QED BY <1>1, <1>2, <1>3, <1>4, <1>5, <1>6 DEF Next, FanOutStep

\* A producer's step leaves settled what is settled and fenced what is fenced.
LEMMA LogStep ==
  DeliveryInv /\ Produce /\ UNCHANGED <<markVars, workerVars, rowVars>> => DeliveryInv'
  <1> SUFFICES ASSUME DeliveryInv, Produce, UNCHANGED <<markVars, workerVars, rowVars>>
               PROVE  DeliveryInv'
    OBVIOUS
  <1>u. UNCHANGED <<mark, pendingHead, pendingXid, phase, pair, xmin, view, status>>
    BY DEF markVars, workerVars, rowVars
  <1>t. LogTypeOK /\ DrawnInv
    BY DEF DeliveryInv, DeliveryType
  <1>1. /\ DrawnInv'
        /\ \A i \in Id : owner[i] # 0 => owner'[i] = owner[i]
        /\ \A i \in Id : owner'[i] # owner[i] =>
              owner'[i] \in Xid /\ txn[owner'[i]] = "running" /\ UNCHANGED txn
        /\ \A x \in Xid : txn[x] \in {"committed", "aborted"} => txn'[x] = txn[x]
    <2>1. CASE ClaimIdempotencyKey
      BY <1>t, <2>1, LogBounds DEF ClaimIdempotencyKey, LogTypeOK, DrawnInv, TxnStatus, Xid, Id
    <2>2. ASSUME NEW x \in Xid, InsertMessage(x)
          PROVE  /\ DrawnInv'
                 /\ \A i \in Id : owner[i] # 0 => owner'[i] = owner[i]
                 /\ \A i \in Id : owner'[i] # owner[i] =>
                       owner'[i] \in Xid /\ txn[owner'[i]] = "running" /\ UNCHANGED txn
                 /\ UNCHANGED txn
      BY <1>t, <2>2, LogBounds DEF InsertMessage, LogTypeOK, DrawnInv, TxnStatus, Xid, Id
    <2>3. ASSUME NEW x \in Xid, CommitProduce(x) \/ AbortProduce(x)
          PROVE  /\ DrawnInv' /\ UNCHANGED owner
                 /\ \A y \in Xid : txn[y] \in {"committed", "aborted"} => txn'[y] = txn[y]
      BY <1>t, <2>3, LogBounds DEF CommitProduce, AbortProduce, LogTypeOK, DrawnInv, TxnStatus, Xid, Id
    <2>. QED BY <2>1, <2>2, <2>3 DEF Produce, ClaimIdempotencyKey
  <1>2. DeliveryType'
    BY DeliveryTypeStep DEF DeliveryInv, Next
  <1>o. ASSUME NEW i \in Id, Overtaken(i) PROVE Overtaken(i)'
    <2>1. PICK j \in Id : j > i /\ Visible(j) /\ owner[j] < owner[i]
      BY <1>o DEF Overtaken
    <2>2. owner[j] \in Xid /\ txn[owner[j]] = "committed" /\ owner[i] # 0
      BY <1>t, <2>1 DEF Visible, LogTypeOK, Xid
    <2>3. owner'[j] = owner[j] /\ owner'[i] = owner[i] /\ txn'[owner[j]] = "committed"
      BY <1>1, <2>1, <2>2 DEF Visible
    <2>. QED BY <2>1, <2>3 DEF Overtaken, Visible
  <1>3. \A h, x : Fenced(h, x) => Fenced(h, x)'
    <2> SUFFICES ASSUME NEW h, NEW x, Fenced(h, x), NEW i \in Id, i <= h
                 PROVE  owner'[i] # 0 /\ (owner'[i] < x \/ Overtaken(i)')
      BY DEF Fenced
    <2>1. owner[i] # 0 /\ (owner[i] < x \/ Overtaken(i))
      BY DEF Fenced
    <2>. QED BY <1>1, <1>o, <2>1
  <1>4. FencesInv'
    BY <1>u, <1>3 DEF DeliveryInv, FencesInv
  <1>5. ASSUME NEW i \in Id, owner[i] \in Xid, txn[owner[i]] \in {"committed", "aborted"}
        PROVE  (Visible(i)' <=> Visible(i)) /\ (Settled(i) => Settled(i)')
    BY <1>1, <1>5 DEF Visible, Settled, Xid
  <1>6. MarkInv' /\ OnlyOvertakenPassed'
    <2>1. ASSUME NEW i \in Id, i <= mark, ~ Overtaken(i)
          PROVE  owner[i] \in Xid /\ txn[owner[i]] \in {"committed", "aborted"} /\ Settled(i)
      <3>1. owner[i] # 0 /\ txn[owner[i]] # "running" /\ owner[i] \in 0 .. MaxXid
        BY <1>t, <2>1 DEF DeliveryInv, MarkInv, Settled, LogTypeOK
      <3>2. owner[i] \in Xid /\ owner[i] < nextXid
        BY <1>t, <3>1 DEF DrawnInv, Xid
      <3>3. txn[owner[i]] \in TxnStatus /\ txn[owner[i]] # "unused"
        <4>1. nextXid \in Nat /\ owner[i] \in Nat
          BY <1>t, <3>1 DEF LogTypeOK
        <4>. QED BY <1>t, <3>2, <4>1 DEF LogTypeOK, DrawnInv
      <3>. QED BY <2>1, <3>1, <3>2, <3>3 DEF TxnStatus, DeliveryInv, MarkInv
    <2>2. \A i \in Id : i <= mark /\ ~ Overtaken(i) => Settled(i)' /\ (Visible(i)' <=> Visible(i))
      BY <1>5, <2>1
    <2>3. \A i \in Id : i <= mark => owner'[i] # 0
      BY <1>1 DEF DeliveryInv, MarkInv
    <2>. QED BY <1>u, <1>o, <2>2, <2>3 DEF DeliveryInv, MarkInv, OnlyOvertakenPassed
  <1>7. ViewInv'
    <2> SUFFICES ASSUME NEW w \in Worker, phase[w] = "scanning"
                 PROVE  /\ \A x \in Xid : x < xmin[w] => txn'[x] \in {"committed", "aborted"}
                        /\ \A i \in Id : Visible(i)' /\ owner'[i] < xmin[w] => i \in view[w]
      BY <1>u DEF ViewInv
    <2>1. /\ \A x \in Xid : x < xmin[w] => txn[x] \in {"committed", "aborted"}
          /\ \A i \in Id : Visible(i) /\ owner[i] < xmin[w] => i \in view[w]
      BY DEF DeliveryInv, ViewInv
    <2>2. ASSUME NEW i \in Id, Visible(i)', owner'[i] < xmin[w] PROVE i \in view[w]
      <3>1. CASE owner'[i] # owner[i]
        BY <1>1, <2>1, <2>2, <3>1
      <3>2. CASE owner'[i] = owner[i]
        <4>1. owner[i] \in Xid
          BY <1>t, <2>2, <3>2 DEF Visible, LogTypeOK, Xid
        <4>2. txn[owner[i]] \in {"committed", "aborted"}
          BY <2>1, <2>2, <3>2, <4>1
        <4>. QED BY <1>5, <2>1, <2>2, <3>2, <4>1, <4>2
      <3>. QED BY <3>1, <3>2
    <2>. QED BY <1>1, <2>1, <2>2
  <1>. QED BY <1>1, <1>2, <1>4, <1>6, <1>7 DEF DeliveryInv

\* Below a visible head an id's transaction is below any bound of the ended ones,
\* or the head overtook it.
LEMMA PairIsFenced ==
  ASSUME DeliveryInv, NEW h \in 0 .. MaxId, NEW x \in 1 .. MaxXid + 1,
         IsVisibleHead(h), IsXmax(x)
  PROVE  Fenced(h, x)
  <1> SUFFICES ASSUME NEW i \in Id, i <= h PROVE owner[i] # 0 /\ (owner[i] < x \/ Overtaken(i))
    BY DEF Fenced
  <1>1. h \in Id /\ Visible(h)
    BY LogBounds DEF IsVisibleHead, Id
  <1>2. owner[h] \in Xid /\ txn[owner[h]] = "committed"
    BY <1>1 DEF Visible, DeliveryInv, DeliveryType, LogTypeOK, Xid
  <1>3. owner[h] < x
    BY <1>2 DEF IsXmax, Ended
  <1>4. owner[i] # 0
    <2>1. h <= lastId /\ lastId \in Nat /\ \A j \in Id : owner[j] # 0 <=> j <= lastId
      BY <1>1 DEF Visible, DeliveryInv, DeliveryType, LogTypeOK, DrawnInv
    <2>2. i \in Nat /\ h \in Nat
      BY <1>1 DEF Id
    <2>. QED BY <2>1, <2>2
  <1>5. owner[i] \in Nat /\ owner[h] \in Nat /\ x \in Nat /\ i \in Nat /\ h \in Nat
    <2>1. owner \in [Id -> 0 .. MaxXid]
      BY DEF DeliveryInv, DeliveryType, LogTypeOK
    <2>2. owner[i] \in Nat /\ owner[h] \in Nat
      BY <1>1, <2>1
    <2>3. i \in Nat /\ h \in Nat
      BY <1>1 DEF Id
    <2>. QED BY <2>2, <2>3
  <1>6. CASE owner[i] <= owner[h]
    BY <1>3, <1>4, <1>5, <1>6
  <1>7. CASE owner[h] < owner[i]
    <2>1. h > i
      BY <1>5, <1>7
    <2>. QED BY <1>1, <1>4, <1>7, <2>1 DEF Overtaken
  <1>. QED BY <1>5, <1>6, <1>7

\* Below the xmin of a snapshot every transaction has ended.
LEMMA XminIsFloor ==
  ASSUME DeliveryInv, NEW m \in 1 .. MaxXid + 1, IsXmin(m), NEW x \in Xid, x < m
  PROVE  txn[x] \in {"committed", "aborted"}
  <1>1. x \notin Running
    BY DEF IsXmin, Xid
  <1>2. nextXid \in Nat /\ m <= nextXid
    <2>1. nextXid \in Nat /\ \A y \in Xid : txn[y] # "unused" => y < nextXid
      BY DEF DeliveryInv, DrawnInv, DeliveryType, LogTypeOK, Xid
    <2>2. CASE m \in Running
      BY <2>1, <2>2 DEF Running, Xid
    <2>3. CASE m # 1 /\ m - 1 \in Ended
      BY <2>1, <2>3 DEF Ended, Xid
    <2>4. CASE m = 1
      BY <2>1, <2>4 DEF DeliveryInv, DeliveryType, LogTypeOK
    <2>. QED BY <2>2, <2>3, <2>4 DEF IsXmin, IsXmax
  <1>3. txn[x] \in TxnStatus /\ txn[x] # "unused"
    <2>1. ~(x >= nextXid)
      BY <1>2 DEF Xid
    <2>2. txn[x] \in TxnStatus
      BY DEF DeliveryInv, DeliveryType, LogTypeOK
    <2>. QED BY <2>1, <2>2 DEF DeliveryInv, DrawnInv
  <1>. QED BY <1>1, <1>3 DEF Running, TxnStatus

\* Of the ids up to a fence its xmin has reached a snapshot has every message that
\* is not overtaken.
LEMMA FenceIsSeen ==
  ASSUME DeliveryInv, NEW w \in Worker, phase[w] = "scanning",
         NEW h \in Nat, NEW x \in Nat, Fenced(h, x), xmin[w] >= x,
         NEW i \in Id, i <= h
  PROVE  owner[i] # 0 /\ (Overtaken(i) \/ (Settled(i) /\ (Visible(i) => i \in view[w])))
  <1>1. owner[i] \in Xid /\ (Overtaken(i) \/ owner[i] < x)
    BY DEF Fenced, DeliveryInv, DeliveryType, LogTypeOK, Xid
  <1>2. ASSUME owner[i] < x PROVE owner[i] < xmin[w]
    <2>1. xmin[w] \in Nat /\ owner[i] \in Nat
      BY <1>1 DEF DeliveryInv, DeliveryType, Xid
    <2>. QED BY <1>2, <2>1
  <1>3. owner[i] # 0
    BY <1>1 DEF Xid
  <1>4. CASE owner[i] < x
    BY <1>1, <1>2, <1>3, <1>4 DEF DeliveryInv, ViewInv, Settled
  <1>. QED BY <1>1, <1>3, <1>4

\* A fan-out of a racing worker: the mark moves over settled messages that the
\* snapshot of the scan has, each of which gets its row, and over overtaken ones.
LEMMA FanOutInv ==
  ASSUME DeliveryInv, NEW w \in Worker, FanOut(w)
  PROVE  DeliveryInv'
  <1>u. /\ phase[w] = "scanning"
        /\ UNCHANGED <<nextXid, txn, lastId, owner>>
        /\ status' = Materialize(w)
        /\ pendingHead' = Larger(pendingHead, pair[w].head)
        /\ pendingXid' = Larger(pendingXid, pair[w].xid)
        /\ phase' = [phase EXCEPT ![w] = "idle"]
        /\ pair' = [pair EXCEPT ![w] = NoPair]
        /\ xmin' = [xmin EXCEPT ![w] = 0]
        /\ view' = [view EXCEPT ![w] = {}]
    BY DEF FanOut, logVars
  <1>t. /\ LogTypeOK
        /\ mark \in 0 .. MaxId /\ pendingHead \in 0 .. MaxId /\ pendingXid \in 0 .. MaxXid + 1
        /\ phase \in [Worker -> {"idle", "paired", "scanning"}]
        /\ pair \in [Worker -> Pair]
        /\ xmin \in [Worker -> 0 .. MaxXid + 1]
        /\ view \in [Worker -> SUBSET Id]
        /\ status \in [Id -> {"none", "ready", "processing", "done", "dead"}]
    BY DEF DeliveryInv, DeliveryType
  <1>p. PICK h \in 0 .. MaxId, x \in 0 .. MaxXid + 1 : h = pair[w].head /\ x = pair[w].xid
    BY <1>t DEF Pair
  <1>f. Fenced(h, x) /\ Fenced(pendingHead, pendingXid)
    BY <1>p DEF DeliveryInv, FencesInv
  <1>1. PICK gate \in Gates(w) :
          /\ DeliveryType' /\ mark' \in Nat /\ mark <= mark' /\ gate \in Nat /\ mark' <= gate
          /\ \A i \in Above(w) : i <= mark' => i \in Batch(w)
    BY FanOutMoves DEF DeliveryInv
  <1>2. ASSUME NEW i \in Id, i <= gate
        PROVE  /\ owner[i] # 0
               /\ \/ Overtaken(i)
                  \/ Settled(i) /\ (Visible(i) /\ i > mark => i \in Above(w))
    <2>1. CASE gate = mark
      BY <1>2, <2>1, <1>t DEF DeliveryInv, MarkInv, Id
    <2>2. CASE gate = h /\ xmin[w] >= x
      <3>1. owner[i] # 0 /\ (Overtaken(i) \/ (Settled(i) /\ (Visible(i) => i \in view[w])))
        BY <1>u, <1>f, <1>2, <2>2, FenceIsSeen, LogBounds
      <3>. QED BY <3>1 DEF Above
    <2>3. CASE gate = pendingHead /\ xmin[w] >= pendingXid
      <3>1. owner[i] # 0 /\ (Overtaken(i) \/ (Settled(i) /\ (Visible(i) => i \in view[w])))
        BY <1>u, <1>t, <1>f, <1>2, <2>3, FenceIsSeen, LogBounds
      <3>. QED BY <3>1 DEF Above
    <2>. QED BY <1>1, <1>p, <2>1, <2>2, <2>3 DEF Gates
  <1>3. Fenced(pendingHead', pendingXid')
    <2>1. /\ pendingHead' \in {pendingHead, h} /\ pendingXid' \in {pendingXid, x}
          /\ pendingXid <= pendingXid' /\ x <= pendingXid'
      BY <1>u, <1>t, <1>p DEF Larger
    <2>2. ASSUME NEW i \in Id, i <= pendingHead'
          PROVE  owner[i] # 0 /\ (owner[i] < pendingXid' \/ Overtaken(i))
      <3>1. /\ owner[i] # 0 /\ owner[i] \in Nat
            /\ owner[i] < pendingXid \/ owner[i] < x \/ Overtaken(i)
        BY <1>f, <1>t, <2>1, <2>2 DEF Fenced, LogTypeOK
      <3>. QED BY <1>t, <2>1, <3>1
    <2>. QED BY <1>t, <2>1, <2>2 DEF Fenced
  <1>4. /\ \A v \in Worker : v # w => /\ phase'[v] = phase[v] /\ pair'[v] = pair[v]
                                      /\ xmin'[v] = xmin[v] /\ view'[v] = view[v]
        /\ phase'[w] = "idle" /\ pair'[w] = NoPair
    BY <1>u, <1>t
  <1>5. /\ \A i \in Id : status[i] # "none" => status'[i] = status[i]
        /\ \A i \in Batch(w) \cap Id : i \notin Unmatched => status'[i] # "none"
    BY <1>u, <1>t DEF Materialize
  <1>6. DrawnInv'
    BY <1>u DEF DeliveryInv, DrawnInv
  <1>7. FencesInv'
    <2>1. Fenced(NoPair.head, NoPair.xid)
      BY DEF Fenced, NoPair, Id
    <2>2. ASSUME NEW v \in Worker PROVE Fenced(pair'[v].head, pair'[v].xid)
      BY <1>4, <2>1 DEF DeliveryInv, FencesInv
    <2>. QED BY <1>u, <1>3, <2>2 DEF FencesInv, Fenced, Overtaken, Visible
  <1>8. ViewInv'
    BY <1>u, <1>4 DEF DeliveryInv, ViewInv, Visible
  <1>9. MarkInv' /\ OnlyOvertakenPassed'
    <2>1. ASSUME NEW i \in Id, i <= mark'
          PROVE  /\ owner[i] # 0
                 /\ \/ Overtaken(i)
                    \/ Settled(i) /\ (i \notin Unmatched /\ Visible(i) => status'[i] # "none")
      <3>1. i \in Nat /\ i <= gate
        BY <1>1, <2>1 DEF Id
      <3>2. owner[i] # 0 /\ (Overtaken(i) \/ Settled(i))
        BY <1>2, <3>1
      <3>3. CASE i <= mark
        BY <1>5, <3>2, <3>3 DEF DeliveryInv, OnlyOvertakenPassed
      <3>4. CASE i > mark
        <4>1. Overtaken(i) \/ (Visible(i) => i \in Batch(w))
          BY <1>1, <1>2, <2>1, <3>1, <3>4
        <4>. QED BY <1>5, <3>2, <4>1
      <3>. QED BY <1>t, <3>1, <3>3, <3>4
    <2>2. \A i \in Id : /\ Settled(i)' <=> Settled(i)
                        /\ Visible(i)' <=> Visible(i)
                        /\ Overtaken(i)' <=> Overtaken(i)
      BY <1>u DEF Settled, Visible, Overtaken
    <2>. QED BY <1>u, <2>1, <2>2 DEF MarkInv, OnlyOvertakenPassed
  <1>. QED BY <1>1, <1>6, <1>7, <1>8, <1>9 DEF DeliveryInv

\* The steps of a worker before its fan-out commits, and those it leaves undone.
LEMMA ScanInv ==
  ASSUME DeliveryInv, NEW w \in Worker,
         \/ \E h \in 0 .. MaxId, x \in 1 .. MaxXid + 1 : TakePair(w, h, x)
         \/ \E m \in 1 .. MaxXid + 1 : BeginScan(w, m)
         \/ AbandonFanOut(w)
  PROVE  DeliveryInv'
  <1>t. /\ LogTypeOK
        /\ phase \in [Worker -> {"idle", "paired", "scanning"}]
        /\ pair \in [Worker -> Pair]
        /\ xmin \in [Worker -> 0 .. MaxXid + 1]
        /\ view \in [Worker -> SUBSET Id]
    BY DEF DeliveryInv, DeliveryType
  <1>u. UNCHANGED <<nextXid, txn, lastId, owner, mark, pendingHead, pendingXid, status>>
    BY DEF TakePair, BeginScan, AbandonFanOut, logVars, markVars, rowVars
  <1>1. \A v \in Worker : v # w => phase'[v] = phase[v]
    BY <1>t DEF TakePair, BeginScan, AbandonFanOut
  <1>2. \A v \in Worker : Fenced(pair'[v].head, pair'[v].xid)
    <2>0. \A v \in Worker : Fenced(pair[v].head, pair[v].xid)
      BY DEF DeliveryInv, FencesInv
    <2>1. ASSUME NEW h \in 0 .. MaxId, NEW x \in 1 .. MaxXid + 1, TakePair(w, h, x)
          PROVE  \A v \in Worker : Fenced(pair'[v].head, pair'[v].xid)
      <3>1. Fenced(h, x)
        BY <2>1, PairIsFenced DEF TakePair
      <3>2. PICK q \in Pair : q = [head |-> h, xid |-> x]
        <4>1. h \in 0 .. MaxId /\ x \in 0 .. MaxXid + 1
          BY LogBounds
        <4>2. [head |-> h, xid |-> x] \in Pair
          BY <4>1 DEF Pair
        <4>. QED BY <4>2
      <3>3. q.head = h /\ q.xid = x /\ pair' = [pair EXCEPT ![w] = q]
        BY <2>1, <3>2 DEF TakePair
      <3>. QED BY <1>t, <2>0, <3>1, <3>3
    <2>2. CASE \E m \in 1 .. MaxXid + 1 : BeginScan(w, m)
      BY <1>t, <2>0, <2>2 DEF BeginScan
    <2>3. CASE AbandonFanOut(w)
      <3>1. Fenced(NoPair.head, NoPair.xid)
        BY DEF Fenced, NoPair, Id
      <3>2. pair' = [pair EXCEPT ![w] = NoPair]
        BY <2>3 DEF AbandonFanOut
      <3>. QED BY <1>t, <2>0, <3>1, <3>2
    <2>. QED BY <2>1, <2>2, <2>3
  <1>3. /\ \A v \in Worker : v # w => xmin'[v] = xmin[v] /\ view'[v] = view[v]
        /\ phase'[w] = "scanning" =>
             /\ \A x \in Xid : x < xmin'[w] => txn[x] \in {"committed", "aborted"}
             /\ \A i \in Id : Visible(i) => i \in view'[w]
    <2>1. ASSUME NEW m \in 1 .. MaxXid + 1, BeginScan(w, m)
          PROVE  /\ \A v \in Worker : v # w => xmin'[v] = xmin[v] /\ view'[v] = view[v]
                 /\ \A x \in Xid : x < xmin'[w] => txn[x] \in {"committed", "aborted"}
                 /\ \A i \in Id : Visible(i) => i \in view'[w]
      <3>1. /\ IsXmin(m) /\ xmin' = [xmin EXCEPT ![w] = m]
            /\ view' = [view EXCEPT ![w] = {i \in Id : Visible(i)}]
        BY <2>1 DEF BeginScan
      <3>2. \A x \in Xid : x < m => txn[x] \in {"committed", "aborted"}
        BY <3>1, XminIsFloor
      <3>. QED BY <1>t, <3>1, <3>2
    <2>2. CASE AbandonFanOut(w)
      BY <1>t, <2>2, LogBounds DEF AbandonFanOut
    <2>3. CASE \E h \in 0 .. MaxId, x \in 1 .. MaxXid + 1 : TakePair(w, h, x)
      BY <1>t, <2>3 DEF TakePair
    <2>. QED BY <2>1, <2>2, <2>3
  <1>4. DeliveryType'
    BY DeliveryTypeStep DEF DeliveryInv, Next, FanOutStep
  <1>5. DrawnInv' /\ MarkInv' /\ OnlyOvertakenPassed'
    BY <1>u DEF DeliveryInv, DrawnInv, MarkInv, OnlyOvertakenPassed, Settled, Visible, Overtaken
  <1>6. FencesInv'
    BY <1>u, <1>2 DEF DeliveryInv, FencesInv, Fenced, Overtaken, Visible
  <1>7. ViewInv'
    <2> SUFFICES ASSUME NEW v \in Worker, phase'[v] = "scanning"
                 PROVE  /\ \A x \in Xid : x < xmin'[v] => txn[x] \in {"committed", "aborted"}
                        /\ \A i \in Id : Visible(i) /\ owner[i] < xmin'[v] => i \in view'[v]
      BY <1>u DEF ViewInv, Visible
    <2>1. CASE v = w
      BY <1>3, <2>1
    <2>2. CASE v # w
      BY <1>1, <1>3, <2>2 DEF DeliveryInv, ViewInv
    <2>. QED BY <2>1, <2>2
  <1>. QED BY <1>4, <1>5, <1>6, <1>7 DEF DeliveryInv

\* A delivery's runs leave every row there is.
LEMMA RunInv ==
  ASSUME DeliveryInv, NEW i \in Id, DeliveryStep(i)
  PROVE  DeliveryInv'
  <1>1. PICK s \in {"ready", "processing", "done", "dead"} : status' = [status EXCEPT ![i] = s]
    BY DEF DeliveryStep, ClaimDelivery, RecordSuccess, RecordFailure, RecordTerminal, Record
  <1>2. UNCHANGED <<logVars, markVars, workerVars>>
    BY DEF DeliveryStep, ClaimDelivery, RecordSuccess, RecordFailure, RecordTerminal, Record
  <1>3. UNCHANGED <<nextXid, txn, lastId, owner, mark, pendingHead, pendingXid, phase, pair, xmin, view>>
    BY <1>2 DEF logVars, markVars, workerVars
  <1>4. \A j \in Id : status[j] # "none" => status'[j] # "none"
    BY <1>1 DEF DeliveryInv, DeliveryType
  <1>5. DeliveryType'
    BY DeliveryTypeStep DEF DeliveryInv, Next
  <1>6. DrawnInv' /\ FencesInv' /\ ViewInv'
    BY <1>3 DEF DeliveryInv, DrawnInv, FencesInv, Fenced, ViewInv, Visible, Overtaken
  <1>7. MarkInv' /\ OnlyOvertakenPassed'
    BY <1>3, <1>4 DEF DeliveryInv, MarkInv, OnlyOvertakenPassed, Settled, Visible, Overtaken
  <1>. QED BY <1>5, <1>6, <1>7 DEF DeliveryInv

\* Every step keeps the invariant, whatever order the ids are drawn in.
LEMMA DeliveryNextInv == DeliveryInv /\ Next => DeliveryInv'
  BY LogStep, FanOutInv, ScanInv, RunInv DEF Next, FanOutStep

\* A step of another component leaves the fan-out alone.
LEMMA DeliveryRests == DeliveryInv /\ UNCHANGED vars => DeliveryInv'
  <1> SUFFICES ASSUME DeliveryInv, UNCHANGED vars PROVE DeliveryInv'
    OBVIOUS
  <1>1. UNCHANGED <<nextXid, txn, lastId, owner, mark, pendingHead, pendingXid, phase, pair, xmin,
                    view, status>>
    BY DEF vars, logVars, markVars, workerVars, rowVars
  <1>2. DeliveryType' /\ DrawnInv'
    BY <1>1 DEF DeliveryInv, DeliveryType, LogTypeOK, DrawnInv
  <1>3. FencesInv' /\ ViewInv'
    BY <1>1 DEF DeliveryInv, FencesInv, Fenced, ViewInv, Visible, Overtaken
  <1>4. MarkInv' /\ OnlyOvertakenPassed'
    BY <1>1 DEF DeliveryInv, MarkInv, OnlyOvertakenPassed, Settled, Visible, Overtaken
  <1>. QED BY <1>2, <1>3, <1>4 DEF DeliveryInv

-----------------------------------------------------------------------------
(* The exception window: this instance is a cursor group, and what           *)
(* CursorGroupProofs shows of every cursor group holds of it.  Its messages   *)
(* have no key: no delivery runs under the lease of one.                      *)
ExceptionsProof ==
    INSTANCE CursorGroupProofs WITH
        MaxId <- 3, Row <- MixedRows, Limit <- 3, MaxRangeReclaims <- 2,
        MaxRetries <- 2, MaxDelays <- 1, MaxStalls <- 2,
        LeaseToken <- RangeToken, RunToken <- ExceptionToken,
        claimed <- groupClaimed, lease <- rangeLease,
        key <- [holder |-> NoToken, expired |-> FALSE],
        running <- [d \in RangeToken \cup ExceptionToken |-> 0]

\* The rows of the instance are those a cursor group may have.
LEMMA RowsAreKinds == MixedRows \in [ExceptionsProof!Id -> ExceptionsProof!RowKind]
  BY DEF MixedRows, ExceptionsProof!Id, ExceptionsProof!RowKind

\* The window starts empty.
LEMMA ExceptionsStart == Exceptions!Init => ExceptionsProof!IInv
  <1>1. Exceptions!Init => ExceptionsProof!Init
    BY DEF Exceptions!Init, ExceptionsProof!Init, Exceptions!NoLease, ExceptionsProof!NoLease,
           Exceptions!NoRange, ExceptionsProof!NoRange, Exceptions!NoRow,
           ExceptionsProof!NoRow, Exceptions!Id, ExceptionsProof!Id
  <1>2. ExceptionsProof!Init => ExceptionsProof!IInv
    BY ExceptionsProof!InitInv, RowsAreKinds, ExceptionTokens
  <1>. QED BY <1>1, <1>2

\* The two instances have the same steps.
LEMMA SameNext == Exceptions!Next => ExceptionsProof!Next
  BY DEF Exceptions!Kind, ExceptionsProof!Kind, Exceptions!NoLease, ExceptionsProof!NoLease,
         Exceptions!NoRange, ExceptionsProof!NoRange, Exceptions!NoRow, ExceptionsProof!NoRow,
         Exceptions!Larger, ExceptionsProof!Larger, Exceptions!Smaller,
         ExceptionsProof!Smaller, Exceptions!Leased, ExceptionsProof!Leased, Exceptions!Held,
         ExceptionsProof!Held, Exceptions!Fresh, ExceptionsProof!Fresh, Exceptions!Rotated,
         ExceptionsProof!Rotated, Exceptions!InLease, ExceptionsProof!InLease,
         Exceptions!InRange, ExceptionsProof!InRange, Exceptions!Readable,
         ExceptionsProof!Readable, Exceptions!NewRange, ExceptionsProof!NewRange,
         Exceptions!Unresolved, ExceptionsProof!Unresolved, Exceptions!Failures,
         ExceptionsProof!Failures, Exceptions!NewRow, ExceptionsProof!NewRow,
         Exceptions!OutcomeRow, ExceptionsProof!OutcomeRow, Exceptions!Insertable,
         ExceptionsProof!Insertable, Exceptions!FreshClaim, ExceptionsProof!FreshClaim,
         Exceptions!Reclaim, ExceptionsProof!Reclaim, Exceptions!Quarantine,
         ExceptionsProof!Quarantine, Exceptions!ExpireLease, ExceptionsProof!ExpireLease,
         Exceptions!Resolve, ExceptionsProof!Resolve, Exceptions!AllResolved,
         ExceptionsProof!AllResolved, Exceptions!IsLastProcessed,
         ExceptionsProof!IsLastProcessed, Exceptions!Outcomes, ExceptionsProof!Outcomes,
         Exceptions!WithOutcomes, ExceptionsProof!WithOutcomes, Exceptions!CommitRange,
         ExceptionsProof!CommitRange, Exceptions!PartialCommit, ExceptionsProof!PartialCommit,
         Exceptions!ForceReclaim, ExceptionsProof!ForceReclaim, Exceptions!AbandonRange,
         ExceptionsProof!AbandonRange, Exceptions!Killable, ExceptionsProof!Killable,
         Exceptions!Kill, ExceptionsProof!Kill, Exceptions!Claimable,
         ExceptionsProof!Claimable, Exceptions!InFlight, ExceptionsProof!InFlight,
         Exceptions!ClaimException, ExceptionsProof!ClaimException, Exceptions!ExpireRun,
         ExceptionsProof!ExpireRun, Exceptions!Owns, ExceptionsProof!Owns,
         Exceptions!RenewLease, ExceptionsProof!RenewLease, Exceptions!Record,
         ExceptionsProof!Record, Exceptions!Attempts, ExceptionsProof!Attempts,
         Exceptions!Delays, ExceptionsProof!Delays, Exceptions!RecordSuccess,
         ExceptionsProof!RecordSuccess, Exceptions!RecordFailure,
         ExceptionsProof!RecordFailure, Exceptions!RecordDelayed,
         ExceptionsProof!RecordDelayed, Exceptions!RecordTerminal,
         ExceptionsProof!RecordTerminal, Exceptions!RecordSuperseded,
         ExceptionsProof!RecordSuperseded, Exceptions!RecordDeferred,
         ExceptionsProof!RecordDeferred, Exceptions!AbandonRun, ExceptionsProof!AbandonRun,
         Exceptions!Blockers, ExceptionsProof!Blockers, Exceptions!SelectTarget,
         ExceptionsProof!SelectTarget, Exceptions!ApplyTarget, ExceptionsProof!ApplyTarget,
         Exceptions!RangeStep, ExceptionsProof!RangeStep, Exceptions!RecordRun,
         ExceptionsProof!RecordRun, Exceptions!RunStep, ExceptionsProof!RunStep,
         Exceptions!Next, ExceptionsProof!Next, Exceptions!Id, ExceptionsProof!Id

\* Every step of the window keeps the invariant and brings nothing back.
LEMMA ExceptionsStep ==
  ExceptionsProof!IInv /\ Exceptions!Next => ExceptionsProof!IInv' /\ Exceptions!ForwardStep
  <1>1. ExceptionsProof!IInv /\ [ExceptionsProof!Next]_(ExceptionsProof!vars) => ExceptionsProof!IInv'
    BY ExceptionsProof!StepInv, RowsAreKinds, ExceptionTokens
  <1>2. ExceptionsProof!IInv /\ ExceptionsProof!Next => ExceptionsProof!ForwardStep
    BY ExceptionsProof!StepForward, RowsAreKinds, ExceptionTokens
  <1>3. ExceptionsProof!ForwardStep => Exceptions!ForwardStep
    BY DEF Exceptions!ForwardStep, ExceptionsProof!ForwardStep, Exceptions!Id, ExceptionsProof!Id
  <1>. QED BY <1>1, <1>2, <1>3, SameNext

\* A step of another component leaves the window alone.
LEMMA ExceptionsRest ==
  ExceptionsProof!IInv /\ UNCHANGED exceptionVars => ExceptionsProof!IInv'
  <1>1. ExceptionsProof!IInv /\ [ExceptionsProof!Next]_(ExceptionsProof!vars) => ExceptionsProof!IInv'
    BY ExceptionsProof!StepInv, RowsAreKinds, ExceptionTokens
  <1>2. UNCHANGED exceptionVars => UNCHANGED ExceptionsProof!vars
    BY DEF exceptionVars, ExceptionsProof!vars
  <1>. QED BY <1>1, <1>2

\* Its rows are within their budgets.
LEMMA ExceptionsSafe == ExceptionsProof!IInv => Exceptions!AttemptsWithinBudget
  <1>1. ExceptionsProof!IInv => ExceptionsProof!AttemptsWithinBudget
    BY ExceptionsProof!BudgetHolds, RowsAreKinds, ExceptionTokens
  <1>2. ExceptionsProof!AttemptsWithinBudget => Exceptions!AttemptsWithinBudget
    BY DEF Exceptions!AttemptsWithinBudget, ExceptionsProof!AttemptsWithinBudget,
           Exceptions!Unresolved, ExceptionsProof!Unresolved,
           Exceptions!Failures, ExceptionsProof!Failures, Exceptions!Id, ExceptionsProof!Id
  <1>. QED BY <1>1, <1>2

-----------------------------------------------------------------------------
(* Retried datastore calls and the policy that paces them. *)

(* What Power computes: a function that exists, by one step at a time. *)
PowerStep(b, f, k) == IF k = 0 THEN 1 ELSE b * f[k - 1]
IsPower(b, f) == f = [k \in Nat |-> PowerStep(b, f, k)]

\* Every base has its powers.
LEMMA PowersExist ==
  ASSUME NEW b
  PROVE  \E f : IsPower(b, f)
  <1> DEFINE Upto(n, f) == /\ f = [k \in Nat |-> f[k]]
                           /\ \A k \in Nat : k <= n => f[k] = PowerStep(b, f, k)
             Missing == {n \in Nat : ~\E f : Upto(n, f)}
  <1>1. Missing = {}
    <2>1. SUFFICES ASSUME Missing # {} PROVE FALSE
      OBVIOUS
    <2>2. PICK n \in Missing : \A k \in Missing : n <= k
      <3>1. Missing \in SUBSET Nat
        OBVIOUS
      <3>. QED BY <2>1, <3>1, MinOfNaturals
    <2>3. n # 0
      <3>1. SUFFICES ASSUME n = 0 PROVE FALSE
        OBVIOUS
      <3> DEFINE one == [k \in Nat |-> 1]
      <3>2. Upto(0, one)
        BY DEF PowerStep
      <3>. QED BY <3>1, <3>2
    <2>4. PICK f : Upto(n - 1, f)
      <3> HIDE DEF Upto
      <3>1. n \in Nat
        BY <2>2
      <3>2. n - 1 \in Nat /\ ~(n <= n - 1)
        BY <2>3, <3>1
      <3>3. n - 1 \notin Missing
        BY <2>2, <3>2
      <3>. QED BY <3>2, <3>3
    <2> DEFINE next == [k \in Nat |-> PowerStep(b, f, k)]
    <2>5. ASSUME NEW k \in Nat, k <= n PROVE next[k] = PowerStep(b, next, k)
      <3>1. CASE k = 0
        BY <3>1 DEF PowerStep
      <3>2. CASE k # 0
        <4>1. k - 1 \in Nat /\ k - 1 <= n - 1
          BY <2>2, <2>5, <3>2
        <4>2. next[k - 1] = f[k - 1]
          BY <2>4, <4>1
        <4>. QED BY <3>2, <4>2 DEF PowerStep
      <3>. QED BY <3>1, <3>2
    <2>6. Upto(n, next)
      BY <2>5
    <2>. QED BY <2>2, <2>6
  <1>2. ASSUME NEW n \in Nat, NEW f, NEW g, Upto(n, f), Upto(n, g)
        PROVE  \A k \in 0..n : f[k] = g[k]
    <2> DEFINE Wrong == {k \in 0..n : f[k] # g[k]}
    <2>1. SUFFICES ASSUME Wrong # {} PROVE FALSE
      OBVIOUS
    <2>2. PICK k \in Wrong : \A i \in Wrong : k <= i
      <3>1. Wrong \in SUBSET Nat
        OBVIOUS
      <3>. QED BY <2>1, <3>1, MinOfNaturals
    <2>3. f[k] = PowerStep(b, f, k) /\ g[k] = PowerStep(b, g, k)
      <3>1. k \in Nat /\ k <= n
        BY <2>2
      <3>. QED BY <1>2, <3>1
    <2>4. k # 0
      BY <2>2, <2>3 DEF PowerStep
    <2>5. k - 1 \in 0..n /\ k - 1 \notin Wrong
      BY <2>2, <2>4
    <2>. QED BY <2>2, <2>3, <2>4, <2>5 DEF PowerStep
  <1> DEFINE nth(n) == CHOOSE f : Upto(n, f)
             all == [n \in Nat |-> nth(n)[n]]
  <1>3. \A n \in Nat : Upto(n, nth(n))
    <2> HIDE DEF Upto
    <2>. QED BY <1>1
  <1>4. ASSUME NEW n \in Nat PROVE all[n] = PowerStep(b, all, n)
    <2>1. nth(n)[n] = PowerStep(b, nth(n), n)
      <3> HIDE DEF nth
      <3>. QED BY <1>3
    <2>2. CASE n = 0
      BY <2>1, <2>2 DEF PowerStep
    <2>3. CASE n # 0
      <3>1. n - 1 \in Nat /\ n - 1 \in 0..(n - 1) /\ n - 1 <= n
        BY <2>3
      <3>2. Upto(n - 1, nth(n))
        <4> HIDE DEF nth
        <4>1. \A k \in Nat : k <= n - 1 => k <= n
          BY <3>1
        <4>. QED BY <1>3, <3>1, <4>1
      <3>3. Upto(n - 1, nth(n - 1))
        BY <1>3, <3>1
      <3>4. nth(n)[n - 1] = nth(n - 1)[n - 1]
        <4> HIDE DEF nth, Upto
        <4>. QED BY <1>2, <3>1, <3>2, <3>3
      <3>5. all[n] = nth(n)[n] /\ all[n - 1] = nth(n - 1)[n - 1]
        <4> HIDE DEF nth
        <4>. QED BY <3>1
      <3> HIDE DEF nth, all
      <3>. QED BY <2>1, <2>3, <3>4, <3>5 DEF PowerStep
    <2>. QED BY <2>2, <2>3
  <1>5. all = [n \in Nat |-> PowerStep(b, all, n)]
    <2> DEFINE step == [n \in Nat |-> PowerStep(b, all, n)]
    <2>1. \A n \in Nat : all[n] = step[n]
      <3> HIDE DEF all
      <3>. QED BY <1>4
    <2>2. all = [n \in Nat |-> all[n]]
      OBVIOUS
    <2> HIDE DEF all
    <2>. QED BY <2>1, <2>2
  <1>. QED BY <1>5 DEF IsPower

\* The powers of a base, one by one.
LEMMA PowerIs ==
  ASSUME NEW b
  PROVE  /\ Power(b, 0) = 1
         /\ \A n \in Nat : Power(b, n + 1) = b * Power(b, n)
  <1> DEFINE to == CHOOSE f : IsPower(b, f)
  <1>1. IsPower(b, to)
    BY PowersExist
  <1>2. \A n : Power(b, n) = to[n]
    BY Zenon DEF Power, IsPower, PowerStep
  <1> HIDE DEF to
  <1>3. to[0] = 1
    BY <1>1 DEF IsPower, PowerStep
  <1>4. ASSUME NEW n \in Nat PROVE to[n + 1] = b * to[n]
    <2>1. n + 1 \in Nat /\ n + 1 # 0 /\ (n + 1) - 1 = n
      OBVIOUS
    <2>2. to[n + 1] = b * to[(n + 1) - 1]
      BY <1>1, <2>1 DEF IsPower, PowerStep
    <2>. QED BY <2>1, <2>2
  <1>. QED BY <1>2, <1>3, <1>4

\* A product grows with its factor.
LEMMA Times ==
  ASSUME NEW x \in Nat, NEW y \in Nat, NEW z \in Nat, y <= z
  PROVE  x * y \in Nat /\ x * y <= x * z
  <1>1. PICK d \in Nat : z = y + d
    <2>1. z - y \in Nat /\ z = y + (z - y)
      OBVIOUS
    <2>. QED BY <2>1
  <1>2. x * z = x * y + x * d
    BY <1>1
  <1>3. x * d \in Nat /\ x * y \in Nat
    OBVIOUS
  <1>. QED BY <1>2, <1>3

\* What a quotient allows, its divisor times it allows.
LEMMA QuotientBounds ==
  ASSUME NEW m \in Int, NEW d \in Nat \ {0}, NEW n \in Nat, n <= m \div d
  PROVE  d * n \in Nat /\ d * n <= m
  <1> DEFINE q == m \div d
  <1>1. q \in Int /\ d * q <= m
    OBVIOUS
  <1> HIDE DEF q
  <1>2. n <= q /\ q \in Nat
    BY <1>1 DEF q
  <1>3. d * n <= d * q /\ d * n \in Nat /\ d * q \in Nat
    BY <1>2, Times
  <1>. QED BY <1>1, <1>3

\* The powers of an exponent Validate admits are positive and never fall.
LEMMA PowerGrows ==
  ASSUME NEW b \in Nat \ {0}
  PROVE  \A n \in Nat : Power(b, n) \in Nat \ {0} /\ Power(b, n) <= Power(b, n + 1)
  <1> DEFINE Wrong == {n \in Nat : Power(b, n) \notin Nat \ {0}}
  <1>1. Wrong = {}
    <2>1. SUFFICES ASSUME Wrong # {} PROVE FALSE
      OBVIOUS
    <2>2. PICK n \in Wrong : \A k \in Wrong : n <= k
      <3>1. Wrong \in SUBSET Nat
        OBVIOUS
      <3>. QED BY <2>1, <3>1, MinOfNaturals
    <2>3. n # 0
      BY <2>2, PowerIs
    <2>4. n - 1 \in Nat /\ (n - 1) + 1 = n /\ n - 1 \notin Wrong
      BY <2>2, <2>3
    <2>5. Power(b, n) = b * Power(b, n - 1) /\ Power(b, n - 1) \in Nat \ {0}
      BY <2>4, PowerIs
    <2>. QED BY <2>2, <2>5
  <1>2. ASSUME NEW n \in Nat PROVE Power(b, n) <= Power(b, n + 1)
    <2>1. Power(b, n) \in Nat \ {0} /\ Power(b, n + 1) = b * Power(b, n)
      BY <1>1, PowerIs
    <2> DEFINE x == Power(b, n)
    <2>2. x * 1 <= x * b
      BY <2>1, Times
    <2>. QED BY <2>1, <2>2
  <1>. QED BY <1>1, <1>2

(* The policies the calls run under: those Validate admits. *)
Admitted == {p \in Policy : Validate(p)}

\* What Validate says of one.
LEMMA AdmittedParts ==
  ASSUME NEW p \in Admitted
  PROVE  /\ p.retries \in Nat \ {0} /\ p.base \in Nat \ {0} /\ p.exponent \in Nat \ {0}
         /\ p.max \in Nat \ {0} /\ p.base <= p.max
         /\ Fits(p)
  <1>1. p \in [retries : Int, base : Int, max : Int, exponent : Int]
    BY PoliciesAreIntegers DEF Admitted
  <1>2. p.retries >= 1 /\ p.base > 0 /\ p.max >= p.base /\ p.exponent >= 1 /\ Fits(p)
    BY DEF Admitted, Validate
  <1>. QED BY <1>1, <1>2

\* A delay is positive, and after a constant one every delay is the same.
LEMMA DelayIs ==
  ASSUME NEW p \in Admitted, NEW n \in Nat
  PROVE  /\ CalculateDelay(p, n) \in Nat \ {0}
         /\ Constant(p, n) => /\ Constant(p, n + 1)
                              /\ CalculateDelay(p, n + 1) = CalculateDelay(p, n)
  <1> DEFINE base == p.base
             power(k) == Power(p.exponent, k)
  <1>1. /\ base \in Nat \ {0} /\ p.exponent \in Nat \ {0} /\ p.max \in Nat \ {0}
        /\ power(n) \in Nat \ {0} /\ power(n + 1) \in Nat \ {0} /\ power(n) <= power(n + 1)
    <2>1. n + 1 \in Nat
      OBVIOUS
    <2>. QED BY <2>1, AdmittedParts, PowerGrows
  <1>2. power(n + 1) = p.exponent * power(n)
    BY <1>1, PowerIs
  <1>3. CalculateDelay(p, n) = (IF base * power(n) >= p.max THEN p.max ELSE base * power(n))
    BY Zenon DEF CalculateDelay
  <1>4. CalculateDelay(p, n + 1) = (IF base * power(n + 1) >= p.max THEN p.max ELSE base * power(n + 1))
    BY Zenon DEF CalculateDelay
  <1> HIDE DEF base, power
  <1>5. base * 1 <= base * power(n) /\ base * power(n) \in Nat
    BY <1>1, Times
  <1>6. base * power(n) <= base * power(n + 1) /\ base * power(n + 1) \in Nat
    BY <1>1, Times
  <1>7. p.exponent = 1 => power(n + 1) = power(n)
    BY <1>1, <1>2
  <1> DEFINE x == base * power(n)
             y == base * power(n + 1)
  <1>8. x \in Nat \ {0} /\ y \in Nat /\ x <= y /\ (p.exponent = 1 => x = y)
    BY <1>1, <1>5, <1>6, <1>7
  <1>9. /\ CalculateDelay(p, n) = (IF x >= p.max THEN p.max ELSE x)
        /\ CalculateDelay(p, n + 1) = (IF y >= p.max THEN p.max ELSE y)
    BY <1>3, <1>4
  <1> HIDE DEF x, y
  <1>. QED BY <1>1, <1>8, <1>9 DEF Constant

(* The delays of a policy, by attempt. *)
Delays(p) == [n \in Nat |-> CalculateDelay(p, n)]

\* The delays before an attempt are a sum of SumLemmas.
LEMMA DelaysBeforeIs ==
  ASSUME NEW p, NEW n \in Nat
  PROVE  DelaysBefore(p, n) = Total(Delays(p), 0..(n - 1))
  <1> DEFINE S == 0..(n - 1)
             g == Delays(p)
  <1>1. \A t \in SUBSET S : t # {} =>
          g[CHOOSE x \in t : TRUE] = CalculateDelay(p, CHOOSE x \in t : TRUE)
    <2> SUFFICES ASSUME NEW t \in SUBSET S, t # {} PROVE (CHOOSE x \in t : TRUE) \in Nat
      BY DEF Delays
    <2>1. (CHOOSE x \in t : TRUE) \in t
      OBVIOUS
    <2>2. t \subseteq Nat
      OBVIOUS
    <2>. QED BY <2>1, <2>2
  <1> HIDE DEF S, g
  <1>2. \A h : IsSum(S, g, h) <=>
                 h = [t \in SUBSET S |-> IF t = {} THEN 0
                        ELSE CalculateDelay(p, CHOOSE x \in t : TRUE) + h[t \ {CHOOSE x \in t : TRUE}]]
    BY <1>1 DEF IsSum, SumStep, Chosen
  <1>3. (CHOOSE h : IsSum(S, g, h)) =
          CHOOSE h : h = [t \in SUBSET S |-> IF t = {} THEN 0
                        ELSE CalculateDelay(p, CHOOSE x \in t : TRUE) + h[t \ {CHOOSE x \in t : TRUE}]]
    BY <1>2, Zenon
  <1>4. DelaysBefore(p, n) = (CHOOSE h : h = [t \in SUBSET S |-> IF t = {} THEN 0
                        ELSE CalculateDelay(p, CHOOSE x \in t : TRUE) + h[t \ {CHOOSE x \in t : TRUE}]])[S]
    BY Zenon DEF DelaysBefore, MapThenSumSet, MapThenFoldSet, S
  <1>. QED BY <1>3, <1>4 DEF Total, S, g

\* So is what a call has slept.
LEMMA SleptIs == Slept = Total(waits, DOMAIN waits)
  <1> DEFINE S == DOMAIN waits
  <1>1. \A h : IsSum(S, waits, h) <=>
                 h = [t \in SUBSET S |-> IF t = {} THEN 0
                        ELSE waits[CHOOSE x \in t : TRUE] + h[t \ {CHOOSE x \in t : TRUE}]]
    BY Zenon DEF IsSum, SumStep, Chosen
  <1>2. (CHOOSE h : IsSum(S, waits, h)) =
          CHOOSE h : h = [t \in SUBSET S |-> IF t = {} THEN 0
                        ELSE waits[CHOOSE x \in t : TRUE] + h[t \ {CHOOSE x \in t : TRUE}]]
    BY <1>1, Zenon
  <1> HIDE DEF S
  <1>3. Slept = (CHOOSE h : h = [t \in SUBSET S |-> IF t = {} THEN 0
                        ELSE waits[CHOOSE x \in t : TRUE] + h[t \ {CHOOSE x \in t : TRUE}]])[S]
    BY Zenon DEF Slept, MapThenSumSet, MapThenFoldSet, S
  <1>. QED BY <1>2, <1>3 DEF Total, S

\* One delay more.
LEMMA DelaysAdd ==
  ASSUME NEW p \in Admitted, NEW n \in Nat
  PROVE  /\ DelaysBefore(p, 0) = 0
         /\ DelaysBefore(p, n) \in Nat
         /\ DelaysBefore(p, n + 1) = DelaysBefore(p, n) + CalculateDelay(p, n)
  <1> DEFINE S == 0..(n - 1)
             g == Delays(p)
  <1>1. \A k \in Nat : g[k] = CalculateDelay(p, k) /\ g[k] \in Nat
    BY DelayIs DEF Delays
  <1>2. IsFiniteSet(S) /\ n \notin S /\ S \cup {n} = 0..((n + 1) - 1) /\ \A k \in S : k \in Nat
    BY FS_Interval
  <1>3. 0..(0 - 1) = {} /\ n + 1 \in Nat
    OBVIOUS
  <1> HIDE DEF g
  <1>4. \A k \in S \cup {n} : g[k] \in Nat
    BY <1>1, <1>2
  <1>5. Total(g, S \cup {n}) = Total(g, S) + g[n] /\ Total(g, S) \in Nat
    <2> HIDE DEF S
    <2>. QED BY <1>2, <1>4, TotalGrows, TotalIsNatural
  <1>6. DelaysBefore(p, 0) = 0
    BY <1>3, DelaysBeforeIs, TotalEmpty
  <1>7. DelaysBefore(p, n) = Total(g, S) /\ DelaysBefore(p, n + 1) = Total(g, S \cup {n})
    BY <1>2, <1>3, DelaysBeforeIs DEF g
  <1>. QED BY <1>1, <1>5, <1>6, <1>7

\* From its first constant delay on, a policy's delays are the same, and they
\* add up to one product.
LEMMA TailIsConstant ==
  ASSUME NEW p \in Admitted, NEW first \in Nat, Constant(p, first)
  PROVE  \A n \in Nat : /\ Constant(p, first + n)
                         /\ CalculateDelay(p, first + n) = CalculateDelay(p, first)
                         /\ DelaysBefore(p, first + n)
                              = DelaysBefore(p, first) + CalculateDelay(p, first) * n
  <1> DEFINE Holds(n) == /\ Constant(p, first + n)
                         /\ CalculateDelay(p, first + n) = CalculateDelay(p, first)
                         /\ DelaysBefore(p, first + n)
                              = DelaysBefore(p, first) + CalculateDelay(p, first) * n
             Wrong == {n \in Nat : ~Holds(n)}
  <1>1. Holds(0)
    <2>1. first + 0 = first /\ CalculateDelay(p, first) \in Nat /\ DelaysBefore(p, first) \in Nat
      BY DelayIs, DelaysAdd
    <2>2. CalculateDelay(p, first) * 0 = 0
      BY <2>1
    <2>. QED BY <2>1, <2>2
  <1>2. ASSUME NEW n \in Nat, Holds(n) PROVE Holds(n + 1)
    <2> DEFINE at == first + n
               d == CalculateDelay(p, first)
    <2>1. at \in Nat /\ first + (n + 1) = at + 1
      OBVIOUS
    <2>2. Constant(p, at) /\ CalculateDelay(p, at) = d /\ DelaysBefore(p, at) = DelaysBefore(p, first) + d * n
      BY <1>2
    <2>3. d \in Nat /\ DelaysBefore(p, first) \in Nat
      BY DelayIs, DelaysAdd
    <2> HIDE DEF at, d
    <2>4. Constant(p, at + 1) /\ CalculateDelay(p, at + 1) = d
      BY <2>1, <2>2, DelayIs
    <2>5. DelaysBefore(p, at + 1) = DelaysBefore(p, at) + d
      BY <2>1, <2>2, DelaysAdd
    <2>6. d * (n + 1) = d * n + d /\ d * n \in Nat
      BY <2>3
    <2>7. DelaysBefore(p, at + 1) = DelaysBefore(p, first) + d * (n + 1)
      BY <2>2, <2>3, <2>5, <2>6
    <2>. QED BY <2>1, <2>4, <2>7 DEF d
  <1> HIDE DEF Holds
  <1>3. SUFFICES ASSUME Wrong # {} PROVE FALSE
    BY DEF Holds
  <1>4. PICK n \in Wrong : \A k \in Wrong : n <= k
    <2>1. Wrong \in SUBSET Nat
      OBVIOUS
    <2>. QED BY <1>3, <2>1, MinOfNaturals
  <1>5. n # 0
    BY <1>1, <1>4
  <1>6. n - 1 \in Nat /\ n - 1 \notin Wrong /\ (n - 1) + 1 = n
    BY <1>4, <1>5
  <1>7. Holds(n - 1)
    BY <1>6
  <1>8. Holds((n - 1) + 1)
    BY <1>2, <1>6, <1>7
  <1>. QED BY <1>4, <1>6, <1>8

\* The first of the constant delays, and where there is none the last attempt.
LEMMA FirstConstantIs ==
  ASSUME NEW p \in Admitted
  PROVE  /\ FirstConstant(p) \in 0..(p.retries - 1)
         /\ FirstConstant(p) <= p.retries - 2 => Constant(p, FirstConstant(p))
  <1> DEFINE S == {n \in 0..(p.retries - 2) : Constant(p, n)}
  <1>1. p.retries \in Nat \ {0}
    BY AdmittedParts
  <1>2. CASE S = {}
    <2>1. FirstConstant(p) = p.retries - 1
      BY <1>2 DEF FirstConstant
    <2>. QED BY <1>1, <2>1
  <1>3. CASE S # {}
    <2>1. S \in SUBSET Nat
      BY <1>1
    <2>2. Min(S) \in S
      BY <1>3, <2>1, MinOfNaturals
    <2>3. FirstConstant(p) = Min(S)
      BY <1>3 DEF FirstConstant
    <2>. QED BY <1>1, <2>2, <2>3
  <1>. QED BY <1>2, <1>3

\* The closed form is the sum of every delay, and no admitted policy's total
\* is longer than a duration holds.
LEMMA TotalDelayIs ==
  ASSUME NEW p \in Admitted
  PROVE  /\ CalculateTotalDelay(p) = DelaysBefore(p, p.retries - 1)
         /\ CalculateTotalDelay(p) \in Nat
         /\ CalculateTotalDelay(p) <= MaxDuration
  <1> DEFINE first == FirstConstant(p)
             r == p.retries
             d == CalculateDelay(p, first)
             before == DelaysBefore(p, first)
  <1>1. r \in Nat \ {0} /\ Fits(p) /\ MaxDuration \in Nat
    BY AdmittedParts, DurationsAreBounded
  <1>2. first \in 0..(r - 1) /\ first \in Nat /\ (first <= r - 2 => Constant(p, first))
    BY <1>1, FirstConstantIs
  <1>3. CalculateTotalDelay(p) = before + (IF r - 1 - first = 0 THEN 0 ELSE d * (r - 1 - first))
    BY Zenon DEF CalculateTotalDelay, ConstantTail
  <1>4. d \in Nat \ {0} /\ before \in Nat
    BY <1>2, DelayIs, DelaysAdd
  <1>5. \A n \in 0..(r - 2) : n <= first => DelaysAt(p, n) <= (MaxDuration - DelaysBefore(p, n)) \div CalculateDelay(p, n)
    BY <1>1 DEF Fits, Remaining
  <1>6. CASE first <= r - 2
    <2> DEFINE tail == r - 1 - first
    <2>1. tail \in Nat \ {0} /\ first + tail = r - 1 /\ first \in 0..(r - 2)
      BY <1>1, <1>2, <1>6
    <2>2. DelaysBefore(p, r - 1) = before + d * tail
      BY <1>2, <1>6, <2>1, TailIsConstant
    <2>3. CalculateTotalDelay(p) = before + d * tail
      BY <1>3, <2>1
    <2>4. tail <= (MaxDuration - before) \div d
      <3>1. first \in 0..(r - 2) /\ first <= first
        BY <1>2, <2>1
      <3>2. DelaysAt(p, first) <= (MaxDuration - before) \div d
        <4> HIDE DEF first
        <4>. QED BY <1>5, <3>1
      <3>3. DelaysAt(p, first) = tail
        BY <1>2, <1>6 DEF DelaysAt
      <3>. QED BY <3>2, <3>3
    <2> HIDE DEF tail, d, before
    <2>5. d * tail \in Nat /\ d * tail <= MaxDuration - before
      <3>1. MaxDuration - before \in Int /\ d \in Nat \ {0} /\ tail \in Nat
        BY <1>1, <1>4, <2>1
      <3>. QED BY <2>4, <3>1, QuotientBounds
    <2>. QED BY <1>1, <1>4, <2>2, <2>3, <2>5
  <1>7. CASE first = r - 1
    <2>1. CalculateTotalDelay(p) = before
      BY <1>1, <1>3, <1>4, <1>7
    <2>2. CASE r = 1
      BY <1>1, <1>4, <1>7, <2>1, <2>2, DelaysAdd
    <2>3. CASE r # 1
      <3> DEFINE last == r - 2
                 b == DelaysBefore(p, last)
                 e == CalculateDelay(p, last)
      <3>1. last \in Nat /\ last + 1 = first /\ last \in 0..(r - 2) /\ last <= first
        BY <1>1, <1>7, <2>3
      <3>2. before = b + e /\ b \in Nat /\ e \in Nat \ {0}
        BY <3>1, DelaysAdd, DelayIs
      <3>3. DelaysAt(p, last) <= (MaxDuration - b) \div e
        <4> HIDE DEF last
        <4>. QED BY <1>5, <3>1
      <3>4. DelaysAt(p, last) = 1
        <4>1. r - 1 - last = 1
          BY <1>1
        <4>. QED BY <4>1 DEF DelaysAt
      <3> HIDE DEF b, e
      <3>5. e * 1 <= MaxDuration - b
        BY <1>1, <3>2, <3>3, <3>4, QuotientBounds
      <3>6. before <= MaxDuration
        BY <1>1, <3>2, <3>5
      <3>. QED BY <1>4, <1>7, <2>1, <3>6
    <2>. QED BY <2>2, <2>3
  <1>8. first <= r - 2 \/ first = r - 1
    BY <1>1, <1>2
  <1>. QED BY <1>6, <1>7, <1>8

(* What a call knows while it runs. *)
Ending == {"none", "nil", "rolled", "ambiguous", "transient", "permanent", "cancelled"}

RetriesType ==
    /\ policy \in Admitted
    /\ idempotent \in BOOLEAN
    /\ attempt \in Nat
    /\ waits \in Seq(Nat)
    /\ landed \in Nat
    /\ returned \in Ending

(* Until a call that must not run twice returns, nothing of it landed.      *)
LandedInv ==
    /\ ~idempotent => landed <= 1
    /\ ~idempotent /\ returned \in {"none", "rolled", "transient", "permanent"} => landed = 0
    /\ returned = "nil" => landed >= 1

(* The waits lie between the attempts and are as long as the policy says.   *)
PacedInv ==
    /\ attempt \in {Len(waits), Len(waits) + 1}
    /\ attempt <= policy.retries
    /\ Len(waits) <= policy.retries - 1
    /\ returned = "none" => attempt < policy.retries
    /\ \A i \in 1..Len(waits) : waits[i] = CalculateDelay(policy, i - 1)

RetriesInv == RetriesType /\ LandedInv /\ PacedInv

\* What the waits add up to is what the policy's first delays do.
LEMMA WaitsAdd ==
  ASSUME NEW p \in Admitted, NEW slept \in Seq(Nat),
         \A i \in 1..Len(slept) : slept[i] = CalculateDelay(p, i - 1)
  PROVE  Total(slept, DOMAIN slept) = DelaysBefore(p, Len(slept))
  <1> DEFINE Wrong == {n \in 0..Len(slept) : Total(slept, 1..n) # DelaysBefore(p, n)}
  <1>1. DOMAIN slept = 1..Len(slept) /\ Len(slept) \in Nat
    OBVIOUS
  <1>2. SUFFICES ASSUME Wrong # {} PROVE FALSE
    BY <1>1
  <1>3. PICK n \in Wrong : \A k \in Wrong : n <= k
    <2>1. Wrong \in SUBSET Nat
      BY <1>1
    <2>. QED BY <1>2, <2>1, MinOfNaturals
  <1>4. n \in Nat /\ n <= Len(slept) /\ Total(slept, 1..n) # DelaysBefore(p, n)
    BY <1>1, <1>3
  <1>5. n # 0
    <2>1. 1..0 = {}
      OBVIOUS
    <2>. QED BY <1>4, <2>1, TotalEmpty, DelaysAdd
  <1> DEFINE m == n - 1
  <1>6. m \in Nat /\ m + 1 = n /\ m \notin Wrong /\ m <= Len(slept)
    BY <1>1, <1>3, <1>4, <1>5
  <1>7. Total(slept, 1..m) = DelaysBefore(p, m)
    BY <1>1, <1>6
  <1>8. Total(slept, 1..n) = Total(slept, 1..m) + slept[n]
    <2> DEFINE S == 1..m
    <2>1. IsFiniteSet(S) /\ n \notin S /\ 1..n = S \cup {n}
      <3>1. IsFiniteSet(S)
        BY <1>6, FS_Interval
      <3>2. n \notin S /\ 1..n = S \cup {n}
        <4> HIDE DEF m
        <4>1. 1..(m + 1) = 1..m \cup {m + 1} /\ m + 1 \notin 1..m
          BY <1>6
        <4>. QED BY <1>6, <4>1
      <3>. QED BY <3>1, <3>2
    <2>2. \A x \in S \cup {n} : slept[x] \in Nat
      BY <1>1, <1>4, <1>6
    <2> HIDE DEF S
    <2>3. Total(slept, S \cup {n}) = Total(slept, S) + slept[n]
      BY <2>1, <2>2, TotalGrows
    <2>. QED BY <2>1, <2>3 DEF S
  <1>9. slept[n] = CalculateDelay(p, m)
    BY <1>1, <1>4, <1>5
  <1>10. DelaysBefore(p, n) = DelaysBefore(p, m) + CalculateDelay(p, m)
    <2> HIDE DEF m
    <2>. QED BY <1>6, DelaysAdd
  <1>. QED BY <1>4, <1>7, <1>8, <1>9, <1>10

\* The first delays of a policy add up to no more than more of them.
LEMMA DelaysRise ==
  ASSUME NEW p \in Admitted, NEW m \in Nat
  PROVE  \A n \in Nat : n <= m => DelaysBefore(p, n) <= DelaysBefore(p, m)
  <1> DEFINE Below == {k \in Nat : k <= m /\ ~(DelaysBefore(p, m - k) <= DelaysBefore(p, m))}
  <1>1. ASSUME Below # {} PROVE FALSE
    <2>1. PICK k \in Below : \A i \in Below : k <= i
      <3>1. Below \in SUBSET Nat
        OBVIOUS
      <3>. QED BY <1>1, <3>1, MinOfNaturals
    <2>2. k # 0
      <3>1. m - 0 = m /\ DelaysBefore(p, m) \in Nat
        BY DelaysAdd
      <3>. QED BY <2>1, <3>1
    <2>3. k \in Nat /\ k - 1 \in Nat /\ k - 1 <= m /\ k - 1 \notin Below /\ m - k \in Nat /\ m - (k - 1) = (m - k) + 1
      BY <2>1, <2>2
    <2>4. DelaysBefore(p, m - (k - 1)) <= DelaysBefore(p, m)
      BY <2>3
    <2>5. /\ DelaysBefore(p, (m - k) + 1) = DelaysBefore(p, m - k) + CalculateDelay(p, m - k)
          /\ DelaysBefore(p, m - k) \in Nat /\ CalculateDelay(p, m - k) \in Nat
          /\ DelaysBefore(p, m) \in Nat
      BY <2>3, DelaysAdd, DelayIs
    <2>. QED BY <2>1, <2>3, <2>4, <2>5
  <1>2. ASSUME NEW n \in Nat, n <= m PROVE DelaysBefore(p, n) <= DelaysBefore(p, m)
    <2>1. m - n \in Nat /\ m - n <= m /\ m - (m - n) = n
      BY <1>2
    <2>. QED BY <1>1, <2>1
  <1>. QED BY <1>2

\* The invariant says what a caller is told and how long it sleeps.
LEMMA RetriesSafe == RetriesInv => LandsAsReported /\ SleepsAsAdmitted
  <1> SUFFICES ASSUME RetriesInv PROVE LandsAsReported /\ SleepsAsAdmitted
    OBVIOUS
  <1>1. LandsAsReported
    BY DEF RetriesInv, LandedInv, LandsAsReported
  <1>2. policy \in Admitted /\ policy.retries \in Nat \ {0} /\ waits \in Seq(Nat) /\ Len(waits) \in Nat
    BY AdmittedParts DEF RetriesInv, RetriesType
  <1>3. Slept = DelaysBefore(policy, Len(waits))
    BY <1>2, SleptIs, WaitsAdd DEF RetriesInv, PacedInv
  <1>4. CalculateTotalDelay(policy) = DelaysBefore(policy, policy.retries - 1)
        /\ CalculateTotalDelay(policy) <= MaxDuration
    BY <1>2, TotalDelayIs
  <1>5. Len(waits) <= policy.retries - 1 /\ policy.retries - 1 \in Nat
    BY <1>2 DEF RetriesInv, PacedInv
  <1>6. Slept <= CalculateTotalDelay(policy)
    BY <1>2, <1>3, <1>4, <1>5, DelaysRise
  <1>7. ASSUME attempt = policy.retries PROVE Slept = CalculateTotalDelay(policy)
    <2>1. Len(waits) = policy.retries - 1
      BY <1>2, <1>5, <1>7 DEF RetriesInv, PacedInv
    <2>. QED BY <1>3, <1>4, <2>1
  <1>. QED BY <1>1, <1>4, <1>6, <1>7 DEF SleepsAsAdmitted

\* A call starts with it.
LEMMA RetriesStart == RetriesInit => RetriesInv
  <1> SUFFICES ASSUME RetriesInit PROVE RetriesInv
    OBVIOUS
  <1>1. policy \in Admitted
    BY DEF RetriesInit, Admitted
  <1>2. policy.retries \in Nat \ {0}
    BY <1>1, AdmittedParts
  <1>3. RetriesType
    BY <1>1 DEF RetriesInit, RetriesType, Ending
  <1>4. LandedInv
    BY DEF RetriesInit, LandedInv
  <1>5. PacedInv
    BY <1>2 DEF RetriesInit, PacedInv
  <1>. QED BY <1>3, <1>4, <1>5 DEF RetriesInv

\* Attempts, waits and a cancellation keep it.
LEMMA RetriesStep == RetriesInv /\ RetriesNext => RetriesInv'
  <1> SUFFICES ASSUME RetriesInv, RetriesNext PROVE RetriesInv'
    OBVIOUS
  <1>1. policy \in Admitted /\ policy.retries \in Nat \ {0} /\ Len(waits) \in Nat /\ waits \in Seq(Nat)
    BY AdmittedParts DEF RetriesInv, RetriesType
  <1> USE DEF RetriesInv
  <1>2. CASE TryCall
    <2>1. PICK ending \in Endings :
             /\ landed' = IF ending.landed THEN landed + 1 ELSE landed
             /\ returned' = IF Retryable(ending.error) /\ attempt + 1 < policy.retries THEN "none" ELSE ending.error
      BY <1>2 DEF TryCall
    <2>2. returned = "none" /\ attempt = Len(waits) /\ attempt' = attempt + 1
          /\ UNCHANGED <<policy, idempotent, waits>>
      BY <1>2 DEF TryCall
    <2>3. /\ ending.error \in Ending \ {"none"}
          /\ ending.error = "nil" => ending.landed
          /\ ending.error \in {"rolled", "transient", "permanent"} => ~ending.landed
      BY DEF Endings, Ending
    <2>4. ~idempotent /\ Retryable(ending.error) => ~ending.landed
      BY <2>3 DEF Retryable, IsRetryableDatastoreError
    <2>5. RetriesType'
      BY <2>1, <2>2, <2>3 DEF RetriesType, Ending
    <2>6. LandedInv'
      BY <2>1, <2>2, <2>3, <2>4 DEF LandedInv, RetriesType
    <2>7. returned' = "none" => attempt + 1 < policy.retries
      BY <2>1, <2>3
    <2>8. PacedInv'
      BY <1>1, <2>2, <2>7 DEF PacedInv, RetriesType
    <2>. QED BY <2>5, <2>6, <2>8
  <1>3. CASE Wait
    <2>1. CalculateDelay(policy, attempt - 1) \in Nat /\ attempt = Len(waits) + 1 /\ attempt < policy.retries
      <3>1. attempt = Len(waits) + 1 /\ attempt < policy.retries
        BY <1>1, <1>3 DEF PacedInv, Wait, RetriesType
      <3>2. attempt - 1 \in Nat
        BY <1>1, <3>1
      <3>. QED BY <1>1, <3>1, <3>2, DelayIs
    <2>2. waits' = Append(waits, CalculateDelay(policy, attempt - 1))
          /\ UNCHANGED <<policy, idempotent, attempt, landed, returned>>
      BY <1>3 DEF Wait
    <2>3. /\ waits' \in Seq(Nat) /\ Len(waits') = Len(waits) + 1
          /\ \A i \in 1..Len(waits) : waits'[i] = waits[i]
          /\ waits'[Len(waits) + 1] = CalculateDelay(policy, attempt - 1)
      BY <1>1, <2>1, <2>2
    <2>4. RetriesType'
      BY <2>2, <2>3 DEF RetriesType
    <2>5. LandedInv'
      BY <2>2 DEF LandedInv
    <2>6. \A i \in 1..Len(waits') : waits'[i] = CalculateDelay(policy', i - 1)
      <3> SUFFICES ASSUME NEW i \in 1..Len(waits') PROVE waits'[i] = CalculateDelay(policy', i - 1)
        OBVIOUS
      <3>1. CASE i \in 1..Len(waits)
        BY <2>2, <2>3, <3>1 DEF PacedInv
      <3>2. CASE i = Len(waits) + 1
        BY <1>1, <2>1, <2>2, <2>3, <3>2
      <3>3. i \in 1..Len(waits) \/ i = Len(waits) + 1
        BY <1>1, <2>3
      <3>. QED BY <3>1, <3>2, <3>3
    <2>7. PacedInv'
      BY <1>1, <2>1, <2>2, <2>3, <2>6 DEF PacedInv
    <2>. QED BY <2>4, <2>5, <2>7
  <1>4. CASE CancelCall
    <2>1. returned = "none" /\ returned' = "cancelled" /\ UNCHANGED <<policy, idempotent, attempt, waits, landed>>
      BY <1>4 DEF CancelCall
    <2>2. RetriesType'
      BY <2>1 DEF RetriesType, Ending
    <2>3. LandedInv'
      BY <2>1 DEF LandedInv
    <2>4. PacedInv'
      BY <2>1 DEF PacedInv
    <2>. QED BY <2>2, <2>3, <2>4
  <1>. QED BY <1>2, <1>3, <1>4 DEF RetriesNext

\* So does a step of another part.
LEMMA RetriesRest == RetriesInv /\ UNCHANGED retryVars => RetriesInv'
  BY DEF RetriesInv, RetriesType, LandedInv, PacedInv, retryVars

-----------------------------------------------------------------------------
(* What the runs check of the consumers. *)

\* A group's registration (consume/controller: group, bindings, binding_log):
\* processes that register at once do not fail each other, a claim reads the set
\* installed last and a process that waits for other instances to stop is in the
\* listing, whatever declarers, destructions and sweeps interleave.
THEOREM GroupRight == ConsumersSpec => []GroupRegistrySound
  <1> DEFINE Inv == part = "groups" => GroupInv
  <1>1. ConsumersInit => Inv
    BY GroupStart DEF ConsumersInit
  <1>2. Inv /\ [ConsumersNext]_consumersVars => Inv'
    <2> SUFFICES ASSUME Inv, [ConsumersNext]_consumersVars, part' = "groups" PROVE GroupInv'
      OBVIOUS
    <2>1. part = "groups"
      BY DEF ConsumersNext, consumersVars
    <2>2. GroupRegistryNext \/ UNCHANGED groupRegistryVars
      BY <2>1 DEF ConsumersNext, consumersVars
    <2>. QED BY <2>1, <2>2, GroupStep, GroupRests
  <1>3. Inv => GroupRegistrySound
    BY GroupSafe DEF GroupRegistrySound
  <1>. QED BY <1>1, <1>2, <1>3, PTL DEF ConsumersSpec

\* The claim buffer and the group config (claim_buffer.go, range_state.go,
\* config_state.go): what a partial commit covers was resolved, one handler
\* commits a range, a freshly claimed range fits the queue whatever reclaimed ones
\* were added before it, a queued message has its QueueMargin and an instance runs
\* the document it read last.
THEOREM ClaimsRight == ConsumersSpec => []ClaimsSound
  <1> DEFINE Inv == (part = "buffer" => BufferInv) /\ (part = "config" => ConfigInv)
  <1>1. ConsumersInit => Inv
    BY BufferStart, ConfigStart DEF ConsumersInit
  <1>2. Inv /\ [ConsumersNext]_consumersVars => Inv'
    <2> SUFFICES ASSUME Inv, [ConsumersNext]_consumersVars PROVE Inv'
      OBVIOUS
    <2>0. part' = part
      BY DEF ConsumersNext, consumersVars
    <2>1. CASE part = "buffer"
      <3>1. ClaimBufferNext \/ UNCHANGED bufferVars
        BY <2>1 DEF ConsumersNext, consumersVars
      <3>. QED BY <2>0, <2>1, <3>1, BufferStep, BufferRests
    <2>2. CASE part = "config"
      <3>1. GroupConfigNext \/ UNCHANGED configVars
        BY <2>2 DEF ConsumersNext, consumersVars
      <3>. QED BY <2>0, <2>2, <3>1, ConfigStep, ConfigRests
    <2>. QED BY <2>0, <2>1, <2>2
  <1>3. Inv => ClaimsSound
    BY BufferSafe, ConfigSafe DEF ClaimsSound
  <1>. QED BY <1>1, <1>2, <1>3, PTL DEF ConsumersSpec

\* The fan-out (fanout.go): of the messages the mark passes without a delivery
\* row each is overtaken, a higher id of a lower transaction having committed,
\* however many producers are open and however the fan-outs race, fail and fill
\* their batches.  That it does pass an overtaken one DeliveryGroupOpen shows.
THEOREM DeliveriesRight == ConsumersSpec => []DeliveriesSound
  <1> DEFINE Inv == part = "delivery" => DeliveryInv
  <1>1. ConsumersInit => Inv
    BY DeliveryStart DEF ConsumersInit
  <1>2. Inv /\ [ConsumersNext]_consumersVars => Inv'
    <2> SUFFICES ASSUME Inv, [ConsumersNext]_consumersVars, part' = "delivery"
                 PROVE  DeliveryInv'
      OBVIOUS
    <2>1. part = "delivery"
      BY DEF ConsumersNext, consumersVars
    <2>2. Next \/ UNCHANGED vars
      BY <2>1 DEF ConsumersNext, consumersVars
    <2>. QED BY <2>1, <2>2, DeliveryNextInv, DeliveryRests
  <1>3. Inv => DeliveriesSound
    BY DEF DeliveriesSound, DeliveryInv
  <1> HIDE DEF Inv
  <1>. QED BY <1>1, <1>2, <1>3, PTL DEF ConsumersSpec

\* The exception window (exceptionconsumer: outcome.go, kill.go): no row exceeds
\* its retry budget, and one that waits has a run left, through late outcomes,
\* expired leases, deferrals and delays.
THEOREM ExceptionsRight == ConsumersSpec => []ExceptionsSound
  <1> DEFINE Inv == part = "exceptions" => ExceptionsProof!IInv
  <1>1. ConsumersInit => Inv
    BY ExceptionsStart DEF ConsumersInit
  <1>2. Inv /\ [ConsumersNext]_consumersVars => Inv'
    <2> SUFFICES ASSUME Inv, [ConsumersNext]_consumersVars, part' = "exceptions"
                 PROVE  ExceptionsProof!IInv'
      OBVIOUS
    <2>1. part = "exceptions"
      BY DEF ConsumersNext, consumersVars
    <2>2. Exceptions!Next \/ UNCHANGED exceptionVars
      BY <2>1 DEF ConsumersNext, consumersVars
    <2>. QED BY <2>1, <2>2, ExceptionsStep, ExceptionsRest
  <1>3. Inv => ExceptionsSound
    BY ExceptionsSafe DEF ExceptionsSound
  <1> HIDE DEF Inv
  <1>. QED BY <1>1, <1>2, <1>3, PTL DEF ConsumersSpec

\* No late or repeated outcome brings a resolved delivery or exception back, and
\* no mark moves back (fanout.go, outcome.go, committed.go); of the fan-out, with
\* any number of producers at a time.
THEOREM OutcomesStand == ConsumersSpec => OutcomesForward
  <1> DEFINE Inv == /\ part = "delivery" => DeliveryType
                    /\ part = "exceptions" => ExceptionsProof!IInv
             Stands == /\ part = "delivery" => ForwardStep
                       /\ part = "exceptions" => Exceptions!ForwardStep
  <1>1. ConsumersInit => Inv
    BY DeliveryStart, ExceptionsStart DEF ConsumersInit, DeliveryInv
  <1>2. Inv /\ [ConsumersNext]_consumersVars => Inv' /\ [Stands]_consumersVars
    <2> SUFFICES ASSUME Inv, [ConsumersNext]_consumersVars PROVE Inv' /\ [Stands]_consumersVars
      OBVIOUS
    <2>0. part' = part
      BY DEF ConsumersNext, consumersVars
    <2>1. CASE UNCHANGED consumersVars
      <3>1. UNCHANGED vars /\ UNCHANGED exceptionVars
        BY <2>1 DEF consumersVars
      <3>2. part = "delivery" => DeliveryType'
        BY <3>1 DEF vars, logVars, markVars, workerVars, rowVars, DeliveryType, LogTypeOK
      <3>. QED BY <2>0, <2>1, <3>1, <3>2, ExceptionsRest
    <2>2. CASE ConsumersNext
      <3>1. /\ part = "delivery" => Next
            /\ part = "exceptions" => Exceptions!Next
        BY <2>2 DEF ConsumersNext
      <3>. QED BY <2>0, <3>1, DeliveryTypeStep, ExceptionsStep
    <2>. QED BY <2>1, <2>2
  <1> HIDE DEF Inv
  <1>. QED BY <1>1, <1>2, PTL DEF ConsumersSpec, OutcomesForward

\* A retried statement (retry_datastore.go, retry_policy.go): one that must not
\* run twice lands at most once, only an ambiguous error or a cancellation hides
\* a landing, and a call sleeps no longer than the total its policy reports in
\* closed form, exactly that once every attempt failed, and no longer than a
\* duration holds: for every policy Validate admits.
THEOREM RetriesRight == ConsumersSpec => []RetriesSound
  <1> DEFINE Inv == part = "retries" => RetriesInv
  <1>1. ConsumersInit => Inv
    BY RetriesStart DEF ConsumersInit
  <1>2. Inv /\ [ConsumersNext]_consumersVars => Inv'
    <2> SUFFICES ASSUME Inv, [ConsumersNext]_consumersVars, part' = "retries" PROVE RetriesInv'
      OBVIOUS
    <2>1. part = "retries"
      BY DEF ConsumersNext, consumersVars
    <2>2. RetriesNext \/ UNCHANGED retryVars
      BY <2>1 DEF ConsumersNext, consumersVars
    <2>. QED BY <2>1, <2>2, RetriesStep, RetriesRest
  <1>3. Inv => RetriesSound
    BY RetriesSafe DEF RetriesSound
  <1> HIDE DEF Inv
  <1>. QED BY <1>1, <1>2, <1>3, PTL DEF ConsumersSpec
=============================================================================
