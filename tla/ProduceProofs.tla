---------------------------- MODULE ProduceProofs ----------------------------
(***************************************************************************)
(* What Produce promises, for every number of calls, keys, workers,        *)
(* retries and faults.  The inductive invariant says where an              *)
(* operation without an outcome is (once in the queue, or once in the job  *)
(* of one worker), that workQueue.workers counts the running workers, and  *)
(* that a key has its row exactly when its claim is committed.  The first  *)
(* part is about jobs: what a dequeue, an eviction, a split and a resolved *)
(* batch do to the operations a worker holds.                              *)
(***************************************************************************)
EXTENDS Produce, FiniteSetTheorems, SequenceTheorems, WellFoundedInduction, TLAPS

\* The first failing statement is one of the statements that fail.
LEMMA MinIsMember ==
    ASSUME NEW S \in SUBSET Nat, S # {}
    PROVE  Min(S) \in S
PROOF
<1>1. PICK x \in S : \A y \in S : <<y, x>> \notin OpToRel(<, Nat)
  BY NatLessThanWellFounded, WFMin
<1>2. \A y \in S : x <= y
  <2>1. SUFFICES ASSUME NEW y \in S, y < x PROVE FALSE
    BY SMT
  <2>2. <<y, x>> \in OpToRel(<, Nat)
    BY <2>1 DEF OpToRel
  <2> QED BY <1>1, <2>2
<1>3. QED BY <1>2 DEF Min

-----------------------------------------------------------------------------
\* An operation is somewhere in the batches of a job.
In(jobs, o) == \E i \in DOMAIN jobs : o \in ToSet(jobs[i])

\* No operation is twice in a sequence, or twice in the batches of a job.
Once(s) == \A a, b \in DOMAIN s : s[a] = s[b] => a = b

GoodJob(jobs) ==
    /\ jobs \in Seq(Seq(Op))
    /\ \A i \in DOMAIN jobs : jobs[i] # <<>> /\ Once(jobs[i])
    /\ \A i, j \in DOMAIN jobs : \A o \in ToSet(jobs[i]) \cap ToSet(jobs[j]) : i = j

\* An empty job is a job, and holds nothing.
LEMMA NoJob == GoodJob(<<>>) /\ \A o : ~In(<<>>, o)
PROOF BY DEF GoodJob, In

\* The job left when its first batch is resolved.
LEMMA TailJob ==
    ASSUME NEW J, GoodJob(J), J # <<>>
    PROVE  /\ GoodJob(Tail(J))
           /\ \A o : In(Tail(J), o) <=> In(J, o) /\ o \notin ToSet(Head(J))
PROOF
<1>1. /\ J \in Seq(Seq(Op)) /\ DOMAIN J = 1 .. Len(J) /\ Len(J) \in Nat \ {0}
      /\ Head(J) = J[1] /\ Tail(J) \in Seq(Seq(Op))
      /\ Len(Tail(J)) = Len(J) - 1 /\ DOMAIN Tail(J) = 1 .. Len(J) - 1
  BY HeadTailProperties, LenProperties, EmptySeq DEF GoodJob
<1>2. \A i \in DOMAIN Tail(J) : Tail(J)[i] = J[i + 1] /\ i + 1 \in DOMAIN J /\ i + 1 # 1
  BY <1>1, HeadTailProperties
<1>3. \A i \in DOMAIN J : i = 1 \/ (i - 1 \in DOMAIN Tail(J) /\ Tail(J)[i - 1] = J[i])
  BY <1>1, <1>2
<1>4. GoodJob(Tail(J))
  <2>1. \A i \in DOMAIN Tail(J) : Tail(J)[i] # <<>> /\ Once(Tail(J)[i])
    BY <1>2 DEF GoodJob
  <2>2. ASSUME NEW i \in DOMAIN Tail(J), NEW j \in DOMAIN Tail(J),
               NEW o \in ToSet(Tail(J)[i]) \cap ToSet(Tail(J)[j])
        PROVE  i = j
    <3>1. i + 1 = j + 1
      BY <1>2 DEF GoodJob
    <3> QED BY <3>1, <1>1
  <2> QED BY <1>1, <2>1, <2>2 DEF GoodJob
<1>5. ASSUME NEW o PROVE In(Tail(J), o) <=> In(J, o) /\ o \notin ToSet(Head(J))
  <2>1. ASSUME In(Tail(J), o) PROVE In(J, o) /\ o \notin ToSet(Head(J))
    <3>1. PICK i \in DOMAIN Tail(J) : o \in ToSet(Tail(J)[i])
      BY <2>1 DEF In
    <3>2. i + 1 \in DOMAIN J /\ i + 1 # 1 /\ o \in ToSet(J[i + 1])
      BY <3>1, <1>2
    <3>3. o \notin ToSet(J[1])
      <4>1. 1 \in DOMAIN J
        BY <1>1
      <4> QED BY <4>1, <3>2 DEF GoodJob
    <3> QED BY <3>2, <3>3, <1>1 DEF In
  <2>2. ASSUME In(J, o), o \notin ToSet(Head(J)) PROVE In(Tail(J), o)
    BY <2>2, <1>1, <1>3 DEF In
  <2> QED BY <2>1, <2>2
<1> QED BY <1>4, <1>5

\* Taking one statement out of a batch takes out its operation and no other.
LEMMA WithoutOne ==
    ASSUME NEW b \in Seq(Op), NEW i \in DOMAIN b, Once(b)
    PROVE  /\ Without(b, i) \in Seq(Op)
           /\ Once(Without(b, i))
           /\ ToSet(Without(b, i)) = ToSet(b) \ {b[i]}
PROOF
<1> DEFINE p == SubSeq(b, 1, i - 1)
           q == SubSeq(b, i + 1, Len(b))
           n == Len(b)
<1>1. /\ DOMAIN b = 1 .. n /\ n \in Nat /\ i \in 1 .. n
      /\ \A j \in 1 .. n : b[j] \in Op
  BY LenProperties, ElementOfSeq
<1>2. /\ p \in Seq(Op) /\ Len(p) = i - 1
      /\ \A j \in 1 .. i - 1 : p[j] = b[j]
  <2>1. \A j \in 1 .. i - 1 : b[j] \in Op
    BY <1>1
  <2>2. 1 \in Int /\ i - 1 \in Int
    BY <1>1
  <2>3. /\ p \in Seq(Op) /\ Len(p) = IF 1 <= i - 1 THEN (i - 1) - 1 + 1 ELSE 0
        /\ \A j \in 1 .. (i - 1) - 1 + 1 : p[j] = b[1 + j - 1]
    BY <2>1, <2>2, SubSeqProperties
  <2> QED BY <2>3, <1>1
<1>3. /\ q \in Seq(Op) /\ Len(q) = n - i
      /\ \A j \in 1 .. n - i : q[j] = b[i + j]
  <2>1. \A j \in i + 1 .. n : b[j] \in Op
    BY <1>1
  <2>2. i + 1 \in Int /\ n \in Int
    BY <1>1
  <2>3. /\ q \in Seq(Op) /\ Len(q) = IF i + 1 <= n THEN n - (i + 1) + 1 ELSE 0
        /\ \A j \in 1 .. n - (i + 1) + 1 : q[j] = b[(i + 1) + j - 1]
    BY <2>1, <2>2, SubSeqProperties
  <2> QED BY <2>3, <1>1
<1> DEFINE c == Without(b, i)
<1>4. /\ c \in Seq(Op) /\ Len(c) = n - 1 /\ DOMAIN c = 1 .. n - 1
      /\ \A j \in 1 .. n - 1 : c[j] = IF j <= i - 1 THEN b[j] ELSE b[j + 1]
  <2>1. c = p \o q
    BY DEF Without, RemoveAt
  <2> HIDE DEF p, q
  <2>2. /\ p \o q \in Seq(Op) /\ Len(p \o q) = (i - 1) + (n - i)
        /\ \A j \in 1 .. (i - 1) + (n - i) :
              (p \o q)[j] = IF j <= i - 1 THEN p[j] ELSE q[j - (i - 1)]
    BY <1>2, <1>3, ConcatProperties
  <2>5. (i - 1) + (n - i) = n - 1
    BY <1>1
  <2>3. DOMAIN (p \o q) = 1 .. n - 1
    <3>1. DOMAIN (p \o q) = 1 .. Len(p \o q)
      BY <2>2, LenProperties
    <3> QED BY <3>1, <2>2, <2>5
  <2> HIDE DEF c
  <2>4. \A j \in 1 .. n - 1 : c[j] = IF j <= i - 1 THEN b[j] ELSE b[j + 1]
    <3> TAKE j \in 1 .. n - 1
    <3>1. CASE j <= i - 1
      BY <3>1, <2>1, <2>2, <1>2, <1>1
    <3>2. CASE ~(j <= i - 1)
      <4>1. q[j - (i - 1)] = b[i + (j - (i - 1))]
        BY <3>2, <1>3, <1>1
      <4>2. i + (j - (i - 1)) = j + 1
        BY <1>1
      <4>3. c[j] = q[j - (i - 1)]
        BY <3>2, <2>1, <2>2, <2>5
      <4> QED BY <4>1, <4>2, <4>3, <3>2
    <3> QED BY <3>1, <3>2
  <2> QED BY <2>1, <2>2, <2>3, <2>4, <2>5
<1> HIDE DEF c
<1>5. Once(c)
  <2> SUFFICES ASSUME NEW x \in DOMAIN c, NEW y \in DOMAIN c, c[x] = c[y] PROVE x = y
    BY DEF Once
  <2> DEFINE f(z) == IF z <= i - 1 THEN z ELSE z + 1
  <2>1. c[x] = b[f(x)] /\ c[y] = b[f(y)] /\ f(x) \in 1 .. n /\ f(y) \in 1 .. n
    BY <1>4, <1>1
  <2>2. f(x) = f(y)
    BY <2>1, <1>1 DEF Once
  <2> QED BY <2>2, <1>4, <1>1
<1>6. ASSUME NEW o PROVE o \in ToSet(c) <=> o \in ToSet(b) /\ o # b[i]
  <2>1. ASSUME NEW x \in DOMAIN c, o = c[x] PROVE o \in ToSet(b) /\ o # b[i]
    <3> DEFINE f == IF x <= i - 1 THEN x ELSE x + 1
    <3>1. o = b[f] /\ f \in 1 .. n /\ f # i
      BY <2>1, <1>4, <1>1
    <3> QED BY <3>1, <1>1 DEF Once, ToSet
  <2>2. ASSUME NEW x \in DOMAIN b, o = b[x], o # b[i] PROVE o \in ToSet(c)
    <3>1. CASE x <= i - 1
      <4>1. x \in DOMAIN c /\ c[x] = o
        BY <3>1, <2>2, <1>4, <1>1
      <4> QED BY <4>1 DEF ToSet
    <3>2. CASE x > i
      <4>1. x - 1 \in DOMAIN c /\ c[x - 1] = b[(x - 1) + 1]
        BY <3>2, <2>2, <1>4, <1>1
      <4> QED BY <4>1, <2>2, <1>1 DEF ToSet
    <3> QED BY <3>1, <3>2, <2>2, <1>1
  <2> QED BY <2>1, <2>2 DEF ToSet
<1> QED BY <1>4, <1>5, <1>6 DEF c
\* Putting a batch in front of a job.
LEMMA ConsJob ==
    ASSUME NEW b \in Seq(Op), b # <<>>, Once(b), NEW J, GoodJob(J),
           \A o \in ToSet(b) : ~In(J, o)
    PROVE  /\ GoodJob(<<b>> \o J)
           /\ \A o : In(<<b>> \o J, o) <=> o \in ToSet(b) \/ In(J, o)
           /\ <<b>> \o J # <<>>
PROOF
<1> DEFINE K == <<b>> \o J
<1>1. /\ J \in Seq(Seq(Op)) /\ DOMAIN J = 1 .. Len(J) /\ Len(J) \in Nat
  BY LenProperties DEF GoodJob
<1>2. <<b>> \in Seq(Seq(Op)) /\ Len(<<b>>) = 1 /\ <<b>>[1] = b
  OBVIOUS
<1>3. /\ K \in Seq(Seq(Op)) /\ Len(K) = 1 + Len(J)
      /\ \A i \in 1 .. 1 + Len(J) : K[i] = IF i <= 1 THEN <<b>>[i] ELSE J[i - 1]
  BY <1>1, <1>2, ConcatProperties
<1>4. DOMAIN K = 1 .. 1 + Len(J)
  BY <1>3, LenProperties
<1> HIDE DEF K
<1>5. 1 \in DOMAIN K /\ K[1] = b
  BY <1>1, <1>2, <1>3, <1>4
<1>6. ASSUME NEW i \in DOMAIN K, i # 1
      PROVE  i - 1 \in DOMAIN J /\ K[i] = J[i - 1]
  <2>1. i \in 1 .. 1 + Len(J) /\ ~(i <= 1) /\ i - 1 \in DOMAIN J
    BY <1>1, <1>4, <1>6
  <2> QED BY <2>1, <1>3
<1>7. ASSUME NEW i \in DOMAIN J
      PROVE  i + 1 \in DOMAIN K /\ K[i + 1] = J[i] /\ i + 1 # 1
  <2>1. i + 1 \in 1 .. 1 + Len(J) /\ ~(i + 1 <= 1) /\ (i + 1) - 1 = i /\ i + 1 # 1
    BY <1>1
  <2> QED BY <2>1, <1>3, <1>4
<1>8. \A i \in DOMAIN K : K[i] # <<>> /\ Once(K[i])
  BY <1>5, <1>6 DEF GoodJob
<1>9. ASSUME NEW i \in DOMAIN K, NEW j \in DOMAIN K,
             NEW o \in ToSet(K[i]) \cap ToSet(K[j])
      PROVE  i = j
  <2>1. CASE i = 1 /\ j = 1
    BY <2>1
  <2>2. CASE i = 1 /\ j # 1
    BY <2>2, <1>5, <1>6 DEF In
  <2>3. CASE i # 1 /\ j = 1
    BY <2>3, <1>5, <1>6 DEF In
  <2>4. CASE i # 1 /\ j # 1
    <3>1. i - 1 = j - 1
      BY <2>4, <1>6 DEF GoodJob
    <3> QED BY <3>1, <1>1, <1>4
  <2> QED BY <2>1, <2>2, <2>3, <2>4
<1>10. GoodJob(K)
  BY <1>3, <1>8, <1>9 DEF GoodJob
<1>11. ASSUME NEW o PROVE In(K, o) <=> o \in ToSet(b) \/ In(J, o)
  BY <1>5, <1>6, <1>7 DEF In
<1>12. K # <<>>
  BY <1>5
<1> QED BY <1>10, <1>11, <1>12 DEF K

\* What is left of a job when one statement of its first batch is evicted.
Evicted(J, i) ==
    LET rest == Without(Head(J), i)
    IN  (IF rest = <<>> THEN <<>> ELSE <<rest>>) \o Tail(J)

\* The first batch of a job is a batch of its operations.
LEMMA FirstBatch ==
    ASSUME NEW J, GoodJob(J), J # <<>>
    PROVE  /\ Head(J) \in Seq(Op) /\ Head(J) # <<>> /\ Once(Head(J))
           /\ DOMAIN Head(J) = 1 .. Len(Head(J)) /\ Len(Head(J)) \in Nat \ {0}
           /\ \A o \in ToSet(Head(J)) : In(J, o) /\ o \in Op
PROOF
<1>1. /\ J \in Seq(Seq(Op)) /\ 1 \in DOMAIN J /\ Head(J) = J[1] /\ Head(J) \in Seq(Op)
  BY HeadTailProperties, LenProperties, EmptySeq DEF GoodJob
<1>2. Head(J) # <<>> /\ Once(Head(J))
  BY <1>1 DEF GoodJob
<1>3. DOMAIN Head(J) = 1 .. Len(Head(J)) /\ Len(Head(J)) \in Nat \ {0}
  BY <1>1, <1>2, LenProperties, EmptySeq
<1>4. \A o \in ToSet(Head(J)) : In(J, o) /\ o \in Op
  BY <1>1, <1>3, ElementOfSeq DEF In, ToSet
<1> QED BY <1>1, <1>2, <1>3, <1>4

\* Evicting one statement takes its operation, and no other, out of the job.
LEMMA EvictJob ==
    ASSUME NEW J, GoodJob(J), J # <<>>, NEW i \in DOMAIN Head(J)
    PROVE  /\ GoodJob(Evicted(J, i))
           /\ \A o : In(Evicted(J, i), o) <=> In(J, o) /\ o # Head(J)[i]
PROOF
<1> DEFINE rest == Without(Head(J), i)
<1>1. /\ rest \in Seq(Op) /\ Once(rest) /\ ToSet(rest) = ToSet(Head(J)) \ {Head(J)[i]}
  BY FirstBatch, WithoutOne
<1>2. /\ GoodJob(Tail(J))
      /\ \A o : In(Tail(J), o) <=> In(J, o) /\ o \notin ToSet(Head(J))
  BY TailJob
<1>3. Head(J)[i] \in ToSet(Head(J)) /\ \A o \in ToSet(Head(J)) : In(J, o)
  BY FirstBatch DEF ToSet
<1>4. Evicted(J, i) = (IF rest = <<>> THEN <<>> ELSE <<rest>>) \o Tail(J)
  BY DEF Evicted
<1>5. CASE rest = <<>>
  <2>1. Evicted(J, i) = Tail(J)
    <3>1. Tail(J) \in Seq(Seq(Op))
      BY <1>2 DEF GoodJob
    <3>2. <<>> \o Tail(J) = Tail(J)
      BY <3>1, ConcatEmptySeq
    <3> QED BY <3>2, <1>4, <1>5
  <2>2. ToSet(Head(J)) = {Head(J)[i]}
    <3>1. ToSet(rest) = {}
      BY <1>5 DEF ToSet
    <3> HIDE DEF rest
    <3> QED BY <3>1, <1>1, <1>3
  <2> QED BY <2>1, <2>2, <1>2, <1>3
<1>6. CASE rest # <<>>
  <2>1. Evicted(J, i) = <<rest>> \o Tail(J)
    BY <1>4, <1>6
  <2> HIDE DEF rest
  <2>2. \A o \in ToSet(rest) : ~In(Tail(J), o)
    BY <1>1, <1>2
  <2>3. /\ GoodJob(<<rest>> \o Tail(J))
        /\ \A o : In(<<rest>> \o Tail(J), o) <=> o \in ToSet(rest) \/ In(Tail(J), o)
    BY <2>2, <1>1, <1>2, <1>6, ConsJob
  <2> QED BY <2>1, <2>3, <1>1, <1>2, <1>3
<1> QED BY <1>5, <1>6
\* An interval from 1 determines its end.
LEMMA SameInterval ==
    ASSUME NEW m \in Nat, NEW n \in Nat, 1 .. m = 1 .. n
    PROVE  m = n
PROOF
<1>1. (m # 0 => m \in 1 .. n) /\ (n # 0 => n \in 1 .. m)
  <2>1. (m # 0 => m \in 1 .. m) /\ (n # 0 => n \in 1 .. n)
    OBVIOUS
  <2> QED BY <2>1
<1>2. (m # 0 => m <= n) /\ (n # 0 => n <= m)
  BY <1>1
<1> QED BY <1>2

\* The job after its first batch is split into batches of one operation.
Split(J) == [i \in DOMAIN Head(J) |-> <<Head(J)[i]>>] \o Tail(J)

\* Splitting the first batch leaves the operations of the job as they are.
LEMMA SplitJob ==
    ASSUME NEW J, GoodJob(J), J # <<>>
    PROVE  /\ GoodJob(Split(J)) /\ Split(J) # <<>>
           /\ \A o : In(Split(J), o) <=> In(J, o)
PROOF
<1> DEFINE b == Head(J)
           n == Len(b)
           one == [i \in 1 .. n |-> <<b[i]>>]
           T == Tail(J)
           K == one \o T
<1>1. /\ b \in Seq(Op) /\ Once(b) /\ DOMAIN b = 1 .. n /\ n \in Nat \ {0}
      /\ \A o \in ToSet(b) : In(J, o)
  BY FirstBatch
<1>2. /\ GoodJob(T)
      /\ \A o : In(T, o) <=> In(J, o) /\ o \notin ToSet(b)
  BY TailJob
<1> HIDE DEF T, b, n
<1>3. T \in Seq(Seq(Op)) /\ DOMAIN T = 1 .. Len(T) /\ Len(T) \in Nat
  BY <1>2, LenProperties DEF GoodJob
<1>4. /\ \A i \in 1 .. n : b[i] \in Op /\ <<b[i]>> \in Seq(Op)
      /\ \A i \in 1 .. n : <<b[i]>> # <<>> /\ Once(<<b[i]>>) /\ ToSet(<<b[i]>>) = {b[i]}
  <2>1. \A i \in 1 .. n : b[i] \in Op
    BY <1>1, ElementOfSeq
  <2>2. \A x \in Op : /\ <<x>> \in Seq(Op) /\ <<x>> # <<>> /\ Once(<<x>>)
                      /\ ToSet(<<x>>) = {x}
    BY DEF Once, ToSet
  <2> QED BY <2>1, <2>2
<1>5. one \in Seq(Seq(Op)) /\ Len(one) = n
  <2>1. one \in [1 .. n -> Seq(Op)]
    BY <1>4
  <2>2. one \in Seq(Seq(Op))
    BY <2>1, <1>1, SeqDef
  <2>3. DOMAIN one = 1 .. Len(one) /\ Len(one) \in Nat /\ DOMAIN one = 1 .. n
    BY <2>2, LenProperties
  <2> HIDE DEF one
  <2>4. Len(one) = n
    BY <2>3, <1>1, SameInterval
  <2> QED BY <2>2, <2>4
<1>6. \A i \in 1 .. n : one[i] = <<b[i]>>
  OBVIOUS
<1> HIDE DEF one
<1>7. /\ K \in Seq(Seq(Op)) /\ Len(K) = n + Len(T)
      /\ \A i \in 1 .. n + Len(T) : K[i] = IF i <= n THEN one[i] ELSE T[i - n]
  <2>1. /\ K \in Seq(Seq(Op)) /\ Len(K) = Len(one) + Len(T)
        /\ \A i \in 1 .. Len(one) + Len(T) :
              K[i] = IF i <= Len(one) THEN one[i] ELSE T[i - Len(one)]
    BY <1>3, <1>5, ConcatProperties
  <2> HIDE DEF K
  <2> QED BY <2>1, <1>5
<1> HIDE DEF K
<1>8. DOMAIN K = 1 .. n + Len(T)
  BY <1>7, LenProperties
<1>9. ASSUME NEW i \in DOMAIN K, i <= n PROVE i \in 1 .. n /\ K[i] = <<b[i]>>
  <2>1. i \in 1 .. n + Len(T) /\ i \in 1 .. n
    BY <1>1, <1>3, <1>8, <1>9
  <2> QED BY <2>1, <1>6, <1>7, <1>9
<1>10. ASSUME NEW i \in DOMAIN K, ~(i <= n) PROVE i - n \in DOMAIN T /\ K[i] = T[i - n]
  <2>1. i \in 1 .. n + Len(T) /\ i - n \in DOMAIN T
    BY <1>1, <1>3, <1>8, <1>10
  <2> QED BY <2>1, <1>7, <1>10
<1>11. ASSUME NEW i \in 1 .. n PROVE i \in DOMAIN K /\ i <= n
  BY <1>1, <1>3, <1>8
<1>12. ASSUME NEW i \in DOMAIN T PROVE i + n \in DOMAIN K /\ ~(i + n <= n) /\ (i + n) - n = i
  BY <1>1, <1>3, <1>8
<1>13. ASSUME NEW i \in DOMAIN K PROVE K[i] # <<>> /\ Once(K[i])
  BY <1>2, <1>4, <1>9, <1>10 DEF GoodJob
<1>14. ASSUME NEW i \in DOMAIN K, NEW j \in DOMAIN K,
              NEW o \in ToSet(K[i]) \cap ToSet(K[j])
       PROVE  i = j
  <2>1. CASE i <= n /\ j <= n
    BY <2>1, <1>1, <1>4, <1>9 DEF Once
  <2>2. ASSUME NEW x \in DOMAIN K, NEW y \in DOMAIN K, x <= n, ~(y <= n),
               o \in ToSet(K[x]), o \in ToSet(K[y])
        PROVE  FALSE
    <3>1. x \in 1 .. n /\ o = b[x]
      BY <2>2, <1>4, <1>9
    <3>2. o \in ToSet(b)
      BY <3>1, <1>1 DEF ToSet
    <3>3. In(T, o)
      BY <2>2, <1>10 DEF In
    <3> QED BY <3>2, <3>3, <1>2
  <2>3. CASE ~(i <= n) /\ ~(j <= n)
    <3>1. i - n = j - n
      BY <2>3, <1>2, <1>10 DEF GoodJob
    <3> QED BY <3>1, <1>1, <1>3, <1>8
  <2> QED BY <2>1, <2>2, <2>3
<1>15. GoodJob(K)
  BY <1>7, <1>13, <1>14 DEF GoodJob
<1>16. ASSUME NEW o PROVE In(K, o) <=> In(J, o)
  <2>1. ASSUME In(K, o) PROVE In(J, o)
    <3>1. PICK i \in DOMAIN K : o \in ToSet(K[i])
      BY <2>1 DEF In
    <3>2. CASE i <= n
      <4>1. i \in 1 .. n /\ o = b[i]
        BY <3>1, <3>2, <1>4, <1>9
      <4> QED BY <4>1, <1>1 DEF ToSet
    <3>3. CASE ~(i <= n)
      <4>1. In(T, o)
        BY <3>1, <3>3, <1>10 DEF In
      <4> QED BY <4>1, <1>2
    <3> QED BY <3>2, <3>3
  <2>2. ASSUME In(J, o), o \in ToSet(b) PROVE In(K, o)
    <3>1. PICK i \in 1 .. n : o = b[i]
      BY <2>2, <1>1 DEF ToSet
    <3>2. i \in DOMAIN K /\ o \in ToSet(K[i])
      BY <3>1, <1>4, <1>9, <1>11
    <3> QED BY <3>2 DEF In
  <2>3. ASSUME In(T, o) PROVE In(K, o)
    <3>1. PICK i \in DOMAIN T : o \in ToSet(T[i])
      BY <2>3 DEF In
    <3>2. i + n \in DOMAIN K /\ K[i + n] = T[i]
      BY <1>10, <1>12
    <3> QED BY <3>1, <3>2 DEF In
  <2> QED BY <2>1, <2>2, <2>3, <1>2
<1>17. K # <<>>
  <2>1. 1 \in DOMAIN K
    BY <1>1, <1>3, <1>8
  <2> QED BY <2>1
<1>18. Split(J) = K
  BY <1>1 DEF Split, K, one, T, b
<1> QED BY <1>15, <1>16, <1>17, <1>18

\* What one dequeue takes, and what it leaves.
LEMMA TakeJob ==
    ASSUME NEW q \in Seq(Op), Once(q), NEW n \in 1 .. Len(q)
    PROVE  /\ GoodJob(<<SubSeq(q, 1, n)>>)
           /\ SubSeq(q, n + 1, Len(q)) \in Seq(Op) /\ Once(SubSeq(q, n + 1, Len(q)))
           /\ \A o : /\ In(<<SubSeq(q, 1, n)>>, o) => o \in ToSet(q)
                     /\ o \in ToSet(SubSeq(q, n + 1, Len(q)))
                          <=> o \in ToSet(q) /\ ~In(<<SubSeq(q, 1, n)>>, o)
PROOF
<1> DEFINE p == SubSeq(q, 1, n)
           s == SubSeq(q, n + 1, Len(q))
<1>0. Len(q) \in Nat /\ n \in Nat /\ 1 <= n /\ n <= Len(q)
  BY LenProperties
<1>1. Len(q) \in Nat /\ DOMAIN q = 1 .. Len(q) /\ n \in Nat /\ \A i \in 1 .. Len(q) : q[i] \in Op
  BY LenProperties, ElementOfSeq
<1>2. p \in Seq(Op) /\ Len(p) = n /\ \A i \in 1 .. n : p[i] = q[i]
  <2>1. 1 \in Int /\ n \in Int /\ \A i \in 1 .. n : q[i] \in Op
    BY <1>1
  <2>2. /\ p \in Seq(Op) /\ Len(p) = IF 1 <= n THEN n - 1 + 1 ELSE 0
        /\ \A i \in 1 .. n - 1 + 1 : p[i] = q[1 + i - 1]
    BY <2>1, SubSeqProperties
  <2> HIDE DEF p
  <2> QED BY <2>2, <1>1
<1>3. /\ s \in Seq(Op) /\ Len(s) = Len(q) - n
      /\ \A i \in 1 .. Len(q) - n : s[i] = q[n + i]
  <2>1. n + 1 \in Int /\ Len(q) \in Int /\ \A i \in n + 1 .. Len(q) : q[i] \in Op
    BY <1>1
  <2>2. /\ s \in Seq(Op) /\ Len(s) = IF n + 1 <= Len(q) THEN Len(q) - (n + 1) + 1 ELSE 0
        /\ \A i \in 1 .. Len(q) - (n + 1) + 1 : s[i] = q[(n + 1) + i - 1]
    BY <2>1, SubSeqProperties
  <2> HIDE DEF s
  <2>3. Len(q) - (n + 1) + 1 = Len(q) - n /\ (~(n + 1 <= Len(q)) => Len(q) - n = 0)
    <3> HIDE DEF p
    <3> QED BY <1>0
  <2>4. \A i \in 1 .. Len(q) - n : (n + 1) + i - 1 = n + i
    BY <1>1
  <2> QED BY <2>2, <2>3, <2>4
<1> HIDE DEF p, s
<1>4. DOMAIN p = 1 .. n /\ DOMAIN s = 1 .. Len(q) - n
  BY <1>2, <1>3, LenProperties
<1>5. p # <<>> /\ Once(p)
  BY <1>1, <1>2, <1>4 DEF Once
<1>6. GoodJob(<<p>>) /\ \A o : In(<<p>>, o) <=> o \in ToSet(p)
  <2>1. DOMAIN <<p>> = {1} /\ <<p>>[1] = p /\ <<p>> \in Seq(Seq(Op))
    BY <1>2
  <2> QED BY <2>1, <1>5 DEF GoodJob, In
<1>7. Once(s)
  <2> SUFFICES ASSUME NEW x \in DOMAIN s, NEW y \in DOMAIN s, s[x] = s[y] PROVE x = y
    BY DEF Once
  <2>1. n + x \in DOMAIN q /\ n + y \in DOMAIN q /\ s[x] = q[n + x] /\ s[y] = q[n + y]
    BY <1>1, <1>3, <1>4
  <2>2. n + x = n + y
    BY <2>1 DEF Once
  <2> QED BY <2>2, <1>1, <1>4
<1>8. \A o : o \in ToSet(p) <=> \E i \in 1 .. n : q[i] = o
  BY <1>2, <1>4 DEF ToSet
<1>9. ASSUME NEW o PROVE o \in ToSet(s) <=> \E i \in n + 1 .. Len(q) : q[i] = o
  <2>1. ASSUME NEW i \in DOMAIN s, s[i] = o PROVE \E j \in n + 1 .. Len(q) : q[j] = o
    <3>1. n + i \in n + 1 .. Len(q) /\ q[n + i] = o
      BY <2>1, <1>1, <1>3, <1>4
    <3> QED BY <3>1
  <2>2. ASSUME NEW i \in n + 1 .. Len(q), q[i] = o PROVE \E j \in DOMAIN s : s[j] = o
    <3>1. i - n \in 1 .. Len(q) - n /\ n + (i - n) = i
      BY <1>1
    <3> QED BY <3>1, <2>2, <1>3, <1>4
  <2> QED BY <2>1, <2>2 DEF ToSet
<1>10. ASSUME NEW o
       PROVE  /\ o \in ToSet(p) => o \in ToSet(q)
              /\ o \in ToSet(s) <=> (o \in ToSet(q) /\ o \notin ToSet(p))
  <2>1. o \in ToSet(q) <=> \E i \in 1 .. Len(q) : q[i] = o
    BY <1>1 DEF ToSet
  <2>2. \A i \in 1 .. n : i \in 1 .. Len(q) /\ i \notin n + 1 .. Len(q)
    BY <1>1
  <2>3. \A i \in n + 1 .. Len(q) : i \in 1 .. Len(q)
    BY <1>1
  <2>4. \A i \in 1 .. Len(q) : i \in 1 .. n \/ i \in n + 1 .. Len(q)
    BY <1>1
  <2> QED BY <2>1, <2>2, <2>3, <2>4, <1>1, <1>8, <1>9 DEF Once
<1> QED BY <1>3, <1>6, <1>7, <1>10 DEF p, s
-----------------------------------------------------------------------------
(* The inductive invariant. *)

Active == {"attempt", "heal", "create"}
Where == Active \cup {"off", "taking", "open", "done"}
Outcomes == {"none", "appended", "duplicate", "evicted", "failed", "unencodable"}
OneKey(jobs) == \E k \in Key : jobs = << <<k>> >>
Jobs == Seq(Seq(Op)) \cup {<< <<k>> >> : k \in Key}
RunRecord == [pc : Where, job : Jobs, tries : Nat, heals : Nat, missing : Nat, target : Int,
              told : BOOLEAN]

ProduceType ==
    /\ queue \in Seq(Op)
    /\ caller \in [Op -> {"idle", "enqueued", "waiting", "abandoned"}]
    /\ resp \in [Op \cup KeyedCall -> Outcomes]
    /\ run \in [Runner -> RunRecord]
    /\ seq \in Nat /\ healFailures \in Nat

\* What each kind of runner can be doing; a worker's hands are empty exactly
\* when it is between batches, a keyed call has its outcome exactly when done.
WorkerInv ==
    \A w \in Worker :
        /\ run[w].pc \in Active \cup {"off", "taking"}
        /\ GoodJob(run[w].job)
        /\ run[w].pc \in Active <=> run[w].job # <<>>

CallInv ==
    \A c \in KeyedCall :
        /\ run[c].pc \in Active \cup {"off", "done"}
        /\ run[c].pc # "off" => OneKey(run[c].job)
        /\ resp[c] = "none" <=> run[c].pc # "done"

TxInv ==
    \A t \in Tx :
        /\ run[t].pc \in Active \cup {"off", "open", "done"}
        /\ run[t].pc \in Active => OneKey(run[t].job)

\* A heal remembers a statement of the batch it heals for.
HealInv ==
    \A r \in Runner : run[r].pc \in {"heal", "create"} => run[r].missing \in DOMAIN Batch(r)

\* An operation that waits for its outcome is in exactly one place: once in the
\* queue, or once in the job of one worker.
Pending(o) == caller[o] # "idle" /\ resp[o] = "none"
Queued(o) == o \in ToSet(queue)
Has(w, o) == In(run[w].job, o)

PlaceInv ==
    /\ Once(queue)
    /\ \A o \in Op :
         /\ caller[o] = "idle" => resp[o] = "none"
         /\ Pending(o) <=> Queued(o) \/ \E w \in Worker : Has(w, o)
         /\ \A w \in Worker : Has(w, o) => ~Queued(o)
         /\ \A v, w \in Worker : Has(v, o) /\ Has(w, o) => v = w

\* workQueue.workers counts the running workers, and a queue that is not empty
\* has one, or a caller that has yet to look whether it needs one.
Busy == {w \in Worker : run[w].pc # "off"}

PoolInv ==
    /\ workers = Cardinality(Busy)
    /\ queue # <<>> => Busy # {} \/ \E p \in Op : caller[p] = "enqueued"

\* A key has its row exactly when its claim is committed, and no open
\* transaction has a key that is committed or that another one has.
KeyInv ==
    /\ log \in [MessageKey -> {0, 1}]
    /\ \A k \in MessageKey : log[k] = 1 <=> k \in claims
    /\ DOMAIN kept = Tx
    /\ \A t \in Tx : kept[t] \cap claims = {}
    /\ \A t, u \in Tx : t # u => kept[t] \cap kept[u] = {}

ShapeInv == ProduceType /\ WorkerInv /\ CallInv /\ TxInv /\ HealInv

IInv == ShapeInv /\ PlaceInv /\ PoolInv /\ KeyInv /\ SuccessIsDurable /\ PoisonIsolated
-----------------------------------------------------------------------------
(* What a step of a runner does to its job and to the outcomes. *)

\* What a runner is doing is a record of the right shape.
LEMMA DoingRecord ==
    ASSUME NEW pc \in Where, NEW jobs \in Jobs
    PROVE  /\ Doing(pc, jobs) \in RunRecord
           /\ Doing(pc, jobs).pc = pc /\ Doing(pc, jobs).job = jobs
PROOF BY DEF Doing, RunRecord

\* The first batch of a runner at work.
LEMMA BatchShape ==
    ASSUME ShapeInv, NEW r \in Runner, run[r].pc \in Active
    PROVE  /\ DOMAIN Batch(r) = 1 .. Len(Batch(r)) /\ Len(Batch(r)) \in Nat \ {0}
           /\ r \in Worker => /\ GoodJob(run[r].job) /\ run[r].job # <<>>
                              /\ \A o \in ToSet(Batch(r)) : o \in Op /\ Has(r, o)
           /\ r \notin Worker => /\ OneKey(run[r].job) /\ Tail(run[r].job) = <<>>
                                 /\ DOMAIN Batch(r) = {1} /\ Len(Batch(r)) = 1
                                 /\ Without(Batch(r), 1) = <<>>
PROOF
<1>1. CASE r \in Worker
  <2>1. GoodJob(run[r].job) /\ run[r].job # <<>>
    BY <1>1 DEF ShapeInv, WorkerInv
  <2> QED BY <2>1, <1>1, FirstBatch DEF Batch, Has
<1>2. CASE r \notin Worker
  <2>1. OneKey(run[r].job)
    <3>1. r \in KeyedCall \/ r \in Tx
      BY <1>2 DEF Runner
    <3>2. run[r].pc # "off"
      BY DEF Active
    <3> QED BY <3>1, <3>2 DEF ShapeInv, CallInv, TxInv
  <2>2. PICK k \in Key : run[r].job = << <<k>> >>
    BY <2>1 DEF OneKey
  <2>3. Tail(run[r].job) = <<>> /\ Batch(r) = <<k>>
    BY <2>2 DEF Batch
  <2>4. DOMAIN <<k>> = {1} /\ Len(<<k>>) = 1 /\ {1} = 1 .. 1
    OBVIOUS
  <2>5. Without(<<k>>, 1) = <<>>
    BY DEF Without, RemoveAt
  <2> QED BY <1>2, <2>1, <2>3, <2>4, <2>5
<1> QED BY <1>1, <1>2

\* A worker goes on with what is left of its job, and answers what it drops.
WorkerMove(w, X) ==
    /\ X.pc \in Active \cup {"taking"}
    /\ GoodJob(X.job)
    /\ X.pc \in Active <=> X.job # <<>>
    /\ \A o \in Op : In(X.job, o) => Has(w, o)
    /\ \A o \in Op : IF Has(w, o) /\ ~In(X.job, o) THEN resp'[o] # "none" ELSE resp'[o] = resp[o]
    /\ \A c \in KeyedCall : resp'[c] = resp[c]

\* A keyed call goes on with its one statement, or is done and answered.
CallMove(c, X) ==
    /\ X.job = run[c].job
    /\ \A d \in (Op \cup KeyedCall) \ {c} : resp'[d] = resp[d]
    /\ \/ X.pc \in Active /\ resp'[c] = "none"
       \/ X.pc = "done" /\ resp'[c] # "none"

TxMove(t, X) ==
    /\ resp' = resp
    /\ X.pc = "open" \/ (X.pc \in Active /\ X.job = run[t].job)

Moves(r) ==
    /\ resp' \in [Op \cup KeyedCall -> Outcomes]
    /\ \E X \in RunRecord :
         /\ run' = [run EXCEPT ![r] = X]
         /\ X.pc \in {"heal", "create"} => X.missing \in DOMAIN Head(X.job)
         /\ r \in Worker => WorkerMove(r, X)
         /\ r \in KeyedCall => CallMove(r, X)
         /\ r \in Tx => TxMove(r, X)

\* The runner keeps its job and answers nobody.
LEMMA KeepMove ==
    ASSUME ShapeInv, NEW r \in Runner, run[r].pc \in Active, NEW X \in RunRecord,
           run' = [run EXCEPT ![r] = X], X.pc \in Active, X.job = run[r].job,
           X.pc \in {"heal", "create"} => X.missing \in DOMAIN Batch(r),
           resp' = resp
    PROVE  Moves(r)
PROOF
<1>1. resp' \in [Op \cup KeyedCall -> Outcomes]
  BY DEF ShapeInv, ProduceType
<1>2. X.pc \in {"heal", "create"} => X.missing \in DOMAIN Head(X.job)
  BY DEF Batch
<1>3. ASSUME r \in Worker PROVE WorkerMove(r, X)
  <2>1. GoodJob(X.job) /\ X.job # <<>>
    BY <1>3, BatchShape
  <2>2. \A o : In(X.job, o) <=> Has(r, o)
    BY DEF Has
  <2> QED BY <2>1, <2>2 DEF WorkerMove
<1>4. ASSUME r \in KeyedCall PROVE CallMove(r, X)
  <2>1. resp[r] = "none"
    BY <1>4 DEF ShapeInv, CallInv, Active
  <2> QED BY <2>1 DEF CallMove
<1>5. ASSUME r \in Tx PROVE TxMove(r, X)
  BY DEF TxMove
<1> QED BY <1>1, <1>2, <1>3, <1>4, <1>5 DEF Moves

\* A batch with an operation that cannot be encoded is tried one by one.
LEMMA SplitMove ==
    ASSUME ShapeInv, NEW r \in Worker, run[r].pc \in Active,
           run' = [run EXCEPT ![r] = Doing("attempt", Split(run[r].job))], resp' = resp
    PROVE  Moves(r)
PROOF
<1> DEFINE X == Doing("attempt", Split(run[r].job))
<1>1. /\ GoodJob(Split(run[r].job)) /\ Split(run[r].job) # <<>>
      /\ \A o : In(Split(run[r].job), o) <=> Has(r, o)
  BY BatchShape, SplitJob DEF Has, Runner
<1>2. X \in RunRecord /\ X.pc = "attempt" /\ X.job = Split(run[r].job)
  BY <1>1, DoingRecord DEF GoodJob, Jobs, Where, Active
<1> HIDE DEF X
<1>3. WorkerMove(r, X)
  BY <1>1, <1>2 DEF WorkerMove, Active
<1>4. r \notin KeyedCall /\ r \notin Tx
  BY ProduceBounds
<1>5. resp' \in [Op \cup KeyedCall -> Outcomes]
  BY DEF ShapeInv, ProduceType
<1> QED BY <1>2, <1>3, <1>4, <1>5 DEF Moves, X
\* The first batch, or a part of it, is resolved: what left the job is answered.
LEMMA AfterMove ==
    ASSUME ShapeInv, NEW r \in Runner, run[r].pc \in Active, NEW J,
           run' = [run EXCEPT ![r] = AfterBatch(r, J)],
           resp' \in [Op \cup KeyedCall -> Outcomes],
           r \in Worker =>
              /\ GoodJob(J)
              /\ \A o \in Op : In(J, o) => Has(r, o)
              /\ \A o \in Op : IF Has(r, o) /\ ~In(J, o) THEN resp'[o] # "none" ELSE resp'[o] = resp[o]
              /\ \A c \in KeyedCall : resp'[c] = resp[c],
           r \notin Worker => J = <<>>,
           r \in KeyedCall => /\ resp'[r] # "none"
                              /\ \A d \in (Op \cup KeyedCall) \ {r} : resp'[d] = resp[d],
           r \in Tx => resp' = resp
    PROVE  Moves(r)
PROOF
<1> DEFINE X == AfterBatch(r, J)
<1>1. CASE r \in Worker
  <2>1. r \notin KeyedCall /\ r \notin Tx
    BY <1>1, ProduceBounds
  <2>2. X = IF J # <<>> THEN Doing("attempt", J) ELSE Doing("taking", <<>>)
    BY <1>1 DEF AfterBatch
  <2>3. X \in RunRecord /\ X.job = J /\ X.pc = IF J # <<>> THEN "attempt" ELSE "taking"
    <3>1. J \in Jobs /\ <<>> \in Jobs /\ "attempt" \in Where /\ "taking" \in Where
      BY <1>1 DEF GoodJob, Jobs, Where, Active
    <3> HIDE DEF X
    <3>2. CASE J # <<>>
      BY <3>1, <3>2, <2>2, DoingRecord
    <3>3. CASE J = <<>>
      BY <3>1, <3>3, <2>2, DoingRecord
    <3> QED BY <3>2, <3>3
  <2> HIDE DEF X
  <2>4. WorkerMove(r, X)
    BY <1>1, <2>3 DEF WorkerMove, Active
  <2>5. X.pc \notin {"heal", "create"}
    BY <2>3
  <2> QED BY <2>1, <2>3, <2>4, <2>5 DEF Moves, X
<1>2. CASE r \in KeyedCall
  <2>1. r \notin Worker /\ r \notin Tx /\ J = <<>>
    BY <1>2, ProduceBounds
  <2>2. X = Doing("done", run[r].job)
    BY <2>1 DEF AfterBatch
  <2>3. X \in RunRecord /\ X.job = run[r].job /\ X.pc = "done"
    <3>1. run[r].job \in Jobs /\ "done" \in Where
      BY DEF ShapeInv, ProduceType, RunRecord, Where
    <3> HIDE DEF X
    <3> QED BY <3>1, <2>2, DoingRecord
  <2> HIDE DEF X
  <2>4. CallMove(r, X)
    BY <1>2, <2>3 DEF CallMove
  <2> QED BY <2>1, <2>3, <2>4 DEF Moves, X
<1>3. CASE r \in Tx
  <2>1. r \notin Worker /\ r \notin KeyedCall /\ J = <<>>
    BY <1>3, ProduceBounds
  <2>2. X = Doing("open", <<>>)
    BY <1>3, <2>1 DEF AfterBatch
  <2>3. X \in RunRecord /\ X.pc = "open"
    <3>1. <<>> \in Jobs /\ "open" \in Where
      BY DEF Jobs, Where
    <3> HIDE DEF X
    <3> QED BY <3>1, <2>2, DoingRecord
  <2> HIDE DEF X
  <2>4. TxMove(r, X)
    BY <1>3, <2>3 DEF TxMove
  <2> QED BY <2>1, <2>3, <2>4 DEF Moves, X
<1> QED BY <1>1, <1>2, <1>3 DEF Runner

\* The whole batch gets its outcomes.
LEMMA ResolvedMove ==
    ASSUME ShapeInv, NEW r \in Runner, run[r].pc \in Active, NEW out,
           Resolved(r), RecordAll(r, out),
           \A i \in DOMAIN Batch(r) : out[i] \in Outcomes \ {"none"}
    PROVE  /\ Moves(r)
           /\ \A c \in Op \cup KeyedCall : resp'[c] # resp[c] =>
                 \E i \in DOMAIN Batch(r) : c = Recorded(r, i) /\ resp'[c] = out[i]
PROOF
<1> DEFINE Answers(c) == \E i \in DOMAIN Batch(r) : c = Recorded(r, i)
<1>1. resp \in [Op \cup KeyedCall -> Outcomes]
  BY DEF ShapeInv, ProduceType
<1>2. /\ DOMAIN resp' = Op \cup KeyedCall
      /\ \A c \in Op \cup KeyedCall :
            IF Answers(c) THEN \E i \in DOMAIN Batch(r) : c = Recorded(r, i) /\ resp'[c] = out[i]
                          ELSE resp'[c] = resp[c]
  <2>1. resp' = [c \in Op \cup KeyedCall |->
                   IF Answers(c)
                   THEN out[CHOOSE i \in DOMAIN Batch(r) : c = Recorded(r, i)]
                   ELSE resp[c]]
    BY <1>1 DEF RecordAll
  <2>2. ASSUME NEW c \in Op \cup KeyedCall, Answers(c)
        PROVE  \E i \in DOMAIN Batch(r) : c = Recorded(r, i) /\ resp'[c] = out[i]
    <3> DEFINE i == CHOOSE i \in DOMAIN Batch(r) : c = Recorded(r, i)
    <3>1. i \in DOMAIN Batch(r) /\ c = Recorded(r, i)
      BY <2>2
    <3>2. resp'[c] = out[i]
      BY <2>1, <2>2
    <3> HIDE DEF i
    <3> QED BY <3>1, <3>2
  <2>3. ASSUME NEW c \in Op \cup KeyedCall, ~Answers(c) PROVE resp'[c] = resp[c]
    BY <2>1, <2>3
  <2> QED BY <2>1, <2>2, <2>3
<1>3. resp' = [c \in Op \cup KeyedCall |-> resp'[c]]
  BY <1>1 DEF RecordAll
<1> HIDE DEF Answers
<1>4. \A c \in Op \cup KeyedCall :
        IF Answers(c) THEN resp'[c] \in Outcomes \ {"none"} ELSE resp'[c] = resp[c]
  BY <1>2
<1>5. resp' \in [Op \cup KeyedCall -> Outcomes]
  BY <1>1, <1>3, <1>4
<1> DEFINE J == Tail(run[r].job)
<1>6. run' = [run EXCEPT ![r] = AfterBatch(r, J)]
  BY DEF Resolved
<1>7. ASSUME r \in Worker
      PROVE  /\ GoodJob(J)
             /\ \A o \in Op : In(J, o) => Has(r, o)
             /\ \A o \in Op : IF Has(r, o) /\ ~In(J, o) THEN resp'[o] # "none" ELSE resp'[o] = resp[o]
             /\ \A c \in KeyedCall : resp'[c] = resp[c]
  <2>1. /\ GoodJob(run[r].job) /\ run[r].job # <<>>
        /\ \A o \in ToSet(Batch(r)) : o \in Op /\ Has(r, o)
    BY <1>7, BatchShape
  <2>2. GoodJob(J) /\ \A o : In(J, o) <=> Has(r, o) /\ o \notin ToSet(Batch(r))
    BY <2>1, TailJob DEF Has, Batch
  <2>3. \A c : Answers(c) <=> c \in ToSet(Batch(r))
    BY <1>7 DEF Answers, Recorded, ToSet
  <2>4. \A c \in KeyedCall : c \notin Op
    BY ProduceBounds
  <2> HIDE DEF J
  <2> QED BY <1>4, <2>1, <2>2, <2>3, <2>4
<1>8. ASSUME r \notin Worker
      PROVE  J = <<>> /\ \A c : Answers(c) <=> c = r
  <2>1. J = <<>> /\ DOMAIN Batch(r) = {1}
    BY <1>8, BatchShape
  <2> QED BY <2>1, <1>8 DEF Answers, Recorded
<1>9. r \in Tx => resp' = resp
  <2> SUFFICES ASSUME r \in Tx PROVE \A c \in Op \cup KeyedCall : resp'[c] = resp[c]
    BY <1>1, <1>5
  <2>1. r \notin Worker /\ r \notin Op \cup KeyedCall
    BY ProduceBounds
  <2> QED BY <2>1, <1>4, <1>8
<1>10. ASSUME r \in KeyedCall
       PROVE  /\ resp'[r] # "none"
              /\ \A d \in (Op \cup KeyedCall) \ {r} : resp'[d] = resp[d]
  <2>1. r \notin Worker
    BY <1>10, ProduceBounds
  <2> QED BY <2>1, <1>10, <1>4, <1>8
<1> HIDE DEF J
<1>11. Moves(r)
  BY <1>5, <1>6, <1>7, <1>8, <1>9, <1>10, AfterMove
<1> QED BY <1>2, <1>11

\* One statement is evicted from the batch.
LEMMA EvictMove ==
    ASSUME ShapeInv, NEW r \in Runner, run[r].pc \in Active, NEW i \in DOMAIN Batch(r),
           EvictStatement(r, i)
    PROVE  /\ Moves(r)
           /\ \A c \in Op \cup KeyedCall : resp'[c] # resp[c] =>
                 c = Recorded(r, i) /\ resp'[c] = "evicted"
PROOF
<1> DEFINE J == Evicted(run[r].job, i)
<1>1. resp \in [Op \cup KeyedCall -> Outcomes]
  BY DEF ShapeInv, ProduceType
<1>2. run' = [run EXCEPT ![r] = AfterBatch(r, J)]
  BY DEF EvictStatement, Evicted, Batch
<1>3. resp' = IF r \in Tx THEN resp ELSE [resp EXCEPT ![Recorded(r, i)] = "evicted"]
  BY DEF EvictStatement
<1>4. resp' \in [Op \cup KeyedCall -> Outcomes]
  BY <1>1, <1>3 DEF Outcomes
<1>5. \A c \in Op \cup KeyedCall : resp'[c] # resp[c] =>
         c = Recorded(r, i) /\ resp'[c] = "evicted"
  BY <1>1, <1>3
<1> HIDE DEF J
<1>6. ASSUME r \in Worker
      PROVE  /\ GoodJob(J)
             /\ \A o \in Op : In(J, o) => Has(r, o)
             /\ \A o \in Op : IF Has(r, o) /\ ~In(J, o) THEN resp'[o] # "none" ELSE resp'[o] = resp[o]
             /\ \A c \in KeyedCall : resp'[c] = resp[c]
  <2>1. /\ GoodJob(run[r].job) /\ run[r].job # <<>>
        /\ \A o \in ToSet(Batch(r)) : o \in Op /\ Has(r, o)
    BY <1>6, BatchShape
  <2>2. GoodJob(J) /\ \A o : In(J, o) <=> Has(r, o) /\ o # Batch(r)[i]
    BY <2>1, EvictJob DEF Has, Batch, J
  <2>3. Batch(r)[i] \in Op /\ Recorded(r, i) = Batch(r)[i] /\ r \notin Tx
    BY <2>1, <1>6, ProduceBounds DEF Recorded, ToSet
  <2>4. \A c \in KeyedCall : c \notin Op
    BY ProduceBounds
  <2>5. resp' = [resp EXCEPT ![Batch(r)[i]] = "evicted"]
    BY <2>3, <1>3
  <2>6. \A c \in Op \cup KeyedCall :
           resp'[c] = IF c = Batch(r)[i] THEN "evicted" ELSE resp[c]
    BY <1>1, <2>5
  <2>7. Has(r, Batch(r)[i])
    BY <2>1 DEF ToSet
  <2> QED BY <2>2, <2>3, <2>4, <2>6, <2>7
<1>7. ASSUME r \notin Worker PROVE J = <<>> /\ Recorded(r, i) = r
  <2>1. /\ Tail(run[r].job) = <<>> /\ DOMAIN Batch(r) = {1} /\ Without(Batch(r), 1) = <<>>
    BY <1>7, BatchShape
  <2>2. i = 1
    BY <2>1
  <2>3. <<>> \o <<>> = <<>>
    OBVIOUS
  <2> QED BY <1>7, <2>1, <2>2, <2>3 DEF J, Evicted, Batch, Recorded
<1>8. r \in Tx => resp' = resp
  BY <1>3
<1>9. ASSUME r \in KeyedCall
      PROVE  /\ resp'[r] # "none"
             /\ \A d \in (Op \cup KeyedCall) \ {r} : resp'[d] = resp[d]
  <2>1. r \notin Worker /\ r \notin Tx
    BY <1>9, ProduceBounds
  <2>2. resp' = [resp EXCEPT ![r] = "evicted"]
    BY <2>1, <1>3, <1>7
  <2> QED BY <2>2, <1>1, <1>9
<1>10. Moves(r)
  BY <1>2, <1>4, <1>6, <1>7, <1>8, <1>9, AfterMove
<1> QED BY <1>5, <1>10
\* Everything in the batch fails.
LEMMA FailMove ==
    ASSUME ShapeInv, NEW r \in Runner, run[r].pc \in Active, FailBatch(r)
    PROVE  /\ Moves(r)
           /\ \A c \in Op \cup KeyedCall : resp'[c] # resp[c] => resp'[c] = "failed"
PROOF
<1> DEFINE out == [i \in DOMAIN Batch(r) |-> "failed"]
<1>1. Resolved(r) /\ RecordAll(r, out)
  BY DEF FailBatch
<1>2. \A i \in DOMAIN Batch(r) : out[i] = "failed" /\ out[i] \in Outcomes \ {"none"}
  BY DEF Outcomes
<1> HIDE DEF out
<1> QED BY <1>1, <1>2, ResolvedMove

\* One statement fails: it is evicted, or the batch fails with it.
LEMMA StatementMove ==
    ASSUME ShapeInv, NEW r \in Runner, run[r].pc \in Active, NEW i \in DOMAIN Batch(r),
           FailStatement(r, i)
    PROVE  /\ Moves(r)
           /\ \A c \in Op \cup KeyedCall : resp'[c] # resp[c] =>
                 \/ c = Recorded(r, i) /\ resp'[c] = "evicted"
                 \/ resp'[c] = "failed"
PROOF
<1>1. CASE run[r].told
  BY <1>1, FailMove DEF FailStatement
<1>2. CASE ~run[r].told
  BY <1>2, EvictMove DEF FailStatement
<1> QED BY <1>1, <1>2

\* A transient error: the attempt runs again, or everything in the batch fails.
LEMMA RetryMove ==
    ASSUME ShapeInv, NEW r \in Runner, run[r].pc \in Active, Retry(r)
    PROVE  /\ Moves(r)
           /\ \A c \in Op \cup KeyedCall : resp'[c] # resp[c] => resp'[c] = "failed"
PROOF
<1>1. CASE run[r].tries + 1 < MaxRetries /\ r \notin Tx
  <2>1. run[r] \in RunRecord /\ run \in [Runner -> RunRecord]
    BY DEF ShapeInv, ProduceType
  <2>2. PICK b \in {run[r].told, TRUE} :
            run' = [run EXCEPT ![r] = [Doing("attempt", run[r].job) EXCEPT
                      !.tries = run[r].tries + 1, !.told = b]]
    BY <1>1, <2>1 DEF Retry
  <2>3. b \in BOOLEAN /\ run[r].tries + 1 \in Nat
    <3>1. run[r].told \in BOOLEAN /\ run[r].tries \in Nat
      BY <2>1 DEF RunRecord
    <3>2. b = run[r].told \/ b = TRUE
      BY <2>2, Zenon
    <3>3. b \in BOOLEAN
      BY <3>1, <3>2, Zenon
    <3>4. run[r].tries + 1 \in Nat
      BY <3>1
    <3> QED BY <3>3, <3>4
  <2> DEFINE D == Doing("attempt", run[r].job)
             n == run[r].tries + 1
             Y == [D EXCEPT !.tries = n]
             X == [D EXCEPT !.tries = n, !.told = b]
  <2>4. run' = [run EXCEPT ![r] = X] /\ resp' = resp
    BY <1>1, <2>2 DEF Retry
  <2>5. D \in RunRecord /\ D.pc = "attempt" /\ D.job = run[r].job
    <3>1. run[r].job \in Jobs /\ "attempt" \in Where
      BY <2>1 DEF RunRecord, Where, Active
    <3> QED BY <3>1, DoingRecord
  <2> HIDE DEF D, n
  <2>6. Y \in RunRecord /\ Y.pc = "attempt" /\ Y.job = run[r].job /\ X = [Y EXCEPT !.told = b]
    BY <2>3, <2>5 DEF RunRecord, n
  <2> HIDE DEF X, Y
  <2>7. X \in RunRecord /\ X.pc = "attempt" /\ X.job = run[r].job
    BY <2>3, <2>6 DEF RunRecord
  <2>8. X.pc \in Active /\ X.pc \notin {"heal", "create"}
    BY <2>7 DEF Active
  <2> QED BY <2>4, <2>7, <2>8, KeepMove
<1>2. CASE ~(run[r].tries + 1 < MaxRetries /\ r \notin Tx)
  BY <1>2, FailMove DEF Retry
<1> QED BY <1>1, <1>2

-----------------------------------------------------------------------------
(* Such a step keeps everything about runners, places and the pool, and it   *)
(* answers nobody twice.                                                     *)

AnswersKept == \A c \in Op \cup KeyedCall : resp[c] # "none" => resp'[c] = resp[c]

\* Such a step keeps everything said of runners, places and the pool.
LEMMA MovesInv ==
    ASSUME ShapeInv, PlaceInv, PoolInv, NEW r \in Runner, run[r].pc \in Active, Moves(r),
           UNCHANGED <<queue, workers, caller>>, seq' \in Nat, healFailures' \in Nat
    PROVE  /\ ShapeInv' /\ PlaceInv' /\ PoolInv'
           /\ AnswersKept
           /\ \A c \in KeyedCall : run'[c].job = run[c].job
PROOF
<1>1. PICK X \in RunRecord :
         /\ run' = [run EXCEPT ![r] = X]
         /\ X.pc \in {"heal", "create"} => X.missing \in DOMAIN Head(X.job)
         /\ r \in Worker => WorkerMove(r, X)
         /\ r \in KeyedCall => CallMove(r, X)
         /\ r \in Tx => TxMove(r, X)
  BY DEF Moves
<1>2. run \in [Runner -> RunRecord] /\ resp' \in [Op \cup KeyedCall -> Outcomes]
  BY DEF ShapeInv, ProduceType, Moves
<1>3. run' \in [Runner -> RunRecord] /\ run'[r] = X /\ \A s \in Runner \ {r} : run'[s] = run[s]
  BY <1>1, <1>2
<1>4. /\ Worker \subseteq Runner /\ KeyedCall \subseteq Runner /\ Tx \subseteq Runner
      /\ Op \cap KeyedCall = {} /\ Tx \cap (Op \cup KeyedCall) = {}
      /\ Worker \cap (KeyedCall \cup Tx) = {}
  BY ProduceBounds DEF Runner
<1>5. ProduceType'
  BY <1>2, <1>3 DEF ShapeInv, ProduceType
<1>6. WorkerInv'
  <2> SUFFICES ASSUME NEW w \in Worker
               PROVE  /\ run'[w].pc \in Active \cup {"off", "taking"}
                      /\ GoodJob(run'[w].job)
                      /\ run'[w].pc \in Active <=> run'[w].job # <<>>
    BY DEF WorkerInv
  <2>1. CASE w = r
    <3>1. WorkerMove(r, X) /\ run'[w] = X
      BY <2>1, <1>1, <1>3
    <3> QED BY <3>1 DEF WorkerMove
  <2>2. CASE w # r
    <3>1. run'[w] = run[w]
      BY <2>2, <1>3, <1>4
    <3> QED BY <3>1 DEF ShapeInv, WorkerInv
  <2> QED BY <2>1, <2>2
<1>7. CallInv' /\ \A c \in KeyedCall : run'[c].job = run[c].job
  <2> SUFFICES ASSUME NEW c \in KeyedCall
               PROVE  /\ run'[c].pc \in Active \cup {"off", "done"}
                      /\ run'[c].pc # "off" => OneKey(run'[c].job)
                      /\ resp'[c] = "none" <=> run'[c].pc # "done"
                      /\ run'[c].job = run[c].job
    BY DEF CallInv
  <2>0. /\ run[c].pc \in Active \cup {"off", "done"}
        /\ run[c].pc # "off" => OneKey(run[c].job)
        /\ resp[c] = "none" <=> run[c].pc # "done"
    BY DEF ShapeInv, CallInv
  <2>1. CASE c = r
    <3>1. CallMove(r, X) /\ run'[c] = X
      BY <2>1, <1>1, <1>3
    <3>2. /\ X.job = run[c].job
          /\ (X.pc \in Active /\ resp'[c] = "none") \/ (X.pc = "done" /\ resp'[c] # "none")
      BY <3>1, <2>1 DEF CallMove
    <3>3. run[c].pc # "off"
      BY <2>1 DEF Active
    <3>4. X.pc \in Active => X.pc # "done"
      BY DEF Active
    <3> QED BY <3>1, <3>2, <3>3, <3>4, <2>0
  <2>2. CASE c # r
    <3>1. run'[c] = run[c]
      BY <2>2, <1>3, <1>4
    <3>2. resp'[c] = resp[c]
      <4>1. CASE r \in Worker
        BY <4>1, <1>1 DEF WorkerMove
      <4>2. CASE r \in KeyedCall
        BY <4>2, <2>2, <1>1 DEF CallMove
      <4>3. CASE r \in Tx
        BY <4>3, <1>1 DEF TxMove
      <4> QED BY <4>1, <4>2, <4>3 DEF Runner
    <3> QED BY <3>1, <3>2, <2>0
  <2> QED BY <2>1, <2>2
<1>8. TxInv'
  <2> SUFFICES ASSUME NEW t \in Tx
               PROVE  /\ run'[t].pc \in Active \cup {"off", "open", "done"}
                      /\ run'[t].pc \in Active => OneKey(run'[t].job)
    BY DEF TxInv
  <2>1. CASE t = r
    <3>1. TxMove(r, X) /\ run'[t] = X
      BY <2>1, <1>1, <1>3
    <3>2. OneKey(run[t].job)
      BY <2>1 DEF ShapeInv, TxInv
    <3> QED BY <3>1, <3>2, <2>1 DEF TxMove, Active
  <2>2. CASE t # r
    <3>1. run'[t] = run[t]
      BY <2>2, <1>3, <1>4
    <3> QED BY <3>1 DEF ShapeInv, TxInv
  <2> QED BY <2>1, <2>2
<1>9. HealInv'
  <2> SUFFICES ASSUME NEW s \in Runner, run'[s].pc \in {"heal", "create"}
               PROVE  run'[s].missing \in DOMAIN Head(run'[s].job)
    BY DEF HealInv, Batch
  <2>1. CASE s = r
    BY <2>1, <1>1, <1>3
  <2>2. CASE s # r
    BY <2>2, <1>3 DEF ShapeInv, HealInv, Batch
  <2> QED BY <2>1, <2>2
<1>10. ASSUME NEW w \in Worker, NEW o \in Op
       PROVE  Has(w, o)' => Has(w, o)
  <2>1. CASE w = r
    BY <2>1, <1>1, <1>3 DEF WorkerMove, Has
  <2>2. CASE w # r
    BY <2>2, <1>3, <1>4 DEF Has
  <2> QED BY <2>1, <2>2
<1>11. ASSUME NEW o \in Op, resp'[o] # resp[o]
       PROVE  r \in Worker /\ Has(r, o) /\ ~In(X.job, o) /\ resp'[o] # "none"
  <2>1. CASE r \in Worker
    BY <2>1, <1>1, <1>11 DEF WorkerMove
  <2>2. CASE r \in KeyedCall
    BY <2>2, <1>1, <1>4, <1>11 DEF CallMove
  <2>3. CASE r \in Tx
    BY <2>3, <1>1, <1>11 DEF TxMove
  <2> QED BY <2>1, <2>2, <2>3 DEF Runner
<1>12. ASSUME NEW o \in Op, NEW w \in Worker, Has(w, o), ~Has(w, o)'
       PROVE  w = r /\ resp'[o] # "none"
  <2>1. w = r
    BY <1>12, <1>3, <1>4 DEF Has
  <2>2. ~In(X.job, o) /\ Has(r, o)
    BY <2>1, <1>12, <1>3 DEF Has
  <2> QED BY <2>1, <2>2, <1>1, <1>12 DEF WorkerMove
<1>13. PlaceInv'
  <2>1. Once(queue)' /\ \A o \in Op : Queued(o)' <=> Queued(o)
    BY DEF PlaceInv, Queued, Once
  <2> SUFFICES ASSUME NEW o \in Op
               PROVE  /\ caller'[o] = "idle" => resp'[o] = "none"
                      /\ Pending(o)' <=> Queued(o)' \/ \E w \in Worker : Has(w, o)'
                      /\ \A w \in Worker : Has(w, o)' => ~Queued(o)'
                      /\ \A v, w \in Worker : Has(v, o)' /\ Has(w, o)' => v = w
    BY <2>1 DEF PlaceInv
  <2>2. /\ caller[o] = "idle" => resp[o] = "none"
        /\ Pending(o) <=> Queued(o) \/ \E w \in Worker : Has(w, o)
        /\ \A w \in Worker : Has(w, o) => ~Queued(o)
        /\ \A v, w \in Worker : Has(v, o) /\ Has(w, o) => v = w
    BY DEF PlaceInv
  <2>3. Pending(o)' <=> caller[o] # "idle" /\ resp'[o] = "none"
    BY DEF Pending
  <2>4. Pending(o) <=> caller[o] # "idle" /\ resp[o] = "none"
    BY DEF Pending
  <2>5. CASE resp'[o] = resp[o]
    <3>1. \A w \in Worker : Has(w, o)' <=> Has(w, o)
      <4> SUFFICES ASSUME NEW w \in Worker, Has(w, o), ~Has(w, o)' PROVE FALSE
        BY <1>10
      <4> QED BY <1>12, <2>2, <2>4, <2>5
    <3> QED BY <3>1, <2>1, <2>2, <2>3, <2>4, <2>5
  <2>6. CASE resp'[o] # resp[o]
    <3>1. r \in Worker /\ Has(r, o) /\ resp'[o] # "none" /\ ~Has(r, o)'
      BY <2>6, <1>3, <1>11 DEF Has
    <3>2. \A w \in Worker : ~Has(w, o)'
      BY <3>1, <2>2, <1>10
    <3> QED BY <3>1, <3>2, <2>1, <2>2, <2>3, <2>4
  <2> QED BY <2>5, <2>6
<1>14. PoolInv'
  <2>1. \A w \in Worker : run'[w].pc # "off" <=> run[w].pc # "off"
    <3> TAKE w \in Worker
    <3>1. CASE w = r
      BY <3>1, <1>1, <1>3 DEF WorkerMove, Active
    <3>2. CASE w # r
      BY <3>2, <1>3, <1>4
    <3> QED BY <3>1, <3>2
  <2>2. Busy' = Busy
    BY <2>1 DEF Busy
  <2> QED BY <2>2 DEF PoolInv
<1>15. AnswersKept
  <2>1. ASSUME NEW o \in Op, resp'[o] # resp[o] PROVE resp[o] = "none"
    <3>1. Pending(o)
      BY <2>1, <1>11 DEF PlaceInv
    <3> QED BY <3>1 DEF Pending
  <2>2. ASSUME NEW c \in KeyedCall, resp'[c] # resp[c] PROVE resp[c] = "none"
    <3>1. c = r
      <4>1. CASE r \in Worker
        BY <4>1, <2>2, <1>1 DEF WorkerMove
      <4>2. CASE r \in KeyedCall
        BY <4>2, <2>2, <1>1 DEF CallMove
      <4>3. CASE r \in Tx
        BY <4>3, <2>2, <1>1 DEF TxMove
      <4> QED BY <4>1, <4>2, <4>3 DEF Runner
    <3> QED BY <3>1 DEF ShapeInv, CallInv, Active
  <2> QED BY <2>1, <2>2 DEF AnswersKept
<1> QED BY <1>5, <1>6, <1>7, <1>8, <1>9, <1>13, <1>14, <1>15 DEF ShapeInv
-----------------------------------------------------------------------------
(* Keys, outcomes and ids. *)

\* A committed attempt lands its fresh keys, and all its keys have their row.
LEMMA LandInv ==
    ASSUME KeyInv, NEW r, r \notin Tx, KeysFree(r), Land(r), kept' = kept
    PROVE  /\ KeyInv'
           /\ \A k \in MessageKey : log[k] = 1 => log'[k] = 1
           /\ \A i \in DOMAIN Batch(r) : Batch(r)[i] \in MessageKey => log'[Batch(r)[i]] = 1
PROOF
<1>1. \A i \in DOMAIN Batch(r) : i \in Fresh(r) <=> Batch(r)[i] \notin claims
  BY DEF Fresh, IsDuplicate
<1>2. Fresh(r) \subseteq DOMAIN Batch(r)
  BY DEF Fresh
<1>3. \A k \in MessageKey : log[k] \in {0, 1} /\ (log[k] = 1 <=> k \in claims)
  BY DEF KeyInv
<1>4. \A k : k \in claims' <=> k \in claims \/ \E i \in DOMAIN Batch(r) : Batch(r)[i] = k
  BY DEF Land, ToSet
<1>5. \A k \in MessageKey : log'[k] \in {0, 1} /\ (log'[k] = 1 <=> k \in claims')
  <2> TAKE k \in MessageKey
  <2>1. log'[k] = log[k] + IF \E i \in Fresh(r) : Batch(r)[i] = k THEN 1 ELSE 0
    BY DEF Land
  <2>2. CASE k \in claims
    <3>1. ~\E i \in Fresh(r) : Batch(r)[i] = k
      BY <2>2, <1>1, <1>2
    <3> QED BY <2>1, <2>2, <3>1, <1>3, <1>4
  <2>3. CASE k \notin claims
    <3>1. log[k] = 0
      BY <2>3, <1>3
    <3>2. (\E i \in Fresh(r) : Batch(r)[i] = k) <=> k \in claims'
      BY <2>3, <1>1, <1>2, <1>4
    <3> QED BY <2>1, <3>1, <3>2
  <2> QED BY <2>2, <2>3
<1>6. log' \in [MessageKey -> {0, 1}]
  <2>1. log' = [k \in MessageKey |-> log'[k]]
    BY DEF Land
  <2> QED BY <2>1, <1>5
<1>7. \A t \in Tx : kept'[t] \cap claims' = {}
  <2>1. \A t \in Tx : kept[t] \cap claims = {} /\ kept[t] \cap ToSet(Batch(r)) = {}
    BY DEF KeyInv, KeysFree
  <2> QED BY <2>1 DEF Land
<1>8. KeyInv'
  BY <1>5, <1>6, <1>7 DEF KeyInv
<1> QED BY <1>3, <1>4, <1>5, <1>8

\* Landing or not, nothing that landed is lost.
LEMMA MaybeLandInv ==
    ASSUME KeyInv, NEW r, r \notin Tx, KeysFree(r), kept' = kept,
           Land(r) \/ UNCHANGED <<log, claims>>
    PROVE  KeyInv' /\ \A k \in MessageKey : log[k] = 1 => log'[k] = 1
PROOF
<1>1. CASE Land(r)
  BY <1>1, LandInv
<1>2. CASE UNCHANGED <<log, claims>>
  BY <1>2 DEF KeyInv
<1> QED BY <1>1, <1>2

\* An outcome that is new says what happened: a success is in the log, an
\* eviction or an encoding failure is the operation's own, or a heal failed.
Honest ==
    /\ \A o \in Op : resp'[o] # resp[o] =>
         /\ resp'[o] \in Succeeded => log'[o] = 1
         /\ resp'[o] = "unencodable" => Kind(o) = "unencodable"
         /\ resp'[o] = "evicted" => Kind(o) = "rejected" \/ healFailures' > 0
    /\ \A c \in KeyedCall :
         resp'[c] # resp[c] /\ resp'[c] \in Succeeded => log'[Batch(c)[1]] = 1

OutcomeInv == SuccessIsDurable /\ PoisonIsolated

\* Honest outcomes keep SuccessIsDurable and PoisonIsolated.
LEMMA HonestInv ==
    ASSUME ShapeInv, OutcomeInv, Honest, kind' = kind,
           \A k \in MessageKey : log[k] = 1 => log'[k] = 1,
           healFailures' = healFailures \/ healFailures' = healFailures + 1,
           \A c \in KeyedCall : run'[c].job = run[c].job \/ resp'[c] = "none"
    PROVE  OutcomeInv'
PROOF
<1>1. ASSUME NEW o \in Op, resp'[o] \in Succeeded PROVE log'[o] = 1
  <2>1. CASE resp'[o] # resp[o]
    BY <1>1, <2>1 DEF Honest
  <2>2. CASE resp'[o] = resp[o]
    <3>1. log[o] = 1 /\ o \in MessageKey
      BY <1>1, <2>2 DEF OutcomeInv, SuccessIsDurable, MessageKey
    <3> QED BY <3>1
  <2> QED BY <2>1, <2>2
<1>2. ASSUME NEW c \in KeyedCall, resp'[c] \in Succeeded PROVE log'[Batch(c)[1]'] = 1
  <2>1. Batch(c)' = Batch(c)
    BY <1>2 DEF Succeeded, Batch
  <2>2. CASE resp'[c] # resp[c]
    BY <1>2, <2>1, <2>2 DEF Honest
  <2>3. CASE resp'[c] = resp[c]
    <3>1. log[Batch(c)[1]] = 1
      BY <1>2, <2>3 DEF OutcomeInv, SuccessIsDurable
    <3>2. resp[c] # "none" /\ OneKey(run[c].job)
      BY <1>2, <2>3 DEF ShapeInv, CallInv, Succeeded
    <3>3. PICK k \in Key : run[c].job = << <<k>> >>
      BY <3>2 DEF OneKey
    <3>4. Batch(c)[1] = k /\ k \in MessageKey
      BY <3>3 DEF Batch, MessageKey
    <3> QED BY <3>1, <3>4, <2>1
  <2> QED BY <2>2, <2>3
<1>3. SuccessIsDurable'
  BY <1>1, <1>2 DEF SuccessIsDurable
<1>4. healFailures > 0 => healFailures' > 0
  BY DEF ShapeInv, ProduceType
<1>5. PoisonIsolated'
  BY <1>4 DEF Honest, OutcomeInv, PoisonIsolated, Kind
<1> QED BY <1>3, <1>5 DEF OutcomeInv

\* The sequence only ever moves forward, by the ids an attempt drew.
LEMMA Draws ==
    ASSUME ShapeInv, NEW r \in Runner, run[r].pc \in Active, NEW i
    PROVE  IdAt(r, i) \in Nat /\ seq + Cardinality(Fresh(r)) \in Nat
PROOF
<1>1. IsFiniteSet(DOMAIN Batch(r))
  <2>1. DOMAIN Batch(r) = 1 .. Len(Batch(r)) /\ 1 \in Int /\ Len(Batch(r)) \in Int
    BY BatchShape
  <2> QED BY <2>1, FS_Interval
<1>2. Fresh(r) \in SUBSET DOMAIN Batch(r) /\ {j \in Fresh(r) : j <= i} \in SUBSET DOMAIN Batch(r)
  BY DEF Fresh
<1>3. Cardinality(Fresh(r)) \in Nat /\ Cardinality({j \in Fresh(r) : j <= i}) \in Nat
  BY <1>1, <1>2, FS_Subset, FS_CardinalityType
<1> QED BY <1>3 DEF IdAt, ShapeInv, ProduceType
-----------------------------------------------------------------------------
(* The steps of a runner. *)

\* A step of a runner that moves, is honest and lands keys as it should.
LEMMA RunnerInv ==
    ASSUME IInv, NEW r \in Runner, run[r].pc \in Active, Moves(r), Honest, KeyInv',
           UNCHANGED <<kind, queue, workers, caller>>, seq' \in Nat,
           \A k \in MessageKey : log[k] = 1 => log'[k] = 1,
           healFailures' = healFailures \/ healFailures' = healFailures + 1
    PROVE  IInv' /\ AnswersKept
PROOF
<1>1. ShapeInv /\ PlaceInv /\ PoolInv /\ OutcomeInv
  BY DEF IInv, OutcomeInv
<1>2. healFailures' \in Nat
  BY <1>1 DEF ShapeInv, ProduceType
<1>3. /\ ShapeInv' /\ PlaceInv' /\ PoolInv' /\ AnswersKept
      /\ \A c \in KeyedCall : run'[c].job = run[c].job
  BY <1>1, <1>2, MovesInv
<1>4. OutcomeInv'
  BY <1>1, <1>3, HonestInv
<1> QED BY <1>3, <1>4 DEF IInv, OutcomeInv

\* The same for a step that leaves the log alone.
LEMMA QuietRunnerInv ==
    ASSUME IInv, NEW r \in Runner, run[r].pc \in Active, Moves(r), Honest,
           UNCHANGED <<kind, queue, workers, caller, kept, log, claims>>, seq' \in Nat,
           healFailures' = healFailures \/ healFailures' = healFailures + 1
    PROVE  IInv' /\ AnswersKept
PROOF
<1>1. KeyInv'
  BY DEF IInv, KeyInv
<1>2. \A k \in MessageKey : log[k] = 1 => log'[k] = 1
  OBVIOUS
<1> QED BY <1>1, <1>2, RunnerInv

\* json.Marshal fails: the batch is split, or its one operation answered.
LEMMA FailToEncodeInv ==
    ASSUME IInv, NEW r \in Runner, FailToEncode(r)
    PROVE  IInv' /\ AnswersKept
PROOF
<1>1. ShapeInv /\ run[r].pc \in Active /\ seq' \in Nat
  BY DEF IInv, ShapeInv, ProduceType, FailToEncode, Active, logVars
<1>2. UNCHANGED <<kind, queue, workers, caller, kept, log, claims>> /\ healFailures' = healFailures
  BY DEF FailToEncode, callVars, txVars, logVars, boundVars
<1>3. CASE Len(Batch(r)) = 1
  <2> DEFINE out == [i \in DOMAIN Batch(r) |-> "unencodable"]
  <2>1. Resolved(r) /\ RecordAll(r, out)
    BY <1>3 DEF FailToEncode
  <2>2. \A i \in DOMAIN Batch(r) : out[i] = "unencodable" /\ out[i] \in Outcomes \ {"none"}
    BY DEF Outcomes
  <2> HIDE DEF out
  <2>3. /\ Moves(r)
        /\ \A c \in Op \cup KeyedCall : resp'[c] # resp[c] =>
              \E i \in DOMAIN Batch(r) : c = Recorded(r, i) /\ resp'[c] = "unencodable"
    BY <1>1, <2>1, <2>2, ResolvedMove
  <2>4. \A i \in DOMAIN Batch(r) : Kind(Batch(r)[i]) = "unencodable"
    <3>1. DOMAIN Batch(r) = {1}
      <4>1. DOMAIN Batch(r) = 1 .. 1
        BY <1>1, <1>3, BatchShape
      <4> QED BY <4>1
    <3>2. PICK i \in DOMAIN Batch(r) : Kind(Batch(r)[i]) = "unencodable"
      BY DEF FailToEncode, Unencodable
    <3> QED BY <3>1, <3>2
  <2>5. r \notin Worker => r \notin Op
    BY ProduceBounds DEF Runner
  <2>6. Honest
    BY <2>3, <2>4, <2>5 DEF Honest, Recorded, Succeeded
  <2> QED BY <1>1, <1>2, <2>3, <2>6, QuietRunnerInv
<1>4. CASE Len(Batch(r)) # 1
  <2>1. r \in Worker
    BY <1>1, <1>4, BatchShape
  <2>2. run' = [run EXCEPT ![r] = Doing("attempt", Split(run[r].job))] /\ resp' = resp
    BY <1>1, <1>4 DEF FailToEncode, Split, Batch, ShapeInv, ProduceType
  <2>3. Moves(r)
    BY <1>1, <2>1, <2>2, SplitMove
  <2>4. Honest
    BY <2>2 DEF Honest
  <2> QED BY <1>1, <1>2, <2>3, <2>4, QuietRunnerInv
<1> QED BY <1>3, <1>4

\* The server rejects the first rejected statement, which is its own fault.
LEMMA RejectInv ==
    ASSUME IInv, NEW r \in Runner, Reject(r)
    PROVE  IInv' /\ AnswersKept
PROOF
<1> DEFINE i == Min(Rejected(r))
<1>1. ShapeInv /\ run[r].pc \in Active
  BY DEF IInv, Reject, Attempting, Active
<1>2. UNCHANGED <<kind, queue, workers, caller, kept, log, claims>> /\ healFailures' = healFailures
  BY DEF Reject, callVars, txVars, boundVars
<1>3. i \in DOMAIN Batch(r) /\ Kind(Batch(r)[i]) = "rejected"
  <2>1. Rejected(r) \in SUBSET Nat /\ Rejected(r) # {}
    <3>1. DOMAIN Batch(r) \subseteq Nat
      BY <1>1, BatchShape
    <3> QED BY <3>1 DEF Rejected, Reject
  <2>2. i \in Rejected(r)
    BY <2>1, MinIsMember
  <2> HIDE DEF i
  <2> QED BY <2>2 DEF Rejected
<1>4. FailStatement(r, i) /\ seq' = IdAt(r, i - 1)
  BY DEF Reject, DrawUpTo
<1> HIDE DEF i
<1>5. seq' \in Nat
  BY <1>1, <1>4, Draws
<1>6. /\ Moves(r)
      /\ \A c \in Op \cup KeyedCall : resp'[c] # resp[c] =>
            \/ c = Recorded(r, i) /\ resp'[c] = "evicted"
            \/ resp'[c] = "failed"
  BY <1>1, <1>3, <1>4, StatementMove
<1>7. r \notin Worker => r \notin Op
  BY ProduceBounds DEF Runner
<1>8. Honest
  BY <1>3, <1>6, <1>7 DEF Honest, Recorded, Succeeded
<1> QED BY <1>1, <1>2, <1>5, <1>6, <1>8, QuietRunnerInv

\* A statement that could not be healed is evicted, or its batch fails, and a
\* heal has failed.
LEMMA EvictUnhealed ==
    ASSUME IInv, NEW r \in Runner, run[r].pc \in Active, NEW i \in DOMAIN Batch(r),
           EvictStatement(r, i) \/ FailStatement(r, i), healFailures' = healFailures + 1, seq' \in Nat,
           UNCHANGED <<kind, queue, workers, caller, kept, log, claims>>
    PROVE  IInv' /\ AnswersKept
PROOF
<1>1. ShapeInv
  BY DEF IInv
<1>2. /\ Moves(r)
      /\ \A c \in Op \cup KeyedCall : resp'[c] # resp[c] =>
            \/ c = Recorded(r, i) /\ resp'[c] = "evicted"
            \/ resp'[c] = "failed"
  BY <1>1, EvictMove, StatementMove
<1>3. healFailures' > 0
  BY <1>1 DEF ShapeInv, ProduceType
<1>4. Honest
  BY <1>2, <1>3 DEF Honest, Succeeded
<1> QED BY <1>2, <1>4, QuietRunnerInv

\* A partition is missing: the attempt heals, or gives the statement up.
LEMMA MissPartitionInv ==
    ASSUME IInv, NEW r \in Runner, MissPartition(r)
    PROVE  IInv' /\ AnswersKept
PROOF
<1> DEFINE i == Min(Uncovered(r))
<1>1. ShapeInv /\ run[r].pc \in Active /\ run[r] \in RunRecord /\ run \in [Runner -> RunRecord]
  BY DEF IInv, ShapeInv, ProduceType, MissPartition, Attempting, Active
<1>2. UNCHANGED <<kind, queue, workers, caller, kept, log, claims>>
  BY DEF MissPartition, callVars, txVars
<1>3. i \in DOMAIN Batch(r) /\ i \in Nat
  <2>1. Uncovered(r) \in SUBSET Nat /\ Uncovered(r) # {} /\ Uncovered(r) \subseteq DOMAIN Batch(r)
    <3>1. DOMAIN Batch(r) \subseteq Nat
      BY <1>1, BatchShape
    <3> QED BY <3>1 DEF Uncovered, Fresh, MissPartition
  <2>2. i \in Uncovered(r)
    BY <2>1, MinIsMember
  <2> HIDE DEF i
  <2> QED BY <2>1, <2>2
<1>4. /\ seq' = IdAt(r, i)
      /\ IF run[r].heals > MaxRetries
         THEN EvictStatement(r, i) /\ healFailures' = healFailures + 1
         ELSE /\ run' = [run EXCEPT ![r].pc = "heal", ![r].missing = i]
              /\ resp' = resp /\ healFailures' = healFailures
  BY DEF MissPartition, DrawUpTo
<1> HIDE DEF i
<1>5. seq' \in Nat
  BY <1>1, <1>4, Draws
<1>6. CASE run[r].heals > MaxRetries
  BY <1>1, <1>2, <1>3, <1>4, <1>5, <1>6, EvictUnhealed
<1>7. CASE ~(run[r].heals > MaxRetries)
  <2> DEFINE X == [run[r] EXCEPT !.pc = "heal", !.missing = i]
  <2>1. run' = [run EXCEPT ![r] = X]
    BY <1>1, <1>4, <1>7
  <2>2. X \in RunRecord /\ X.pc = "heal" /\ X.job = run[r].job /\ X.missing = i
    BY <1>1, <1>3 DEF RunRecord, Where, Active
  <2> HIDE DEF X
  <2>3. Moves(r)
    BY <1>1, <1>3, <1>4, <1>7, <2>1, <2>2, KeepMove DEF Active
  <2>4. Honest
    BY <1>4, <1>7 DEF Honest
  <2> QED BY <1>1, <1>2, <1>4, <1>5, <1>7, <2>3, <2>4, QuietRunnerInv
<1> QED BY <1>6, <1>7

\* The attempt commits: every success it records is in the log.
LEMMA CommitInv ==
    ASSUME IInv, NEW r \in Runner, Commit(r)
    PROVE  IInv' /\ AnswersKept
PROOF
<1> DEFINE out == [i \in DOMAIN Batch(r) |-> Outcome(r, i)]
<1>1. ShapeInv /\ run[r].pc \in Active /\ KeyInv /\ r \notin Tx /\ KeysFree(r) /\ Land(r)
  BY DEF IInv, Commit, CanCommit, Attempting, Active
<1>2. /\ UNCHANGED <<kind, queue, workers, caller, kept>> /\ healFailures' = healFailures
      /\ seq' = seq + Cardinality(Fresh(r))
  BY DEF Commit, callVars, txVars, boundVars, DrawAll
<1>3. /\ KeyInv'
      /\ \A k \in MessageKey : log[k] = 1 => log'[k] = 1
      /\ \A i \in DOMAIN Batch(r) : Batch(r)[i] \in MessageKey => log'[Batch(r)[i]] = 1
  BY <1>1, <1>2, LandInv
<1>4. seq' \in Nat
  BY <1>1, <1>2, Draws
<1>5. Resolved(r) /\ RecordAll(r, out)
  BY DEF Commit
<1>6. \A i \in DOMAIN Batch(r) : out[i] \in Succeeded /\ out[i] \in Outcomes \ {"none"}
  BY DEF Outcome, Outcomes, Succeeded
<1> HIDE DEF out
<1>7. /\ Moves(r)
      /\ \A c \in Op \cup KeyedCall : resp'[c] # resp[c] =>
            \E i \in DOMAIN Batch(r) : c = Recorded(r, i) /\ resp'[c] = out[i]
  BY <1>1, <1>5, <1>6, ResolvedMove
<1>8. ASSUME NEW o \in Op, resp'[o] # resp[o]
      PROVE  log'[o] = 1 /\ resp'[o] \in Succeeded
  <2>1. PICK i \in DOMAIN Batch(r) : o = Recorded(r, i) /\ resp'[o] = out[i]
    BY <1>7, <1>8
  <2>2. r \in Worker
    <3>1. r \notin Worker => r \notin Op
      BY ProduceBounds DEF Runner
    <3> QED BY <2>1, <3>1 DEF Recorded
  <2>3. o = Batch(r)[i] /\ o \in MessageKey
    BY <2>1, <2>2 DEF Recorded, MessageKey
  <2> QED BY <2>1, <2>3, <1>3, <1>6
<1>9. ASSUME NEW c \in KeyedCall, resp'[c] # resp[c]
      PROVE  log'[Batch(c)[1]] = 1
  <2>1. PICK i \in DOMAIN Batch(r) : c = Recorded(r, i)
    BY <1>7, <1>9
  <2>2. r \notin Worker
    <3>1. r \in Worker => Batch(r)[i] \in Op
      BY <1>1, BatchShape DEF ToSet
    <3> QED BY <2>1, <3>1, ProduceBounds DEF Recorded
  <2>3. c = r /\ OneKey(run[r].job)
    BY <2>1, <2>2, <1>1, BatchShape DEF Recorded
  <2>4. PICK k \in Key : run[r].job = << <<k>> >>
    BY <2>3 DEF OneKey
  <2>5. Batch(r) = <<k>>
    BY <2>4 DEF Batch
  <2>6. 1 \in DOMAIN Batch(r) /\ Batch(r)[1] = k /\ k \in MessageKey
    BY <2>5 DEF MessageKey
  <2> QED BY <2>3, <2>6, <1>3
<1>10. Honest
  BY <1>8, <1>9 DEF Honest, Succeeded
<1> QED BY <1>1, <1>2, <1>3, <1>4, <1>7, <1>10, RunnerInv

\* The commit is lost, or the attempt's deadline passes: no success is recorded.
LEMMA LostCommitInv ==
    ASSUME IInv, NEW r \in Runner, LoseCommit(r) \/ TimeOutAttempt(r)
    PROVE  IInv' /\ AnswersKept
PROOF
<1>1. /\ ShapeInv /\ run[r].pc \in Active /\ KeyInv /\ r \notin Tx /\ KeysFree(r)
      /\ Land(r) \/ UNCHANGED <<log, claims>>
  <2>1. r \in Worker => r \notin Tx
    BY ProduceBounds
  <2> QED BY <2>1 DEF IInv, LoseCommit, TimeOutAttempt, CanCommit, Attempting, Active
<1>2. /\ UNCHANGED <<kind, queue, workers, caller, kept>> /\ healFailures' = healFailures
      /\ seq' = seq + Cardinality(Fresh(r))
  BY DEF LoseCommit, TimeOutAttempt, Fault, callVars, txVars, DrawAll
<1>3. KeyInv' /\ \A k \in MessageKey : log[k] = 1 => log'[k] = 1
  BY <1>1, <1>2, MaybeLandInv
<1>4. seq' \in Nat
  BY <1>1, <1>2, Draws
<1>5. /\ Moves(r)
      /\ \A c \in Op \cup KeyedCall : resp'[c] # resp[c] => resp'[c] = "failed"
  <2>1. CASE LoseCommit(r)
    BY <1>1, <2>1, RetryMove DEF LoseCommit
  <2>2. CASE TimeOutAttempt(r)
    BY <1>1, <2>2, FailMove DEF TimeOutAttempt
  <2> QED BY <2>1, <2>2
<1>6. Honest
  BY <1>5 DEF Honest, Succeeded
<1> QED BY <1>1, <1>2, <1>3, <1>4, <1>5, <1>6, RunnerInv

\* The heal: reading the sequence, creating the partition, or failing to.
LEMMA HealStepInv ==
    ASSUME IInv, NEW r \in Runner,
           ReadLastValue(r) \/ CreatePartition(r) \/ TimeOutHeal(r) \/ FailHeal(r)
    PROVE  IInv' /\ AnswersKept
PROOF
<1>1. /\ ShapeInv /\ run[r].pc \in {"heal", "create"} /\ run[r].pc \in Active
      /\ run[r].missing \in DOMAIN Batch(r)
      /\ run[r] \in RunRecord /\ run \in [Runner -> RunRecord]
  BY DEF IInv, ShapeInv, HealInv, ProduceType, ReadLastValue, CreatePartition, TimeOutHeal, FailHeal, Active
<1>2. seq' \in Nat /\ UNCHANGED <<kind, queue, workers, caller, kept, log, claims>>
  BY DEF IInv, ShapeInv, ProduceType, ReadLastValue, CreatePartition, TimeOutHeal, FailHeal,
         callVars, txVars, logVars
<1>3. CASE ReadLastValue(r)
  <2> DEFINE n == (seq + 1) \div PartitionSize
             X == [run[r] EXCEPT !.pc = "create", !.target = n]
  <2>1. run' = [run EXCEPT ![r] = X] /\ resp' = resp /\ healFailures' = healFailures
    BY <1>1, <1>3 DEF ReadLastValue, boundVars
  <2>2. n \in Int
    BY <1>1, ProduceBounds DEF ShapeInv, ProduceType
  <2> HIDE DEF n
  <2>3. X \in RunRecord /\ X.pc = "create" /\ X.job = run[r].job /\ X.missing = run[r].missing
    BY <1>1, <2>2 DEF RunRecord, Where, Active
  <2> HIDE DEF X
  <2>4. Moves(r)
    BY <1>1, <2>1, <2>3, KeepMove DEF Active
  <2>5. Honest
    BY <2>1 DEF Honest
  <2> QED BY <1>1, <1>2, <2>1, <2>4, <2>5, QuietRunnerInv
<1>4. CASE CreatePartition(r)
  <2> DEFINE X == [run[r] EXCEPT !.pc = "attempt", !.heals = run[r].heals + 1]
  <2>1. run' = [run EXCEPT ![r] = X] /\ resp' = resp /\ healFailures' = healFailures
    BY <1>1, <1>4 DEF CreatePartition, boundVars
  <2>2. X \in RunRecord /\ X.pc = "attempt" /\ X.job = run[r].job
    <3>1. run[r].heals + 1 \in Nat
      BY <1>1 DEF RunRecord
    <3> QED BY <1>1, <3>1 DEF RunRecord, Where, Active
  <2> HIDE DEF X
  <2>3. Moves(r)
    BY <1>1, <2>1, <2>2, KeepMove DEF Active
  <2>4. Honest
    BY <2>1 DEF Honest
  <2> QED BY <1>1, <1>2, <2>1, <2>3, <2>4, QuietRunnerInv
<1>5. CASE TimeOutHeal(r)
  <2>1. FailStatement(r, run[r].missing) /\ healFailures' = healFailures + 1
    BY <1>5 DEF TimeOutHeal
  <2> QED BY <1>1, <1>2, <2>1, EvictUnhealed
<1>6. CASE FailHeal(r)
  <2>1. /\ Moves(r) /\ healFailures' = healFailures
        /\ \A c \in Op \cup KeyedCall : resp'[c] # resp[c] => resp'[c] = "failed"
    BY <1>1, <1>6, RetryMove DEF FailHeal, Fault
  <2>2. Honest
    BY <2>1 DEF Honest, Succeeded
  <2> QED BY <1>1, <1>2, <2>1, <2>2, QuietRunnerInv
<1> QED BY <1>3, <1>4, <1>5, <1>6

\* Every step of a worker, a keyed call or a transaction's statement.
LEMMA RunnerStepInv ==
    ASSUME IInv, NEW r \in Runner, RunnerStep(r)
    PROVE  IInv' /\ AnswersKept
PROOF BY FailToEncodeInv, RejectInv, MissPartitionInv, CommitInv, LostCommitInv, HealStepInv
         DEF RunnerStep
-----------------------------------------------------------------------------
(* The callers, the queue and the transactions of the callers. *)

\* Steps that touch nothing the invariant is about.
LEMMA SameInv ==
    ASSUME IInv,
           UNCHANGED <<kind, queue, workers, caller, resp, run, kept, log, claims, seq, healFailures>>
    PROVE  IInv' /\ AnswersKept
PROOF
<1>1. ShapeInv'
  BY DEF IInv, ShapeInv, ProduceType, WorkerInv, CallInv, TxInv, HealInv, Batch
<1>2. PlaceInv'
  BY DEF IInv, PlaceInv, Pending, Queued, Has
<1>3. PoolInv' /\ KeyInv'
  BY DEF IInv, PoolInv, Busy, KeyInv
<1>4. SuccessIsDurable' /\ PoisonIsolated'
  BY DEF IInv, SuccessIsDurable, PoisonIsolated, Batch, Kind
<1> QED BY <1>1, <1>2, <1>3, <1>4 DEF IInv, AnswersKept

\* What is known of outcomes, keys and keyed runners when only the callers, the
\* queue or the workers change.
LEMMA BatcherInv ==
    ASSUME IInv, \A r \in KeyedCall \cup Tx : run'[r] = run[r],
           UNCHANGED <<kind, resp, kept, log, claims, seq, healFailures>>
    PROVE  CallInv' /\ TxInv' /\ KeyInv' /\ SuccessIsDurable' /\ PoisonIsolated' /\ AnswersKept
PROOF
<1>1. CallInv' /\ TxInv'
  BY DEF IInv, ShapeInv, CallInv, TxInv
<1>2. KeyInv' /\ AnswersKept
  BY DEF IInv, KeyInv, AnswersKept
<1>3. SuccessIsDurable' /\ PoisonIsolated'
  BY DEF IInv, SuccessIsDurable, PoisonIsolated, Batch, Kind
<1> QED BY <1>1, <1>2, <1>3

\* A caller puts its operation into the queue.
LEMMA EnqueueInv ==
    ASSUME IInv, NEW o \in Op, Enqueue(o)
    PROVE  IInv' /\ AnswersKept
PROOF
<1>1. /\ caller[o] = "idle" /\ queue' = Append(queue, o)
      /\ caller' = [caller EXCEPT ![o] = "enqueued"]
      /\ UNCHANGED <<kind, workers, resp, run, kept, log, claims, seq, healFailures>>
  BY DEF Enqueue, txVars, logVars, boundVars
<1>2. /\ queue \in Seq(Op) /\ Once(queue)
      /\ caller \in [Op -> {"idle", "enqueued", "waiting", "abandoned"}]
  BY DEF IInv, ShapeInv, ProduceType, PlaceInv
<1>3. /\ queue' \in Seq(Op) /\ Len(queue') = Len(queue) + 1 /\ Len(queue) \in Nat
      /\ DOMAIN queue = 1 .. Len(queue) /\ DOMAIN queue' = 1 .. Len(queue) + 1
      /\ \A i \in 1 .. Len(queue) : queue'[i] = queue[i]
      /\ queue'[Len(queue) + 1] = o
  BY <1>1, <1>2, AppendProperties, LenProperties
<1>4. ~Queued(o) /\ \A w \in Worker : ~Has(w, o)
  BY <1>1 DEF IInv, PlaceInv, Pending
<1>5. ToSet(queue') = ToSet(queue) \cup {o}
  <2>1. \A x : x \in ToSet(queue') <=> \E i \in 1 .. Len(queue) + 1 : queue'[i] = x
    BY <1>3 DEF ToSet
  <2>2. \A x : x \in ToSet(queue) <=> \E i \in 1 .. Len(queue) : queue[i] = x
    BY <1>3 DEF ToSet
  <2>3. /\ Len(queue) + 1 \in 1 .. Len(queue) + 1
        /\ \A i \in 1 .. Len(queue) : i \in 1 .. Len(queue) + 1
        /\ \A i \in 1 .. Len(queue) + 1 : i = Len(queue) + 1 \/ i \in 1 .. Len(queue)
    BY <1>3
  <2>4. \A x : x \in ToSet(queue') <=> x \in ToSet(queue) \/ x = o
    BY <1>3, <2>1, <2>2, <2>3
  <2> QED BY <2>4
<1>6. Once(queue')
  <2> SUFFICES ASSUME NEW a \in DOMAIN queue', NEW b \in DOMAIN queue', queue'[a] = queue'[b]
               PROVE  a = b
    BY DEF Once
  <2>1. \A i \in 1 .. Len(queue) : queue[i] # o
    BY <1>3, <1>4 DEF Queued, ToSet
  <2>2. \A i \in DOMAIN queue' : i = Len(queue) + 1 \/ i \in 1 .. Len(queue)
    BY <1>3
  <2> QED BY <1>2, <1>3, <2>1, <2>2 DEF Once
<1>7. ProduceType' /\ WorkerInv' /\ HealInv'
  BY <1>1, <1>2, <1>3 DEF IInv, ShapeInv, ProduceType, WorkerInv, HealInv, Batch
<1>8. PlaceInv'
  <2>1. \A p \in Op : Queued(p)' <=> Queued(p) \/ p = o
    BY <1>5 DEF Queued
  <2>2. \A p \in Op : \A w \in Worker : Has(w, p)' <=> Has(w, p)
    BY <1>1 DEF Has
  <2>3. \A p \in Op : Pending(p)' <=> Pending(p) \/ p = o
    BY <1>1, <1>2 DEF Pending, IInv, PlaceInv
  <2>4. \A p \in Op : caller'[p] = "idle" => resp'[p] = "none"
    BY <1>1, <1>2 DEF IInv, PlaceInv
  <2> QED BY <1>4, <1>6, <2>1, <2>2, <2>3, <2>4 DEF IInv, PlaceInv
<1>9. PoolInv'
  BY <1>1, <1>2 DEF IInv, PoolInv, Busy
<1> QED BY <1>1, <1>7, <1>8, <1>9, BatcherInv DEF IInv, ShapeInv

\* A step that moves no operation keeps every operation in its place.
LEMMA PlaceSame ==
    ASSUME PlaceInv, Once(queue)',
           \A p \in Op : caller'[p] = "idle" => resp'[p] = "none",
           \A p \in Op : Queued(p)' <=> Queued(p),
           \A p \in Op : Pending(p)' <=> Pending(p),
           \A p \in Op : \A w \in Worker : Has(w, p)' <=> Has(w, p)
    PROVE  PlaceInv'
PROOF BY DEF PlaceInv

\* A caller stops waiting; its operation stays where it is.
LEMMA AbandonInv ==
    ASSUME IInv, NEW o \in Op, Abandon(o)
    PROVE  IInv' /\ AnswersKept
PROOF
<1>1. /\ caller[o] = "waiting" /\ caller' = [caller EXCEPT ![o] = "abandoned"]
      /\ UNCHANGED <<kind, queue, workers, resp, run, kept, log, claims, seq, healFailures>>
  BY DEF Abandon, txVars, logVars, boundVars
<1>2. caller \in [Op -> {"idle", "enqueued", "waiting", "abandoned"}]
  BY DEF IInv, ShapeInv, ProduceType
<1>3. ProduceType' /\ WorkerInv' /\ HealInv'
  BY <1>1, <1>2 DEF IInv, ShapeInv, ProduceType, WorkerInv, HealInv, Batch
<1>4. \A p \in Op :
        /\ caller'[p] = "idle" <=> caller[p] = "idle"
        /\ caller'[p] = "enqueued" <=> caller[p] = "enqueued"
  BY <1>1, <1>2
<1>5. PlaceInv'
  <2>1. \A p \in Op :
          /\ Queued(p)' <=> Queued(p)
          /\ Pending(p)' <=> Pending(p)
          /\ \A w \in Worker : Has(w, p)' <=> Has(w, p)
    BY <1>1, <1>4 DEF Queued, Pending, Has
  <2>2. PlaceInv /\ Once(queue)'
    BY <1>1 DEF IInv, PlaceInv
  <2>3. \A p \in Op : caller'[p] = "idle" => resp'[p] = "none"
    BY <1>1, <1>4 DEF IInv, PlaceInv
  <2> QED BY <2>1, <2>2, <2>3, PlaceSame
<1>6. PoolInv'
  BY <1>1, <1>4 DEF IInv, PoolInv, Busy
<1> QED BY <1>1, <1>3, <1>5, <1>6, BatcherInv DEF IInv, ShapeInv

\* A worker that is off, is starting, or is between batches holds nothing.
LEMMA IdleWorker ==
    ASSUME IInv, NEW w \in Worker, run[w].pc \in {"off", "taking"}
    PROVE  run[w].job = <<>> /\ \A o : ~Has(w, o)
PROOF
<1>1. run[w].job = <<>>
  BY DEF IInv, ShapeInv, WorkerInv, Active
<1> QED BY <1>1, NoJob DEF Has

\* The running workers can be counted.
LEMMA BusyIsFinite == IsFiniteSet(Busy) /\ Cardinality(Busy) \in Nat
PROOF
<1>1. Busy \in SUBSET Worker /\ IsFiniteSet(Worker)
  BY ProduceBounds DEF Busy
<1> QED BY <1>1, FS_Subset, FS_CardinalityType

\* A caller's second lock section: a worker starts, or one is running.
LEMMA StartWorkerInv ==
    ASSUME IInv, NEW o \in Op, StartWorker(o)
    PROVE  IInv' /\ AnswersKept
PROOF
<1>1. /\ caller[o] = "enqueued" /\ caller' = [caller EXCEPT ![o] = "waiting"]
      /\ UNCHANGED <<kind, queue, resp, kept, log, claims, seq, healFailures>>
  BY DEF StartWorker, txVars, logVars, boundVars
<1>2. /\ caller \in [Op -> {"idle", "enqueued", "waiting", "abandoned"}]
      /\ run \in [Runner -> RunRecord] /\ workers = Cardinality(Busy)
  BY DEF IInv, ShapeInv, ProduceType, PoolInv
<1>3. \A p \in Op :
        /\ caller'[p] = "idle" <=> caller[p] = "idle"
        /\ Queued(p)' <=> Queued(p)
        /\ Pending(p)' <=> Pending(p)
  <2>1. \A p \in Op : caller'[p] = "idle" <=> caller[p] = "idle"
    BY <1>1, <1>2
  <2> QED BY <1>1, <2>1 DEF Queued, Pending
<1>4. CASE NeedsWorker
  <2> DEFINE w == CHOOSE x \in Worker : run[x].pc = "off"
             X == Doing("taking", <<>>)
  <2>1. workers' = workers + 1 /\ run' = [run EXCEPT ![w] = X]
    BY <1>4 DEF StartWorker
  <2>2. \E x \in Worker : run[x].pc = "off"
    <3> SUFFICES ASSUME \A x \in Worker : run[x].pc # "off" PROVE FALSE
      OBVIOUS
    <3>1. Busy = Worker
      BY DEF Busy
    <3>2. Cardinality(Worker) \in Nat /\ Cardinality(Worker) # 0
      BY ProduceBounds, FS_CardinalityType, FS_EmptySet
    <3> QED BY <3>1, <3>2, <1>2, <1>4 DEF NeedsWorker
  <2>3. w \in Worker /\ run[w].pc = "off"
    BY <2>2
  <2> HIDE DEF w
  <2>4. X \in RunRecord /\ X.pc = "taking" /\ X.job = <<>>
    <3>1. <<>> \in Jobs /\ "taking" \in Where
      BY DEF Jobs, Where
    <3> QED BY <3>1, DoingRecord
  <2> HIDE DEF X
  <2>5. /\ run' \in [Runner -> RunRecord] /\ run'[w] = X
        /\ \A r \in Runner \ {w} : run'[r] = run[r]
        /\ \A r \in KeyedCall \cup Tx : run'[r] = run[r]
    <3>1. w \in Runner /\ w \notin KeyedCall \cup Tx /\ KeyedCall \cup Tx \subseteq Runner
      BY <2>3, ProduceBounds DEF Runner
    <3> QED BY <3>1, <2>1, <2>4, <1>2
  <2>6. \A v \in Worker : v # w => run'[v] = run[v]
    BY <2>5 DEF Runner
  <2>7. ProduceType'
    BY <1>1, <1>2, <2>5 DEF IInv, ShapeInv, ProduceType
  <2>8. WorkerInv'
    BY <2>4, <2>5, <2>6, NoJob DEF IInv, ShapeInv, WorkerInv, Active
  <2>9. HealInv'
    BY <2>4, <2>5 DEF IInv, ShapeInv, HealInv, Batch
  <2>10. \A v \in Worker, p \in Op : Has(v, p)' <=> Has(v, p)
    <3>1. run[w].job = <<>> /\ run'[w].job = <<>>
      BY <2>3, <2>4, <2>5, IdleWorker
    <3>2. \A v \in Worker : run'[v].job = run[v].job
      BY <3>1, <2>6
    <3> QED BY <3>2 DEF Has
  <2>11. PlaceInv'
    <3>1. PlaceInv /\ Once(queue)'
      BY <1>1 DEF IInv, PlaceInv
    <3>2. \A p \in Op : caller'[p] = "idle" => resp'[p] = "none"
      BY <1>1, <1>3 DEF IInv, PlaceInv
    <3> QED BY <1>3, <2>10, <3>1, <3>2, PlaceSame
  <2>12. Busy' = Busy \cup {w} /\ w \notin Busy
    BY <2>3, <2>4, <2>5, <2>6 DEF Busy
  <2>13. PoolInv'
    <3>1. Cardinality(Busy \cup {w}) = Cardinality(Busy) + 1
      BY <2>12, BusyIsFinite, FS_AddElement
    <3> QED BY <3>1, <2>1, <2>12, <1>2 DEF PoolInv
  <2> QED BY <1>1, <2>5, <2>7, <2>8, <2>9, <2>11, <2>13, BatcherInv DEF IInv, ShapeInv
<1>5. CASE ~NeedsWorker
  <2>1. UNCHANGED <<workers, run>>
    BY <1>5 DEF StartWorker
  <2>2. ProduceType' /\ WorkerInv' /\ HealInv'
    BY <1>1, <1>2, <2>1 DEF IInv, ShapeInv, ProduceType, WorkerInv, HealInv, Batch
  <2>3. PlaceInv'
    <3>1. PlaceInv /\ Once(queue)'
      BY <1>1 DEF IInv, PlaceInv
    <3>2. \A p \in Op : caller'[p] = "idle" => resp'[p] = "none"
      BY <1>1, <1>3 DEF IInv, PlaceInv
    <3>3. \A p \in Op : \A w \in Worker : Has(w, p)' <=> Has(w, p)
      BY <2>1 DEF Has
    <3> QED BY <1>3, <3>1, <3>2, <3>3, PlaceSame
  <2>4. PoolInv'
    <3>1. Busy # {}
      <4>1. Cardinality(Busy) # 0
        BY <1>2, <1>5 DEF NeedsWorker
      <4> QED BY <4>1, FS_EmptySet
    <3> QED BY <3>1, <2>1, <1>2 DEF PoolInv, Busy
  <2> QED BY <1>1, <2>1, <2>2, <2>3, <2>4, BatcherInv DEF IInv, ShapeInv
<1> QED BY <1>4, <1>5
\* A worker takes its next batch, or ends on an empty queue.
LEMMA DequeueInv ==
    ASSUME IInv, NEW w \in Worker, Dequeue(w)
    PROVE  IInv' /\ AnswersKept
PROOF
<1>1. /\ run[w].pc = "taking"
      /\ UNCHANGED <<kind, caller, resp, kept, log, claims, seq, healFailures>>
  BY DEF Dequeue, txVars, logVars, boundVars
<1>2. /\ run \in [Runner -> RunRecord] /\ queue \in Seq(Op) /\ Once(queue) /\ PlaceInv
      /\ workers = Cardinality(Busy) /\ w \in Busy
  BY <1>1 DEF IInv, ShapeInv, ProduceType, PlaceInv, PoolInv, Busy
<1>3. /\ w \in Runner /\ w \notin KeyedCall \cup Tx /\ KeyedCall \cup Tx \subseteq Runner
      /\ Worker \subseteq Runner
  BY ProduceBounds DEF Runner
<1>4. run[w].job = <<>> /\ \A o : ~Has(w, o)
  BY <1>1, IdleWorker
<1>5. CASE queue = <<>>
  <2> DEFINE X == Doing("off", <<>>)
  <2>1. workers' = workers - 1 /\ run' = [run EXCEPT ![w] = X] /\ queue' = queue
    BY <1>5 DEF Dequeue
  <2>2. X \in RunRecord /\ X.pc = "off" /\ X.job = <<>>
    <3>1. <<>> \in Jobs /\ "off" \in Where
      BY DEF Jobs, Where
    <3> QED BY <3>1, DoingRecord
  <2> HIDE DEF X
  <2>3. /\ run' \in [Runner -> RunRecord] /\ run'[w] = X
        /\ \A r \in Runner \ {w} : run'[r] = run[r]
    BY <2>1, <2>2, <1>2, <1>3
  <2>4. ProduceType'
    BY <1>1, <2>1, <2>3 DEF IInv, ShapeInv, ProduceType
  <2>5. WorkerInv'
    BY <1>3, <2>2, <2>3, NoJob DEF IInv, ShapeInv, WorkerInv, Active
  <2>6. HealInv'
    BY <2>2, <2>3 DEF IInv, ShapeInv, HealInv, Batch
  <2>7. PlaceInv'
    <3>1. \A v \in Worker : run'[v].job = run[v].job
      BY <1>3, <1>4, <2>2, <2>3
    <3>2. \A p \in Op : \A v \in Worker : Has(v, p)' <=> Has(v, p)
      BY <3>1 DEF Has
    <3>3. \A p \in Op : (Queued(p)' <=> Queued(p)) /\ (Pending(p)' <=> Pending(p))
      BY <1>1, <2>1 DEF Queued, Pending
    <3>4. Once(queue)' /\ \A p \in Op : caller'[p] = "idle" => resp'[p] = "none"
      BY <1>1, <2>1, <1>2 DEF PlaceInv
    <3> QED BY <1>2, <3>2, <3>3, <3>4, PlaceSame
  <2>8. PoolInv'
    <3>1. Busy' = Busy \ {w}
      BY <1>3, <2>2, <2>3 DEF Busy
    <3>2. Cardinality(Busy \ {w}) = Cardinality(Busy) - 1
      BY <1>2, BusyIsFinite, FS_RemoveElement
    <3> QED BY <3>1, <3>2, <2>1, <1>2, <1>5 DEF PoolInv
  <2> QED BY <1>1, <1>3, <2>3, <2>4, <2>5, <2>6, <2>7, <2>8, BatcherInv DEF IInv, ShapeInv
<1>6. CASE queue # <<>>
  <2> DEFINE J == <<SubSeq(queue, 1, Taken)>>
             X == Doing("attempt", J)
  <2>1. /\ workers' = workers /\ run' = [run EXCEPT ![w] = X]
        /\ queue' = SubSeq(queue, Taken + 1, Len(queue))
    BY <1>6 DEF Dequeue
  <2>2. Taken \in 1 .. Len(queue)
    <3>1. Len(queue) \in Nat \ {0}
      BY <1>2, <1>6, EmptySeq
    <3> QED BY <3>1, ProduceBounds DEF Taken
  <2>3. /\ GoodJob(J) /\ queue' \in Seq(Op) /\ Once(queue')
        /\ \A o : /\ In(J, o) => Queued(o)
                  /\ o \in ToSet(queue') <=> Queued(o) /\ ~In(J, o)
    BY <1>2, <2>1, <2>2, TakeJob DEF Queued
  <2>4. J # <<>>
    OBVIOUS
  <2> HIDE DEF J
  <2>5. X \in RunRecord /\ X.pc = "attempt" /\ X.job = J
    <3>1. J \in Jobs /\ "attempt" \in Where
      BY <2>3 DEF GoodJob, Jobs, Where, Active
    <3> QED BY <3>1, DoingRecord
  <2> HIDE DEF X
  <2>6. /\ run' \in [Runner -> RunRecord] /\ run'[w] = X
        /\ \A r \in Runner \ {w} : run'[r] = run[r]
    BY <2>1, <2>5, <1>2, <1>3
  <2>7. ProduceType'
    BY <1>1, <2>3, <2>6 DEF IInv, ShapeInv, ProduceType
  <2>8. WorkerInv'
    BY <1>3, <2>3, <2>4, <2>5, <2>6 DEF IInv, ShapeInv, WorkerInv, Active
  <2>9. HealInv'
    BY <2>5, <2>6 DEF IInv, ShapeInv, HealInv, Batch
  <2>10. PlaceInv'
    <3> SUFFICES ASSUME NEW o \in Op
                 PROVE  /\ caller'[o] = "idle" => resp'[o] = "none"
                        /\ Pending(o)' <=> Queued(o)' \/ \E v \in Worker : Has(v, o)'
                        /\ \A v \in Worker : Has(v, o)' => ~Queued(o)'
                        /\ \A u, v \in Worker : Has(u, o)' /\ Has(v, o)' => u = v
      BY <2>3 DEF PlaceInv
    <3>1. /\ caller[o] = "idle" => resp[o] = "none"
          /\ Pending(o) <=> Queued(o) \/ \E v \in Worker : Has(v, o)
          /\ \A v \in Worker : Has(v, o) => ~Queued(o)
          /\ \A u, v \in Worker : Has(u, o) /\ Has(v, o) => u = v
      BY <1>2 DEF PlaceInv
    <3>2. /\ Has(w, o)' <=> In(J, o)
          /\ \A v \in Worker \ {w} : Has(v, o)' <=> Has(v, o)
          /\ ~Has(w, o)
      BY <1>3, <1>4, <2>5, <2>6 DEF Has
    <3>3. (Queued(o)' <=> Queued(o) /\ ~In(J, o)) /\ (In(J, o) => Queued(o))
      <4>1. Queued(o)' <=> o \in ToSet(queue')
        BY DEF Queued
      <4>2. (In(J, o) => Queued(o)) /\ (o \in ToSet(queue') <=> Queued(o) /\ ~In(J, o))
        BY <2>3
      <4> QED BY <4>1, <4>2
    <3>4. Pending(o)' <=> Pending(o)
      BY <1>1 DEF Pending
    <3> QED BY <1>1, <3>1, <3>2, <3>3, <3>4
  <2>11. PoolInv'
    <3>1. \A v \in Worker : run'[v].pc # "off" <=> run[v].pc # "off"
      <4> TAKE v \in Worker
      <4>1. CASE v = w
        BY <4>1, <1>1, <2>5, <2>6
      <4>2. CASE v # w
        BY <4>2, <1>3, <2>6
      <4> QED BY <4>1, <4>2
    <3>2. Busy' = Busy
      BY <3>1 DEF Busy
    <3> QED BY <3>2, <2>1, <1>2 DEF PoolInv
  <2> QED BY <1>1, <1>3, <2>6, <2>7, <2>8, <2>9, <2>10, <2>11, BatcherInv DEF IInv, ShapeInv
<1> QED BY <1>5, <1>6

\* A call that starts, or a transaction between its statements, moves by itself.
LEMMA CallerRunInv ==
    ASSUME IInv, NEW r \in KeyedCall \cup Tx, NEW X \in RunRecord,
           run' = [run EXCEPT ![r] = X], X.pc \notin {"heal", "create"},
           r \in KeyedCall => run[r].pc = "off" /\ X.pc = "attempt" /\ OneKey(X.job),
           r \in Tx => \/ X.pc = "attempt" /\ OneKey(X.job)
                       \/ X.pc = "done",
           UNCHANGED <<kind, queue, workers, caller, resp, seq, healFailures>>,
           KeyInv', \A k \in MessageKey : log[k] = 1 => log'[k] = 1
    PROVE  IInv' /\ AnswersKept
PROOF
<1>1. /\ r \in Runner /\ r \notin Worker /\ Worker \subseteq Runner /\ KeyedCall \subseteq Runner
      /\ Tx \subseteq Runner /\ run \in [Runner -> RunRecord] /\ KeyedCall \cap Tx = {}
  BY ProduceBounds DEF Runner, IInv, ShapeInv, ProduceType
<1>2. /\ run' \in [Runner -> RunRecord] /\ run'[r] = X
      /\ \A s \in Runner \ {r} : run'[s] = run[s]
      /\ \A w \in Worker : run'[w] = run[w]
  BY <1>1
<1>3. ProduceType'
  BY <1>2 DEF IInv, ShapeInv, ProduceType
<1>4. WorkerInv'
  BY <1>2 DEF IInv, ShapeInv, WorkerInv
<1>5. CallInv'
  <2> SUFFICES ASSUME NEW c \in KeyedCall
               PROVE  /\ run'[c].pc \in Active \cup {"off", "done"}
                      /\ run'[c].pc # "off" => OneKey(run'[c].job)
                      /\ resp'[c] = "none" <=> run'[c].pc # "done"
    BY DEF CallInv
  <2>1. /\ run[c].pc \in Active \cup {"off", "done"}
        /\ run[c].pc # "off" => OneKey(run[c].job)
        /\ resp[c] = "none" <=> run[c].pc # "done"
    BY DEF IInv, ShapeInv, CallInv
  <2>2. CASE c = r
    BY <2>1, <2>2, <1>2 DEF Active
  <2>3. CASE c # r
    BY <2>1, <2>3, <1>1, <1>2
  <2> QED BY <2>2, <2>3
<1>6. TxInv'
  <2> SUFFICES ASSUME NEW t \in Tx
               PROVE  /\ run'[t].pc \in Active \cup {"off", "open", "done"}
                      /\ run'[t].pc \in Active => OneKey(run'[t].job)
    BY DEF TxInv
  <2>1. CASE t = r
    <3>1. run'[t] = X /\ ((X.pc = "attempt" /\ OneKey(X.job)) \/ X.pc = "done")
      BY <2>1, <1>2
    <3> QED BY <3>1 DEF Active
  <2>2. CASE t # r
    BY <2>2, <1>1, <1>2 DEF IInv, ShapeInv, TxInv
  <2> QED BY <2>1, <2>2
<1>7. HealInv'
  BY <1>2 DEF IInv, ShapeInv, HealInv, Batch
<1>8. PlaceInv'
  <2>1. \A p \in Op : \A w \in Worker : Has(w, p)' <=> Has(w, p)
    BY <1>2 DEF Has
  <2>2. \A p \in Op : (Queued(p)' <=> Queued(p)) /\ (Pending(p)' <=> Pending(p))
    BY DEF Queued, Pending
  <2>3. PlaceInv /\ Once(queue)' /\ \A p \in Op : caller'[p] = "idle" => resp'[p] = "none"
    BY DEF IInv, PlaceInv
  <2> QED BY <2>1, <2>2, <2>3, PlaceSame
<1>9. PoolInv'
  BY <1>2 DEF IInv, PoolInv, Busy
<1>10. AnswersKept /\ Honest
  BY DEF AnswersKept, Honest
<1>11. \A c \in KeyedCall : run'[c].job = run[c].job \/ resp'[c] = "none"
  <2> SUFFICES ASSUME NEW c \in KeyedCall, c = r PROVE resp'[c] = "none"
    BY <1>1, <1>2
  <2> QED BY DEF IInv, ShapeInv, CallInv
<1>12. OutcomeInv'
  <2>1. ShapeInv /\ OutcomeInv
    BY DEF IInv, OutcomeInv
  <2> QED BY <2>1, <1>10, <1>11, HonestInv
<1> QED BY <1>3, <1>4, <1>5, <1>6, <1>7, <1>8, <1>9, <1>10, <1>12 DEF IInv, ShapeInv, OutcomeInv

\* A keyed Produce, or a ProduceInTx, begins.
LEMMA NewCallInv ==
    ASSUME IInv, NEW r \in KeyedCall \cup Tx, NEW k \in Key,
           \/ r \in KeyedCall /\ ProduceKeyed(r, k)
           \/ r \in Tx /\ ProduceInTx(r, k)
    PROVE  IInv' /\ AnswersKept
PROOF
<1> DEFINE X == Doing("attempt", << <<k>> >>)
<1>1. /\ run' = [run EXCEPT ![r] = X]
      /\ r \in KeyedCall => run[r].pc = "off"
      /\ UNCHANGED <<kind, queue, workers, caller, resp, kept, log, claims, seq, healFailures>>
  <2>1. KeyedCall \cap Tx = {}
    BY ProduceBounds
  <2> QED BY <2>1 DEF ProduceKeyed, ProduceInTx, callVars, txVars, logVars, boundVars
<1>2. X \in RunRecord /\ X.pc = "attempt" /\ X.job = << <<k>> >>
  <2>1. << <<k>> >> \in Jobs /\ "attempt" \in Where
    BY DEF Jobs, Where, Active
  <2> QED BY <2>1, DoingRecord
<1> HIDE DEF X
<1>3. OneKey(X.job)
  BY <1>2 DEF OneKey
<1>4. KeyInv' /\ \A j \in MessageKey : log[j] = 1 => log'[j] = 1
  BY <1>1 DEF IInv, KeyInv
<1> QED BY <1>1, <1>2, <1>3, <1>4, CallerRunInv

\* The caller's transaction commits its keys, or rolls them back.
LEMMA EndTxInv ==
    ASSUME IInv, NEW t \in Tx, EndTx(t)
    PROVE  IInv' /\ AnswersKept
PROOF
<1> DEFINE X == Doing("done", <<>>)
<1>1. /\ run' = [run EXCEPT ![t] = X] /\ kept' = [kept EXCEPT ![t] = {}]
      /\ UNCHANGED <<kind, queue, workers, caller, resp, seq, healFailures>>
  BY DEF EndTx, callVars, boundVars
<1>2. X \in RunRecord /\ X.pc = "done"
  <2>1. <<>> \in Jobs /\ "done" \in Where
    BY DEF Jobs, Where
  <2> QED BY <2>1, DoingRecord
<1> HIDE DEF X
<1>3. t \notin KeyedCall
  BY ProduceBounds
<1>4. /\ log \in [MessageKey -> {0, 1}] /\ DOMAIN kept = Tx
      /\ \A k \in MessageKey : log[k] = 1 <=> k \in claims
      /\ \A u \in Tx : kept[u] \cap claims = {}
      /\ \A u, v \in Tx : u # v => kept[u] \cap kept[v] = {}
  BY DEF IInv, KeyInv
<1>5. /\ DOMAIN kept' = Tx /\ kept'[t] = {}
      /\ \A u \in Tx \ {t} : kept'[u] = kept[u]
  BY <1>1, <1>4
<1>6. \A u, v \in Tx : u # v => kept'[u] \cap kept'[v] = {}
  BY <1>4, <1>5
<1>7. KeyInv' /\ \A k \in MessageKey : log[k] = 1 => log'[k] = 1
  <2>1. CASE UNCHANGED <<log, claims>>
    BY <2>1, <1>4, <1>5, <1>6 DEF KeyInv
  <2>2. CASE /\ log' = [k \in MessageKey |-> log[k] + IF k \in kept[t] THEN 1 ELSE 0]
             /\ claims' = claims \cup kept[t]
    <3>1. \A k \in MessageKey : log'[k] = log[k] + IF k \in kept[t] THEN 1 ELSE 0
      BY <2>2
    <3>2. \A k \in MessageKey : k \in kept[t] => log[k] = 0
      BY <1>4
    <3>3. \A k \in MessageKey :
            /\ log'[k] \in {0, 1}
            /\ log'[k] = 1 <=> k \in claims'
            /\ log[k] = 1 => log'[k] = 1
      <4> TAKE k \in MessageKey
      <4>1. log[k] \in {0, 1} /\ (log[k] = 1 <=> k \in claims)
        BY <1>4
      <4>2. CASE k \in kept[t]
        BY <4>1, <4>2, <3>1, <3>2, <2>2
      <4>3. CASE k \notin kept[t]
        BY <4>1, <4>3, <3>1, <2>2
      <4> QED BY <4>2, <4>3
    <3>4. log' \in [MessageKey -> {0, 1}]
      <4>1. log' = [k \in MessageKey |-> log'[k]]
        BY <2>2
      <4> QED BY <4>1, <3>3
    <3>5. \A u \in Tx : kept'[u] \cap claims' = {}
      BY <1>4, <1>5, <2>2
    <3> QED BY <3>3, <3>4, <3>5, <1>5, <1>6 DEF KeyInv
  <2> QED BY <2>1, <2>2 DEF EndTx
<1> QED BY <1>1, <1>2, <1>3, <1>7, CallerRunInv

\* The savepoint keeps the keys of the statement; nothing is committed.
LEMMA InsertInTxInv ==
    ASSUME IInv, NEW t \in Tx, InsertInTx(t)
    PROVE  IInv' /\ AnswersKept
PROOF
<1>1. /\ ShapeInv /\ run[t].pc \in Active /\ KeysFree(t) /\ t \in Runner
      /\ t \notin Worker /\ t \notin KeyedCall
  BY ProduceBounds DEF IInv, InsertInTx, CanCommit, Attempting, Active, Runner
<1>2. /\ UNCHANGED <<kind, queue, workers, caller, resp, log, claims, healFailures>>
      /\ kept' = [kept EXCEPT ![t] = @ \cup {Batch(t)[i] : i \in Fresh(t)}]
      /\ seq' = seq + Cardinality(Fresh(t))
  BY DEF InsertInTx, callVars, boundVars, DrawAll
<1>3. seq' \in Nat
  BY <1>1, <1>2, Draws
<1>4. Moves(t)
  <2>1. Tail(run[t].job) = <<>>
    BY <1>1, BatchShape
  <2>2. run' = [run EXCEPT ![t] = AfterBatch(t, <<>>)]
    BY <2>1 DEF InsertInTx, Resolved
  <2>3. resp' \in [Op \cup KeyedCall -> Outcomes]
    BY <1>1, <1>2 DEF ShapeInv, ProduceType
  <2> QED BY <1>1, <1>2, <2>2, <2>3, AfterMove
<1>5. Honest
  BY <1>2 DEF Honest
<1>6. KeyInv'
  <2> DEFINE new == {Batch(t)[i] : i \in Fresh(t)}
  <2>1. /\ DOMAIN kept = Tx
        /\ \A u \in Tx : kept[u] \cap claims = {}
        /\ \A u, v \in Tx : u # v => kept[u] \cap kept[v] = {}
    BY DEF IInv, KeyInv
  <2>2. \A k \in new : k \notin claims /\ k \in ToSet(Batch(t))
    BY DEF Fresh, IsDuplicate, ToSet
  <2>3. \A u \in Tx \ {t} : kept[u] \cap new = {}
    BY <2>2, <1>1 DEF KeysFree
  <2> HIDE DEF new
  <2>4. /\ DOMAIN kept' = Tx /\ kept'[t] = kept[t] \cup new
        /\ \A u \in Tx \ {t} : kept'[u] = kept[u]
    BY <1>2, <2>1 DEF new
  <2>5. \A u \in Tx : kept'[u] \cap claims = {}
    BY <2>1, <2>2, <2>4
  <2>6. \A u, v \in Tx : u # v => kept'[u] \cap kept'[v] = {}
    <3> SUFFICES ASSUME NEW u \in Tx, NEW v \in Tx, u # v PROVE kept'[u] \cap kept'[v] = {}
      OBVIOUS
    <3>1. CASE u = t
      BY <3>1, <2>1, <2>3, <2>4
    <3>2. CASE v = t
      BY <3>2, <2>1, <2>3, <2>4
    <3>3. CASE u # t /\ v # t
      BY <3>3, <2>1, <2>4
    <3> QED BY <3>1, <3>2, <3>3
  <2> QED BY <1>2, <2>4, <2>5, <2>6 DEF IInv, KeyInv
<1>7. \A k \in MessageKey : log[k] = 1 => log'[k] = 1
  BY <1>2
<1> QED BY <1>1, <1>2, <1>3, <1>4, <1>5, <1>6, <1>7, RunnerInv

-----------------------------------------------------------------------------
\* Nothing is queued, running or committed at first.
LEMMA InitInv == Init => IInv
PROOF
<1> SUFFICES ASSUME Init PROVE IInv
  OBVIOUS
<1>1. <<>> \in Jobs /\ "off" \in Where
  BY DEF Jobs, Where
<1>2. Doing("off", <<>>) \in RunRecord /\ Doing("off", <<>>).pc = "off" /\ Doing("off", <<>>).job = <<>>
  BY <1>1, DoingRecord
<1>3. run \in [Runner -> RunRecord] /\ \A r \in Runner : run[r].pc = "off" /\ run[r].job = <<>>
  BY <1>2 DEF Init
<1>4. Worker \subseteq Runner /\ KeyedCall \subseteq Runner /\ Tx \subseteq Runner
  BY DEF Runner
<1>5. ProduceType
  BY <1>3, ProduceBounds DEF Init, ProduceType, Outcomes
<1>6. WorkerInv
  BY <1>3, <1>4, NoJob DEF WorkerInv, Active
<1>7. CallInv /\ TxInv /\ HealInv
  BY <1>3, <1>4 DEF Init, CallInv, TxInv, HealInv, Active
<1>8. PlaceInv
  <2>1. Once(queue) /\ \A o \in Op : ~Queued(o)
    BY DEF Init, Once, Queued, ToSet
  <2>2. \A o \in Op : \A w \in Worker : ~Has(w, o)
    BY <1>3, <1>4, NoJob DEF Has
  <2>3. \A o \in Op : caller[o] = "idle" /\ resp[o] = "none"
    BY DEF Init
  <2> QED BY <2>1, <2>2, <2>3 DEF PlaceInv, Pending
<1>9. PoolInv
  <2>1. Busy = {}
    BY <1>3, <1>4 DEF Busy
  <2> QED BY <2>1, FS_EmptySet DEF Init, PoolInv
<1>10. KeyInv
  BY DEF Init, KeyInv
<1>11. SuccessIsDurable /\ PoisonIsolated
  BY DEF Init, SuccessIsDurable, PoisonIsolated, Succeeded
<1> QED BY <1>5, <1>6, <1>7, <1>8, <1>9, <1>10, <1>11 DEF IInv, ShapeInv

\* Every step keeps the invariant, and every answer given.
LEMMA StepInv ==
    ASSUME IInv, [Next]_vars
    PROVE  IInv' /\ AnswersKept
PROOF
<1>1. CASE CallerStep
  <2>1. CASE \E o \in Op : Enqueue(o) \/ StartWorker(o) \/ Abandon(o)
    BY <2>1, EnqueueInv, StartWorkerInv, AbandonInv
  <2>2. CASE \E c \in KeyedCall, k \in Key : ProduceKeyed(c, k)
    BY <2>2, NewCallInv
  <2>3. CASE \E t \in Tx : EndTx(t) \/ InsertInTx(t) \/ \E k \in Key : ProduceInTx(t, k)
    BY <2>3, EndTxInv, InsertInTxInv, NewCallInv
  <2> QED BY <1>1, <2>1, <2>2, <2>3 DEF CallerStep
<1>2. CASE \E w \in Worker : Dequeue(w)
  BY <1>2, DequeueInv
<1>3. CASE \E r \in Runner : RunnerStep(r)
  BY <1>3, RunnerStepInv
<1>4. CASE BackgroundStep \/ Done \/ UNCHANGED vars
  <2>1. UNCHANGED <<kind, queue, workers, caller, resp, run, kept, log, claims, seq, healFailures>>
    BY <1>4 DEF BackgroundStep, CreatePartitionAhead, DropCreateAhead, Done, vars, callVars,
                txVars, logVars, boundVars
  <2> QED BY <2>1, SameInv
<1> QED BY <1>1, <1>2, <1>3, <1>4 DEF Next

\* Every reachable state of the produce path satisfies the inductive invariant: each
\* runner is where its job says, each pending operation in one place, the worker
\* count right, keys and rows in step, and every recorded outcome true.
THEOREM Invariant == Spec => []IInv
PROOF BY InitInv, StepInv, PTL DEF Spec

\* For any calls, keys and faults, one idempotency key puts at most one row into the
\* log: lost commits, retries, keyed calls and open transactions included.
THEOREM LandsOnce == Spec => []KeyLandsOnce
PROOF
<1>1. IInv => KeyLandsOnce
  BY DEF IInv, KeyInv, KeyLandsOnce
<1> QED BY <1>1, Invariant, PTL

\* A Produce that was told appended or duplicate has its row in the log: resolveBatch
\* records a success only for an attempt that committed.
THEOREM Durable == Spec => []SuccessIsDurable
PROOF
<1>1. IInv => SuccessIsDurable
  BY DEF IInv
<1> QED BY <1>1, Invariant, PTL

\* The batch rulebook isolates poison: an operation is evicted, or told it cannot be
\* encoded, for its own payload, unless a heal of a missing partition has failed.
THEOREM Isolated == Spec => []PoisonIsolated
PROOF
<1>1. IInv => PoisonIsolated
  BY DEF IInv
<1> QED BY <1>1, Invariant, PTL

\* No operation is stranded between enqueue, needsWorker and the dequeue that ends a
\* worker: it is in a worker's hands, or queued with a worker or a starter at hand.
THEOREM NotStranded == Spec => []NoWorkStranded
PROOF
<1>1. IInv => NoWorkStranded
  <2> SUFFICES ASSUME IInv, NEW o \in Op, caller[o] # "idle", resp[o] = "none"
               PROVE  \/ \E w \in Worker : \E i \in DOMAIN run[w].job : o \in ToSet(run[w].job[i])
                      \/ /\ o \in ToSet(queue)
                         /\ \/ \E w \in Worker : run[w].pc # "off"
                            \/ \E p \in Op : caller[p] = "enqueued"
    BY DEF NoWorkStranded
  <2>1. Queued(o) \/ \E w \in Worker : Has(w, o)
    BY DEF IInv, PlaceInv, Pending
  <2>2. Queued(o) => queue # <<>>
    BY DEF Queued, ToSet
  <2>3. queue # <<>> => Busy # {} \/ \E p \in Op : caller[p] = "enqueued"
    BY DEF IInv, PoolInv
  <2> QED BY <2>1, <2>2, <2>3 DEF Queued, Has, In, Busy
<1> QED BY <1>1, Invariant, PTL

\* batchResponse.record runs once per operation: no step changes an outcome that was
\* recorded, so the done channel is never closed twice.
THEOREM OneAnswer == Spec => AnsweredOnce
PROOF
<1>1. IInv /\ [Next]_vars =>
        [\A c \in Op \cup KeyedCall : resp[c] # "none" => resp'[c] = resp[c]]_vars
  BY StepInv DEF AnswersKept
<1> QED BY <1>1, Invariant, PTL DEF Spec, AnsweredOnce
=============================================================================
