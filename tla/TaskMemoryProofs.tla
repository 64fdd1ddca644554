-------------------------- MODULE TaskMemoryProofs --------------------------
(***************************************************************************)
(* The containers of tasks, for any set of u8 priorities, any capacity and *)
(* any number of pushes.  The bucket queue's bitmap and length never drift *)
(* from its buckets, and it implements PriorityFifo.  The payload cache    *)
(* stays within its bounds, and implements FifoCache.                      *)
(***************************************************************************)
EXTENDS TaskMemory, OperatorProofs

\* Every leaf is tried with Zenon first and, if that fails, with the SMT solver.
USE ZenonT(10), SMTT(30)

\* Facts of the extended modules that no proof below needs.
HIDE DEF NatInduction, DownwardNatInduction, GeneralNatInduction,
         SmallestNatural, RecursiveFcnOfNat, NatInductiveDef,
         RecursiveFcnOfNatType, NatInductiveDefType,
         RecursiveFcnOfNatUnique, NatInductiveUnique, FiniteNatInductiveDef,
         FiniteNatInductiveDefType, FiniteNatInductiveUnique,
         EmptyIsWellFounded, IsWellFoundedOnSubset,
         IsWellFoundedOnSubrelation, WFMin, MinWF, WellFoundedIsIrreflexive,
         WellFoundedIsAsymmetric, WFSetLessThanIrreflexive,
         SetLessTransitive, WFInduction, WFDefOnUnique, WFInductiveDefLemma,
         TransitiveClosureThm, TransitiveClosureMinimal, TCTCTC, TCRTC,
         RTCTC, TransitiveClosureChopLast, TransitiveClosureWF,
         WFInductiveDef, WFInductiveDefType, NatLessThanWellFounded,
         PreImageWellFounded, WFLexPairOrdering, WFLexProductOrdering,
         FS_NatSurjection, FS_NatBijection, FS_SurjCardinalityBound,
         FS_SameCardinalityBij, FS_SurjSameCardinalityImpliesInj,
         FS_Surjection, FS_Image, FS_PigeonHole, FS_Singleton,
         FS_BoundedSetOfNaturals, FS_Induction, FS_FiniteSubsetsOfFinite,
         FS_StrictSubsetOrderingWellFounded, FS_WFInduction, FS_Union,
         FS_MajoritiesIntersect, FS_Intersection, FS_Difference, FS_UNION,
         FS_Product, FS_SUBSET, SetExtensionality, NoSetContainsEverything,
         BitMax, WordBitUnique, AppendIs, PushBuckets, PopBuckets,
         CountedEmpty, CountedPush, CountedPop, LocOrder, MaximalExists,
         ImageFinite, SurvivorsOK, OffsetsOK, PutHolds, CacheInsertHolds,
         StripOK, TipsFrame, HeadUnique, HeadExists, TipUnique, TipIsLast,
         CompactedTips, LocBySegment, InOrderKept, InOrderPush, InOrderPop,
         PopTakes, EmptyHasNone, LocType, LastOK, SegmentCount, IdsFinite,
         CompactedOK, SubsetUnique, WithoutSegment, CutSegment,
         ReplaceSegment, LargestExists, EarliestExists, TipsAppend,
         TipsRename, TipsUnlink

-----------------------------------------------------------------------------
(* The queue.                                                              *)

\* The inductive invariant.  BitmapExact alone is inductive with TypeOK;
\* LenCounts needs BucketsSorted (a pop takes one task out, not several equal
\* ones) and the finiteness of the queue.
IInv == /\ TypeOK
        /\ BitmapExact
        /\ BucketsSorted
        /\ IsFiniteSet(Queued(queue))
        /\ LenCounts

\* pop takes out the task it returns and nothing else, in a queue that holds no
\* task twice.
LEMMA QueuedPop ==
  ASSUME NEW q \in Queue, BitmapMatches(q), HasTask(q),
         \A p \in Priorities :
           /\ \A i \in DOMAIN q.buckets[p] : q.buckets[p][i].priority = p
           /\ \A i, j \in DOMAIN q.buckets[p] :
                i < j => q.buckets[p][i].id < q.buckets[p][j].id
  PROVE  /\ QueueFront(q) \in Queued(q)
         /\ Queued(QueuePop(q)) = Queued(q) \ {QueueFront(q)}
         /\ QueueFront(q).priority = TopPriority(q)
<1> DEFINE P == TopPriority(q)
           r == QueuePop(q)
           t == QueueFront(q)
           s == q.buckets[P]
<1>1. P \in Priorities /\ s \in Seq(TaskRef) /\ s # <<>>
  BY TopOK DEF Queue
<1>2. r.buckets[P] = Tail(s) /\ \A p \in Priorities \ {P} : r.buckets[p] = q.buckets[p]
  BY <1>1 DEF QueuePop, Queue
<1>3. /\ Len(s) \in Nat /\ Len(s) >= 1
      /\ DOMAIN s = 1..Len(s) /\ DOMAIN r.buckets[P] = 1..(Len(s) - 1)
      /\ t = s[1]
      /\ \A i \in 1..(Len(s) - 1) : r.buckets[P][i] = s[i + 1]
  <2>1. t = Head(s)
    BY DEF QueueFront
  <2> HIDE DEF s, t
  <2> QED
    BY ZenonT(30), <1>1, <1>2, <2>1, TailElements
<1>4. 1 \in DOMAIN s
  BY SMTT(30), <1>3
<1>5. t \in Queued(q) /\ t.priority = P
  BY SMTT(30), <1>1, <1>3, <1>4, QueuedDef
<1>6. \A p \in Priorities : \A i \in DOMAIN q.buckets[p] : q.buckets[p][i].id \in Nat
  <2>1. \A p \in Priorities : q.buckets[p] \in Seq(TaskRef)
    BY Zenon DEF Queue
  <2>2. \A p \in Priorities : \A i \in DOMAIN q.buckets[p] : q.buckets[p][i] \in TaskRef
    BY SMTT(30), <2>1
  <2> QED
    BY <2>2 DEF TaskRef
<1>7. ASSUME NEW i \in DOMAIN s, i # 1 PROVE s[i] # t
  <2>1. 1 < i
    BY SMTT(30), <1>7, <1>3
  <2>2. s[1].id < s[i].id /\ s[1].id \in Nat /\ s[i].id \in Nat
    BY <2>1, <1>1, <1>4, <1>6
  <2> QED
    BY SMTT(30), <2>2, <1>3
<1>8. ASSUME NEW x \in Queued(r) PROVE x \in Queued(q) /\ x # t
  <2>1. PICK p \in Priorities : \E i \in DOMAIN r.buckets[p] : x = r.buckets[p][i]
    BY SMTT(30), <1>8, QueuedDef
  <2>2. PICK i \in DOMAIN r.buckets[p] : x = r.buckets[p][i]
    BY <2>1
  <2>3. CASE p # P
    <3>1. i \in DOMAIN q.buckets[p] /\ x = q.buckets[p][i]
      BY <2>2, <2>3, <1>2
    <3> QED
      BY ZenonT(30), <3>1, <2>3, <1>5, QueuedDef
  <2>4. CASE p = P
    <3>1. i + 1 \in DOMAIN s /\ i + 1 # 1 /\ x = s[i + 1]
      BY SMTT(30), <2>2, <2>4, <1>3
    <3> QED
      BY <3>1, <1>1, <1>7, QueuedDef
  <2> QED
    BY <2>3, <2>4
<1>9. ASSUME NEW x \in Queued(q), x # t PROVE x \in Queued(r)
  <2>1. PICK p \in Priorities : \E i \in DOMAIN q.buckets[p] : x = q.buckets[p][i]
    BY SMTT(30), <1>9, QueuedDef
  <2>2. PICK i \in DOMAIN q.buckets[p] : x = q.buckets[p][i]
    BY <2>1
  <2>3. CASE p # P
    BY <2>2, <2>3, <1>2, QueuedDef
  <2>4. CASE p = P
    <3>1. i - 1 \in DOMAIN r.buckets[P] /\ x = r.buckets[P][i - 1]
      BY SMTT(30), <2>2, <2>4, <1>3, <1>9
    <3> QED
      BY <3>1, <2>4, QueuedDef
  <2> QED
    BY <2>3, <2>4
<1> QED
  BY <1>5, <1>8, <1>9

-----------------------------------------------------------------------------
\* The task a push adds.
NewTask(p) == [id |-> pushes, priority |-> p, retries |-> 0]

\* A new queue.
LEMMA InitInv == Init => IInv
<1> SUFFICES ASSUME Init PROVE IInv
  OBVIOUS
<1>1. TypeOK /\ BitmapExact
  BY EmptyQueueOK DEF Init, TypeOK, BitmapExact
<1>2. \A p \in Priorities : queue.buckets[p] = <<>>
  BY Zenon DEF Init, EmptyQueue
<1>3. BucketsSorted
  <2>1. \A p \in Priorities : DOMAIN queue.buckets[p] = {}
    <3>1. DOMAIN <<>> = {}
      OBVIOUS
    <3> QED
      BY <1>2, <3>1, Zenon
  <2> QED
    BY Zenon, <2>1 DEF BucketsSorted
<1>4. Queued(queue) = {}
  BY <1>2 DEF Queued
<1>5. IsFiniteSet(Queued(queue)) /\ Cardinality(Queued(queue)) = 0
  BY <1>4, FS_EmptySet
<1>6. queue.len = 0
  BY DEF Init, EmptyQueue
<1> QED
  BY <1>1, <1>3, <1>5, <1>6 DEF IInv, LenCounts

\* Every queued task was pushed before: its id is below the counter.
LEMMA QueuedOld ==
  ASSUME TypeOK, BucketsSorted, NEW t \in Queued(queue)
  PROVE  /\ t \in TaskRef /\ t.id < pushes
         /\ t.priority \in Priorities /\ queue.buckets[t.priority] # <<>>
<1>1. PICK p \in Priorities : \E i \in DOMAIN queue.buckets[p] : t = queue.buckets[p][i]
  BY SMTT(30), QueuedDef
<1>2. PICK i \in DOMAIN queue.buckets[p] : t = queue.buckets[p][i]
  BY <1>1
<1>3. queue.buckets[p] \in Seq(TaskRef)
  BY DEF TypeOK, Queue
<1>4. t \in TaskRef /\ queue.buckets[p] # <<>>
  BY <1>2, <1>3
<1>5. t.id < pushes /\ t.priority = p
  BY <1>2 DEF BucketsSorted
<1> QED
  BY <1>4, <1>5

\* push
LEMMA PushStep ==
  ASSUME IInv, NEW p \in Priorities, Push(p)
  PROVE  IInv' /\ Queued(queue)' = Queued(queue) \cup {NewTask(p)}
<1> DEFINE t == NewTask(p)
<1>1. t \in TaskRef /\ pushes \in Nat /\ queue \in Queue /\ t.priority = p /\ t.id = pushes
  BY DEF IInv, TypeOK, TaskRef, NewTask
<1>2. queue' = QueuePush(queue, t) /\ pushes' = pushes + 1 /\ popped' = popped
  BY DEF Push, NewTask
<1> HIDE DEF t
<1>3. TypeOK' /\ BitmapExact'
  <2>1. queue' \in Queue /\ BitmapMatches(queue')
    BY <1>1, <1>2, PushOK DEF IInv, BitmapExact
  <2> QED
    BY <2>1, <1>1, <1>2 DEF IInv, TypeOK, BitmapExact
<1>4. BucketsSorted'
  <2>1. queue.buckets[p] \in Seq(TaskRef)
    BY <1>1 DEF Queue
  <2>2. queue'.buckets[p] = Append(queue.buckets[p], t)
        /\ \A o \in Priorities \ {p} : queue'.buckets[o] = queue.buckets[o]
    BY <1>1, <1>2 DEF QueuePush, Queue
  <2> DEFINE n == Len(queue.buckets[p])
  <2>3. /\ DOMAIN queue'.buckets[p] = 1..(n + 1)
        /\ DOMAIN queue.buckets[p] = 1..n /\ n \in Nat
        /\ \A i \in 1..n : queue'.buckets[p][i] = queue.buckets[p][i]
        /\ queue'.buckets[p][n + 1] = t
    BY SMTT(30), <2>1, <2>2, <1>1, AppendElements
  <2> HIDE DEF n
  <2>4. \A o \in Priorities : \A i \in DOMAIN queue.buckets[o] :
          queue.buckets[o][i] \in TaskRef /\ queue.buckets[o][i].id \in Nat
    <3>1. \A o \in Priorities : queue.buckets[o] \in Seq(TaskRef)
      BY <1>1 DEF Queue
    <3>2. \A o \in Priorities : \A i \in DOMAIN queue.buckets[o] : queue.buckets[o][i] \in TaskRef
      BY <3>1
    <3> QED
      BY <3>2 DEF TaskRef
  <2>5. \A o \in Priorities : \A i \in DOMAIN queue'.buckets[o] :
          queue'.buckets[o][i].priority = o /\ queue'.buckets[o][i].id < pushes + 1
    <3> SUFFICES ASSUME NEW o \in Priorities, NEW i \in DOMAIN queue'.buckets[o]
                 PROVE  queue'.buckets[o][i].priority = o /\ queue'.buckets[o][i].id < pushes + 1
      OBVIOUS
    <3>1. CASE o = p /\ i = n + 1
      BY <3>1, <2>3, <1>1
    <3>2. CASE ~(o = p /\ i = n + 1)
      <4>1. i \in DOMAIN queue.buckets[o] /\ queue'.buckets[o][i] = queue.buckets[o][i]
        BY SMTT(30), <3>2, <2>2, <2>3
      <4>2. queue.buckets[o][i].priority = o /\ queue.buckets[o][i].id < pushes
        BY <4>1 DEF IInv, BucketsSorted
      <4> QED
        BY <4>1, <4>2, <2>4, <1>1
    <3> QED
      BY <3>1, <3>2
  <2>6. \A o \in Priorities : \A i, j \in DOMAIN queue'.buckets[o] :
          i < j => queue'.buckets[o][i].id < queue'.buckets[o][j].id
    <3> SUFFICES ASSUME NEW o \in Priorities, NEW i \in DOMAIN queue'.buckets[o],
                        NEW j \in DOMAIN queue'.buckets[o], i < j
                 PROVE  queue'.buckets[o][i].id < queue'.buckets[o][j].id
      OBVIOUS
    <3>1. CASE o = p /\ j = n + 1
      <4>1. i \in DOMAIN queue.buckets[p] /\ queue'.buckets[o][i] = queue.buckets[p][i]
        BY <3>1, <2>3
      <4> QED
        BY <4>1, <3>1, <2>3, <1>1 DEF IInv, BucketsSorted
    <3>2. CASE ~(o = p /\ j = n + 1)
      <4>1. /\ i \in DOMAIN queue.buckets[o] /\ queue'.buckets[o][i] = queue.buckets[o][i]
            /\ j \in DOMAIN queue.buckets[o] /\ queue'.buckets[o][j] = queue.buckets[o][j]
        <5>1. CASE o = p
          BY <5>1, <3>2, <2>3
        <5>2. CASE o # p
          BY <5>2, <2>2
        <5> QED
          BY <5>1, <5>2
      <4> QED
        BY <4>1 DEF IInv, BucketsSorted
    <3> QED
      BY <3>1, <3>2
  <2> QED
    BY <2>5, <2>6, <1>2 DEF BucketsSorted
<1>5. Queued(queue') = Queued(queue) \cup {t}
  BY <1>1, <1>2, QueuedPush
<1>6. t \notin Queued(queue)
  BY <1>1, QueuedOld DEF IInv
<1>7. IsFiniteSet(Queued(queue')) /\ Cardinality(Queued(queue')) = Cardinality(Queued(queue)) + 1
  BY <1>5, <1>6, FS_AddElement DEF IInv
<1>8. queue'.len = queue.len + 1
  BY <1>2 DEF QueuePush
<1> QED
  BY <1>3, <1>4, <1>5, <1>7, <1>8 DEF IInv, LenCounts, t

\* pop
LEMMA PopStep ==
  ASSUME IInv, Pop
  PROVE  /\ IInv'
         /\ QueueFront(queue) \in Queued(queue)
         /\ Queued(queue)' = Queued(queue) \ {QueueFront(queue)}
         /\ \A u \in Queued(queue) : Fifo!Before(QueueFront(queue), u)
<1> DEFINE P == TopPriority(queue)
           t == QueueFront(queue)
           s == queue.buckets[P]
<1>1. queue \in Queue /\ BitmapMatches(queue) /\ HasTask(queue) /\ pushes \in Nat
  BY DEF IInv, TypeOK, BitmapExact, Pop
<1>2. queue' = QueuePop(queue) /\ popped' = {t} /\ pushes' = pushes
  BY DEF Pop
<1>3. /\ P \in Priorities /\ s # <<>>
      /\ \A p \in Priorities : queue.buckets[p] # <<>> => p <= P
  BY <1>1, TopOK
<1>4. t \in TaskRef /\ queue' \in Queue /\ BitmapMatches(queue')
  BY <1>1, <1>2, PopOK
<1>5. TypeOK' /\ BitmapExact'
  BY <1>1, <1>2, <1>4 DEF TypeOK, BitmapExact
<1>6. t \in Queued(queue) /\ Queued(queue') = Queued(queue) \ {t} /\ t.priority = P
  BY <1>1, <1>2, QueuedPop DEF IInv, BucketsSorted
<1>7. s \in Seq(TaskRef)
  BY <1>1, <1>3 DEF Queue
<1>8. queue'.buckets[P] = Tail(s)
      /\ \A o \in Priorities \ {P} : queue'.buckets[o] = queue.buckets[o]
  BY <1>2, <1>3, <1>1 DEF QueuePop, Queue
<1>9. t = Head(s)
  BY DEF QueueFront
<1> HIDE DEF s, t, P
<1>10. /\ Len(s) \in Nat /\ Len(s) >= 1
       /\ DOMAIN s = 1..Len(s) /\ DOMAIN queue'.buckets[P] = 1..(Len(s) - 1)
       /\ t = s[1]
       /\ \A i \in 1..(Len(s) - 1) : queue'.buckets[P][i] = s[i + 1]
  BY ZenonT(30), <1>3, <1>7, <1>8, <1>9, TailElements
<1> DEFINE r == queue'.buckets[P]
<1>Shift. \A k \in DOMAIN r : k \in Int /\ k + 1 \in DOMAIN s /\ r[k] = s[k + 1]
  <2> HIDE DEF r
  <2> SUFFICES ASSUME NEW k \in DOMAIN r
               PROVE  k \in Int /\ k + 1 \in DOMAIN s /\ r[k] = s[k + 1]
    OBVIOUS
  <2>1. DOMAIN r = 1..(Len(s) - 1) /\ \A i \in 1..(Len(s) - 1) : r[i] = s[i + 1]
    BY <1>10 DEF r
  <2> QED
    BY SMTT(30), <2>1, <1>10
<1>11. BucketsSorted'
  <2>1. \A o \in Priorities : \A i \in DOMAIN queue'.buckets[o] :
          queue'.buckets[o][i].priority = o /\ queue'.buckets[o][i].id < pushes
    <3> SUFFICES ASSUME NEW o \in Priorities, NEW i \in DOMAIN queue'.buckets[o]
                 PROVE  queue'.buckets[o][i].priority = o /\ queue'.buckets[o][i].id < pushes
      OBVIOUS
    <3>1. CASE o = P
      <4>1. i + 1 \in DOMAIN queue.buckets[P] /\ queue'.buckets[o][i] = queue.buckets[P][i + 1]
        BY ZenonT(30), <3>1, <1>Shift DEF s
      <4> QED
        BY <4>1, <3>1 DEF IInv, BucketsSorted
    <3>2. CASE o # P
      BY <3>2, <1>8 DEF IInv, BucketsSorted
    <3> QED
      BY <3>1, <3>2
  <2>2. \A o \in Priorities : \A i, j \in DOMAIN queue'.buckets[o] :
          i < j => queue'.buckets[o][i].id < queue'.buckets[o][j].id
    <3> SUFFICES ASSUME NEW o \in Priorities, NEW i \in DOMAIN queue'.buckets[o],
                        NEW j \in DOMAIN queue'.buckets[o], i < j
                 PROVE  queue'.buckets[o][i].id < queue'.buckets[o][j].id
      OBVIOUS
    <3>1. CASE o = P
      <4>1. /\ i + 1 \in DOMAIN queue.buckets[P] /\ queue'.buckets[o][i] = queue.buckets[P][i + 1]
            /\ j + 1 \in DOMAIN queue.buckets[P] /\ queue'.buckets[o][j] = queue.buckets[P][j + 1]
            /\ i + 1 < j + 1
        <5>1. i \in Int /\ i + 1 \in DOMAIN s /\ queue'.buckets[o][i] = s[i + 1]
          BY ZenonT(30), <3>1, <1>Shift
        <5>2. j \in Int /\ j + 1 \in DOMAIN s /\ queue'.buckets[o][j] = s[j + 1]
          BY ZenonT(30), <3>1, <1>Shift
        <5>3. i + 1 < j + 1
          BY <5>1, <5>2
        <5> QED
          BY ZenonT(30), <5>1, <5>2, <5>3 DEF s
      <4> QED
        BY ZenonT(30), <4>1, <3>1 DEF IInv, BucketsSorted
    <3>2. CASE o # P
      BY <3>2, <1>8 DEF IInv, BucketsSorted
    <3> QED
      BY <3>1, <3>2
  <2> QED
    BY <2>1, <2>2, <1>2 DEF BucketsSorted
<1>12. /\ IsFiniteSet(Queued(queue'))
       /\ Cardinality(Queued(queue')) = Cardinality(Queued(queue)) - 1
  BY <1>6, FS_RemoveElement DEF IInv
<1>13. queue'.len = queue.len - 1
  BY <1>2 DEF QueuePop
<1>14. ASSUME NEW u \in Queued(queue) PROVE Fifo!Before(t, u)
  <2>1. PICK p \in Priorities : \E i \in DOMAIN queue.buckets[p] : u = queue.buckets[p][i]
    BY SMTT(30), QueuedDef
  <2>2. PICK i \in DOMAIN queue.buckets[p] : u = queue.buckets[p][i]
    BY <2>1
  <2>3. u.priority = p /\ queue.buckets[p] # <<>>
    BY <2>2, QueuedOld DEF IInv, BucketsSorted
  <2>4. p <= P /\ p \in Int /\ P \in Int
    <3>1. p <= P
      BY <2>3, <1>3
    <3>2. \A x \in Priorities : x \in Int
      BY PrioritiesAssumption
    <3> QED
      BY <3>1, <3>2, <1>3
  <2>5. CASE p = P
    <3>1. i \in DOMAIN s /\ u = s[i] /\ 1 \in DOMAIN s /\ (i = 1 \/ 1 < i)
      BY <2>2, <2>5, <1>10 DEF s
    <3>2. t.id <= u.id
      <4>1. u.id \in Nat /\ t.id \in Nat
        BY <1>4, QueuedOld DEF IInv, TaskRef
      <4>2. CASE i = 1
        BY <4>1, <4>2, <3>1, <1>10
      <4>3. CASE 1 < i
        BY SMTT(30), <4>1, <4>3, <3>1, <1>10, <1>3 DEF IInv, BucketsSorted, s
      <4> QED
        BY <3>1, <4>2, <4>3
    <3> QED
      BY <3>2, <2>3, <2>5, <1>6 DEF Fifo!Before
  <2>6. CASE p # P
    BY <2>3, <2>4, <2>6, <1>6 DEF Fifo!Before
  <2> QED
    BY <2>5, <2>6
<1> QED
  BY ZenonT(30), <1>5, <1>6, <1>11, <1>12, <1>13, <1>14 DEF IInv, LenCounts, t

\* clear
LEMMA ClearStep ==
  ASSUME IInv, Clear
  PROVE  IInv' /\ Queued(queue)' = {}
<1>1. queue' = EmptyQueue /\ popped' = popped /\ pushes' = pushes
  BY DEF Clear
<1>2. TypeOK' /\ BitmapExact'
  BY <1>1, EmptyQueueOK DEF IInv, TypeOK, BitmapExact
<1>3. \A p \in Priorities : queue'.buckets[p] = <<>>
  BY <1>1 DEF EmptyQueue
<1>4. BucketsSorted'
  <2>1. \A p \in Priorities : DOMAIN queue'.buckets[p] = {}
    BY <1>3
  <2> QED
    BY <2>1 DEF BucketsSorted
<1>5. Queued(queue') = {}
  BY <1>3 DEF Queued
<1>6. IsFiniteSet(Queued(queue')) /\ Cardinality(Queued(queue')) = 0
  BY <1>5, FS_EmptySet
<1>7. queue'.len = 0
  BY <1>1 DEF EmptyQueue
<1> QED
  BY <1>2, <1>4, <1>5, <1>6, <1>7 DEF IInv, LenCounts

\* Every step.
LEMMA InvStep == IInv /\ [Next]_vars => IInv'
<1> SUFFICES ASSUME IInv, [Next]_vars PROVE IInv'
  OBVIOUS
<1>1. ASSUME NEW p \in Priorities, Push(p) PROVE IInv'
  BY <1>1, PushStep
<1>2. CASE Pop
  BY <1>2, PopStep
<1>3. CASE PopNone
  <2>1. queue' = queue /\ pushes' = pushes /\ popped' = {}
    BY <1>3 DEF PopNone
  <2> QED
    BY <2>1 DEF IInv, TypeOK, BitmapExact, BucketsSorted, LenCounts
<1>4. CASE Clear
  BY <1>4, ClearStep
<1>5. CASE UNCHANGED vars
  BY <1>5 DEF vars, IInv, TypeOK, BitmapExact, BucketsSorted, LenCounts
<1> QED
  BY ZenonT(30), <1>1, <1>2, <1>3, <1>4, <1>5 DEF Next

\* The inductive invariant holds throughout.
LEMMA Inductive == Spec => []IInv
  BY InitInv, InvStep, PTL DEF Spec

(* The variables keep their types: pop() always answers with a task, never   *)
(* with what a panicking expect() would leave (priority_queue.rs:55).        *)
THEOREM TypeCorrect == Spec => []TypeOK
<1>1. IInv => TypeOK
  BY DEF IInv
<1> QED
  BY <1>1, Inductive, PTL

(* However push, pop and clear alternate, a bit is set exactly when its      *)
(* bucket holds a task (priority_queue.rs:38-65).                            *)
THEOREM BitmapIsExact == Spec => []BitmapExact
<1>1. IInv => BitmapExact
  BY DEF IInv
<1> QED
  BY <1>1, Inductive, PTL

(* len counts the tasks that pop() can still return (priority_queue.rs:42,   *)
(* :62 and :82).                                                             *)
THEOREM LenIsCount == Spec => []LenCounts
<1>1. IInv => LenCounts
  BY DEF IInv
<1> QED
  BY <1>1, Inductive, PTL

(* Every bucket is in the order of its pushes.                               *)
THEOREM BucketsStaySorted == Spec => []BucketsSorted
<1>1. IInv => BucketsSorted
  BY DEF IInv
<1> QED
  BY <1>1, Inductive, PTL

\* A queue whose bitmap is zero holds no task.
LEMMA NoBitNoTask ==
  ASSUME IInv, ~HasTask(queue)
  PROVE  Queued(queue) = {}
<1> SUFFICES ASSUME NEW t \in Queued(queue) PROVE FALSE
  OBVIOUS
<1>1. t.priority \in Priorities /\ queue.buckets[t.priority] # <<>>
  BY QueuedOld DEF IInv
<1>2. t.priority \div 64 \in Words
  BY Zenon, <1>1, WordAndBit, PrioritiesAssumption
<1>3. (t.priority % 64) \in queue.bitmap[t.priority \div 64]
  BY <1>1 DEF IInv, BitmapExact, BitmapMatches
<1> QED
  BY <1>2, <1>3 DEF HasTask

\* Every step of the bucket queue is a step, or a stutter, of the abstract one.
LEMMA FifoStep ==
  IInv /\ [Next]_vars => [Fifo!Next]_<<Queued(queue), popped>>
<1> SUFFICES ASSUME IInv, [Next]_vars
             PROVE  Fifo!Next \/ (Queued(queue)' = Queued(queue) /\ popped' = popped)
  OBVIOUS
<1>1. ASSUME NEW p \in Priorities, Push(p) PROVE Fifo!Push
  <2>1. Queued(queue)' = Queued(queue) \cup {NewTask(p)} /\ popped' = popped
    BY <1>1, PushStep DEF Push
  <2>2. NewTask(p) \in Fifo!Task
    BY DEF IInv, TypeOK, NewTask, Fifo!Task
  <2>3. \A u \in Queued(queue) : u.id < NewTask(p).id
    BY QueuedOld DEF IInv, NewTask
  <2> QED
    BY <2>1, <2>2, <2>3 DEF Fifo!Push
<1>2. ASSUME Pop PROVE Fifo!Pop
  BY <1>2, PopStep DEF Fifo!Pop, Pop
<1>3. ASSUME PopNone PROVE Fifo!PopNone
  BY <1>3, NoBitNoTask DEF PopNone, Fifo!PopNone
<1>4. ASSUME Clear PROVE Fifo!Clear
  BY <1>4, ClearStep DEF Clear, Fifo!Clear
<1>5. ASSUME UNCHANGED vars PROVE Queued(queue)' = Queued(queue) /\ popped' = popped
  BY <1>5 DEF vars
<1> QED
  BY <1>1, <1>2, <1>3, <1>4, <1>5 DEF Next, Fifo!Next

(* The bitmap and the buckets together implement the abstract queue: every   *)
(* pop returns the oldest task of the highest priority (priority_queue.rs:   *)
(* 38-65).                                                                   *)
THEOREM BucketsImplementFifo == Spec => ImplementsFifo
<1>1. Init => Fifo!Init
  <2>1. Init => Queued(queue) = {}
    BY SMTT(30) DEF Init, EmptyQueue, Queued
  <2> QED
    BY <2>1 DEF Init, Fifo!Init
<1> QED
  BY <1>1, FifoStep, Inductive, PTL DEF Spec, ImplementsFifo, Fifo!Spec

HIDE DEF QueuedPop, InitInv, QueuedOld, PushStep, PopStep, ClearStep,
         InvStep, Inductive, TypeCorrect, BitmapIsExact, LenIsCount,
         BucketsStaySorted, NoBitNoTask, FifoStep, BucketsImplementFifo,
         WordAndBit, TopOK, QueuedDef, EmptyQueueOK, PushOK, PopOK,
         QueuedPush

-----------------------------------------------------------------------------
(* The cache.  Ids are given out in increasing order, so its FIFO is an     *)
(* ascending sequence, and an ascending sequence is known by its elements:  *)
(* what the cache keeps is settled by the set of ids it holds.              *)

\* A FIFO of ids as insertions make it, the ids in it, and it without place i.
Ascending(s) == \A i, j \in DOMAIN s : i < j => s[i] < s[j]
Elements(s)  == {s[i] : i \in DOMAIN s}
Without(s, i) == SubSeq(s, 1, i - 1) \o SubSeq(s, i + 1, Len(s))

\* A set of positions can be listed in increasing order.
LEMMA Listing ==
  ASSUME NEW b \in Nat, NEW K \in SUBSET (1..b)
  PROVE  \E f \in [1..Cardinality(K) -> K] : Ascending(f)
<1> DEFINE Lists(S) == \E f \in [1..Cardinality(S) -> S] : Ascending(f)
           D == {n \in Nat : \E S \in SUBSET (1..n) : ~Lists(S)}
<1>1. SUFFICES D = {}
  BY <1>1
<1>2. SUFFICES ASSUME D # {} PROVE FALSE
  OBVIOUS
<1>3. PICK n \in D : \A k \in D : n <= k
  BY <1>2, NatMin
<1>4. PICK S \in SUBSET (1..n) : ~Lists(S)
  BY <1>3
<1>5. n \in Nat
  BY <1>3
<1> DEFINE R == S \ {n}
<1>6. R \in SUBSET (1..(n - 1))
  BY SMTT(30), <1>4, <1>5
<1>7. IsFiniteSet(S) /\ IsFiniteSet(R) /\ Cardinality(R) \in Nat
      /\ Cardinality(S) = IF n \in S THEN Cardinality(R) + 1 ELSE Cardinality(R)
  <2>1. IsFiniteSet(1..n)
    BY SMTT(30), <1>5, FS_Interval
  <2>2. IsFiniteSet(S)
    BY <2>1, <1>4, FS_Subset
  <2>3. IsFiniteSet(R) /\ Cardinality(R) = IF n \in S THEN Cardinality(S) - 1 ELSE Cardinality(S)
    BY <2>2, FS_RemoveElement
  <2>4. Cardinality(S) \in Nat /\ Cardinality(R) \in Nat
    BY <2>2, <2>3, FS_CardinalityType
  <2> QED
    BY <2>2, <2>3, <2>4
<1>8. Lists(R)
  <2>1. CASE n = 0
    <3>1. R = {}
      BY SMTT(30), <1>4, <2>1
    <3>4. Cardinality(R) = 0
      BY <3>1, FS_EmptySet
    <3>2. [i \in 1..0 |-> 0] \in [1..0 -> {}]
      OBVIOUS
    <3>3. Ascending([i \in 1..0 |-> 0])
      BY DEF Ascending
    <3> QED
      BY <3>1, <3>2, <3>3, <3>4
  <2>2. CASE n # 0
    <3>1. n - 1 \in Nat /\ n - 1 < n
      BY <1>5, <2>2
    <3>2. n - 1 \notin D
      <4>1. ~(n <= n - 1)
        BY <1>5
      <4> QED
        BY <4>1, <1>3
    <3> QED
      BY <1>6, <3>1, <3>2
  <2> QED
    BY <2>1, <2>2
<1>9. n \in S
  <2>1. ASSUME n \notin S PROVE FALSE
    <3>1. R = S
      BY <2>1
    <3> QED
      BY <3>1, <1>4, <1>8
  <2> QED
    BY <2>1
<1> DEFINE m == Cardinality(R)
<1>10. PICK f \in [1..m -> R] : Ascending(f)
  BY <1>8
<1> HIDE DEF m
<1> DEFINE g == [i \in 1..(m + 1) |-> IF i = m + 1 THEN n ELSE f[i]]
<1>11. m \in Nat
  BY <1>7 DEF m
<1>12. g \in [1..(m + 1) -> S]
  BY SMTT(30), <1>9, <1>10, <1>11
<1>13. ASSUME NEW i \in 1..(m + 1), NEW j \in 1..(m + 1), i < j PROVE g[i] < g[j]
  <2>1. i \in 1..m /\ g[i] = f[i] /\ f[i] \in R
    BY SMTT(30), <1>13, <1>11, <1>10
  <2>2. CASE j = m + 1
    <3>1. g[j] = n
      BY <2>2
    <3>2. f[i] \in 1..(n - 1)
      BY <2>1, <1>6
    <3> QED
      BY SMTT(30), <3>1, <3>2, <2>1, <1>5
  <2>3. CASE j # m + 1
    <3>1. j \in 1..m /\ g[j] = f[j]
      BY SMTT(30), <2>3, <1>11
    <3> QED
      BY <3>1, <2>1, <1>13, <1>10 DEF Ascending
  <2> QED
    BY <2>2, <2>3
<1>14. Ascending(g)
  BY <1>12, <1>13 DEF Ascending
<1>15. Cardinality(S) = m + 1
  BY <1>7, <1>9 DEF m
<1> QED
  BY <1>4, <1>12, <1>14, <1>15

\* retain keeps the order of what it keeps, and keeps the ids that are live.
\* (payload_cache.rs:76-79)
LEMMA RetainedIs ==
  ASSUME NEW s \in Seq(Nat), Ascending(s), NEW live
  PROVE  /\ Retained(s, live) \in Seq(Nat)
         /\ Ascending(Retained(s, live))
         /\ Elements(Retained(s, live)) = Elements(s) \cap live
<1> DEFINE K == {k \in DOMAIN s : s[k] \in live}
           n == Cardinality(K)
           Good(h) == \A i, j \in DOMAIN h : i < j => h[i] < h[j]
           f == CHOOSE h \in [1..n -> K] : Good(h)
           r == [i \in DOMAIN f |-> s[f[i]]]
<1>1. Retained(s, live) = r
  BY DEF Retained
<1>2. Len(s) \in Nat /\ DOMAIN s = 1..Len(s) /\ \A k \in DOMAIN s : s[k] \in Nat
  OBVIOUS
<1>3. K \in SUBSET (1..Len(s))
  BY <1>2
<1>4. IsFiniteSet(K) /\ n \in Nat
  <2>1. IsFiniteSet(1..Len(s))
    BY <1>2, FS_Interval
  <2>2. IsFiniteSet(K)
    BY <2>1, <1>3, FS_Subset
  <2> QED
    BY <2>2, FS_CardinalityType
<1>5. f \in [1..n -> K] /\ Good(f)
  <2>1. \E h \in [1..n -> K] : Good(h)
    BY <1>2, <1>3, Listing DEF Ascending
  <2> QED
    BY <2>1
<1>6. f \in Surjection(1..n, K)
  <2>1. f \in Injection(1..n, K)
    <3> HIDE DEF f, n
    <3>1. ASSUME NEW i \in 1..n, NEW j \in 1..n, f[i] = f[j] PROVE i = j
      <4>1. f[i] \in Nat /\ f[j] \in Nat
        BY SMTT(30), <1>3, <1>5
      <4>2. ~(i < j) /\ ~(j < i)
        BY <4>1, <1>5, <3>1
      <4> QED
        BY <4>2, <1>4
    <3> QED
      BY <3>1, <1>5 DEF Injection, IsInjective
  <2>2. IsFiniteSet(1..n) /\ Cardinality(1..n) = n
    BY SMTT(30), <1>4, FS_Interval
  <2> QED
    BY <2>1, <2>2, <1>4, FS_Injection
<1> HIDE DEF f, n
<1>7. r \in Seq(Nat)
  <2>1. r \in [1..n -> Nat]
    BY <1>2, <1>3, <1>5
  <2> QED
    BY <2>1, <1>4
<1>8. Ascending(r)
  <2> SUFFICES ASSUME NEW i \in DOMAIN r, NEW j \in DOMAIN r, i < j PROVE r[i] < r[j]
    BY DEF Ascending
  <2>1. i \in 1..n /\ j \in 1..n /\ f[i] < f[j] /\ r[i] = s[f[i]] /\ r[j] = s[f[j]]
    BY <1>5
  <2>2. f[i] \in DOMAIN s /\ f[j] \in DOMAIN s
    BY <2>1, <1>5
  <2> QED
    BY <2>1, <2>2 DEF Ascending
<1>9. Elements(r) = Elements(s) \cap live
  <2>1. ASSUME NEW x \in Elements(r) PROVE x \in Elements(s) \cap live
    BY <2>1, <1>5 DEF Elements
  <2>2. ASSUME NEW x \in Elements(s) \cap live PROVE x \in Elements(r)
    <3>1. PICK k \in K : x = s[k]
      BY <2>2 DEF Elements
    <3>2. PICK i \in 1..n : f[i] = k
      BY <3>1, <1>6 DEF Surjection
    <3> QED
      BY <3>1, <3>2, <1>5 DEF Elements
  <2> QED
    BY <2>1, <2>2
<1> QED
  BY <1>1, <1>7, <1>8, <1>9

\* Two ascending sequences with the same elements agree place by place.
LEMMA AgreeAt ==
  ASSUME NEW r \in Seq(Nat), NEW s \in Seq(Nat), Ascending(r), Ascending(s),
         Elements(r) = Elements(s), NEW m \in DOMAIN r,
         \A j \in DOMAIN r : j < m => j \in DOMAIN s /\ r[j] = s[j]
  PROVE  m \in DOMAIN s /\ r[m] = s[m]
<1>1. DOMAIN r = 1..Len(r) /\ DOMAIN s = 1..Len(s) /\ Len(r) \in Nat /\ Len(s) \in Nat
      /\ (\A i \in DOMAIN r : r[i] \in Nat) /\ (\A i \in DOMAIN s : s[i] \in Nat)
  OBVIOUS
<1>2. PICK k \in DOMAIN s : s[k] = r[m]
  BY DEF Elements
<1>3. ~(k < m)
  <2>1. SUFFICES ASSUME k < m PROVE FALSE
    OBVIOUS
  <2>2. k \in DOMAIN r
    BY <1>1, <2>1
  <2>3. r[k] = s[k] /\ r[k] < r[m]
    BY <2>1, <2>2 DEF Ascending
  <2> QED
    BY <2>2, <2>3, <1>1, <1>2
<1>4. ~(k > m)
  <2>1. SUFFICES ASSUME k > m PROVE FALSE
    OBVIOUS
  <2>2. m \in DOMAIN s /\ m < k
    BY <1>1, <2>1
  <2>3. s[m] < r[m]
    BY <2>2, <1>2 DEF Ascending
  <2>4. PICK l \in DOMAIN r : r[l] = s[m]
    BY <2>2 DEF Elements
  <2>5. l < m
    <3>1. ASSUME m < l PROVE FALSE
      <4>1. r[m] < r[l]
        BY <3>1 DEF Ascending
      <4> QED
        BY <4>1, <2>2, <2>3, <2>4, <1>1
    <3>2. l # m
      BY <2>3, <2>4, <1>1
    <3> QED
      BY <3>1, <3>2, <1>1
  <2>6. l \in DOMAIN s /\ s[l] = s[m]
    BY <2>4, <2>5
  <2>7. s[l] < s[m]
    BY <2>2, <2>5, <2>6 DEF Ascending
  <2> QED
    BY <2>2, <2>6, <2>7, <1>1
<1>5. k = m
  BY <1>1, <1>3, <1>4
<1> QED
  BY <1>2, <1>5

\* An ascending sequence is determined by its elements.
LEMMA SameElements ==
  ASSUME NEW r \in Seq(Nat), NEW s \in Seq(Nat), Ascending(r), Ascending(s),
         Elements(r) = Elements(s)
  PROVE  r = s
<1> DEFINE Same(i) == i \in DOMAIN r /\ i \in DOMAIN s /\ r[i] = s[i]
           D == {i \in DOMAIN r \cup DOMAIN s : ~Same(i)}
<1>1. DOMAIN r = 1..Len(r) /\ DOMAIN s = 1..Len(s) /\ Len(r) \in Nat /\ Len(s) \in Nat
  OBVIOUS
<1>2. D = {}
  <2>1. SUFFICES ASSUME D # {} PROVE FALSE
    OBVIOUS
  <2>2. D \subseteq Nat
    BY <1>1
  <2>3. PICK m \in D : \A k \in D : m <= k
    BY <2>1, <2>2, NatMin
  <2>4. \A j \in DOMAIN r \cup DOMAIN s : j < m => Same(j)
    <3>1. \A j \in DOMAIN r \cup DOMAIN s : j \in Nat /\ m \in Nat
      BY <1>1
    <3> QED
      BY SMTT(30), <2>3, <3>1
  <2>5. CASE m \in DOMAIN r
    BY <2>4, <2>5, AgreeAt
  <2>6. CASE m \in DOMAIN s
    BY <2>4, <2>6, AgreeAt
  <2> QED
    BY <2>5, <2>6
<1>3. DOMAIN r = DOMAIN s /\ \A i \in DOMAIN r : r[i] = s[i]
  BY <1>2
<1> QED
  BY SMTT(30), <1>1, <1>3

\* An ascending sequence has as many places as elements.
LEMMA AscendingLen ==
  ASSUME NEW s \in Seq(Nat), Ascending(s)
  PROVE  IsFiniteSet(Elements(s)) /\ Cardinality(Elements(s)) = Len(s)
<1>1. DOMAIN s = 1..Len(s) /\ Len(s) \in Nat /\ \A i \in DOMAIN s : s[i] \in Nat
  OBVIOUS
<1>2. ASSUME NEW i \in DOMAIN s, NEW j \in DOMAIN s, s[i] = s[j] PROVE i = j
  <2>1. ~(i < j) /\ ~(j < i)
    BY <1>1, <1>2 DEF Ascending
  <2> QED
    BY <2>1, <1>1
<1>3. s \in [1..Len(s) -> Elements(s)]
  <2>1. \A i \in DOMAIN s : s[i] \in Elements(s)
    BY DEF Elements
  <2> QED
    BY SMTT(30), <1>1, <2>1
<1>4. s \in Bijection(1..Len(s), Elements(s))
  BY <1>1, <1>2, <1>3 DEF Bijection, Injection, IsInjective, Surjection, Elements
<1>5. ExistsBijection(1..Len(s), Elements(s))
  BY <1>4 DEF ExistsBijection
<1>6. IsFiniteSet(1..Len(s))
  BY <1>1, FS_Interval
<1> QED
  BY <1>1, <1>5, <1>6, FS_Bijection, FS_CountingElements

\* push_back of an id above all those in the FIFO.
LEMMA AscendingAppend ==
  ASSUME NEW s \in Seq(Nat), Ascending(s), NEW x \in Nat, \A y \in Elements(s) : y < x
  PROVE  /\ Append(s, x) \in Seq(Nat)
         /\ Ascending(Append(s, x))
         /\ Elements(Append(s, x)) = Elements(s) \cup {x}
<1> DEFINE a == Append(s, x)
<1>1. /\ DOMAIN a = 1..(Len(s) + 1) /\ DOMAIN s = 1..Len(s) /\ Len(s) \in Nat
      /\ \A i \in 1..Len(s) : a[i] = s[i]
      /\ a[Len(s) + 1] = x
  BY SMTT(30), AppendElements
<1>2. a \in Seq(Nat)
  OBVIOUS
<1> HIDE DEF a
<1>3. \A i \in DOMAIN s : s[i] < x
  BY DEF Elements
<1>4. \A i \in DOMAIN a : i = Len(s) + 1 \/ i \in DOMAIN s
  BY <1>1
<1>5. Ascending(a)
  <2> SUFFICES ASSUME NEW i \in DOMAIN a, NEW j \in DOMAIN a, i < j PROVE a[i] < a[j]
    BY DEF Ascending
  <2>1. i \in DOMAIN s
    BY <1>1
  <2>2. CASE j \in DOMAIN s
    BY <2>1, <2>2, <1>1 DEF Ascending
  <2>3. CASE j = Len(s) + 1
    BY <2>1, <2>3, <1>1, <1>3
  <2> QED
    BY <2>2, <2>3, <1>4
<1>6. Elements(a) = Elements(s) \cup {x}
  <2>1. ASSUME NEW y \in Elements(a) PROVE y \in Elements(s) \cup {x}
    BY <2>1, <1>1, <1>4 DEF Elements
  <2>2. ASSUME NEW y \in Elements(s) \cup {x} PROVE y \in Elements(a)
    <3>1. \A i \in DOMAIN s : i \in DOMAIN a /\ a[i] = s[i]
      BY <1>1
    <3>2. Len(s) + 1 \in DOMAIN a
      BY <1>1
    <3> QED
      BY <3>1, <3>2, <2>2, <1>1 DEF Elements
  <2> QED
    BY <2>1, <2>2
<1> QED
  BY <1>2, <1>5, <1>6 DEF a

\* What follows a place of a sequence.
LEMMA RestIs ==
  ASSUME NEW s \in Seq(Nat), NEW k \in DOMAIN s
  PROVE  /\ SubSeq(s, k + 1, Len(s)) \in Seq(Nat)
         /\ Len(SubSeq(s, k + 1, Len(s))) = Len(s) - k
         /\ DOMAIN SubSeq(s, k + 1, Len(s)) = 1..(Len(s) - k)
         /\ \A i \in 1..(Len(s) - k) : SubSeq(s, k + 1, Len(s))[i] = s[k + i]
<1> DEFINE r == SubSeq(s, k + 1, Len(s))
<1>1. DOMAIN s = 1..Len(s) /\ Len(s) \in Nat /\ k \in Nat /\ 1 <= k /\ k <= Len(s)
  OBVIOUS
<1>2. r \in Seq(Nat) /\ Len(r) = Len(s) - k /\ DOMAIN r = 1..(Len(s) - k)
  BY SMTT(30), <1>1
<1>3. \A i \in 1..(Len(s) - k) : r[i] = s[k + i]
  BY SMTT(30), <1>1
<1> QED
  BY <1>2, <1>3

\* What is behind place k of an ascending sequence.
LEMMA AscendingRest ==
  ASSUME NEW s \in Seq(Nat), Ascending(s), NEW k \in DOMAIN s
  PROVE  /\ SubSeq(s, k + 1, Len(s)) \in Seq(Nat)
         /\ Len(SubSeq(s, k + 1, Len(s))) = Len(s) - k
         /\ Ascending(SubSeq(s, k + 1, Len(s)))
         /\ Elements(SubSeq(s, k + 1, Len(s))) = {x \in Elements(s) : s[k] < x}
<1> DEFINE r == SubSeq(s, k + 1, Len(s))
<1>1. /\ DOMAIN s = 1..Len(s) /\ Len(s) \in Nat /\ k \in Nat /\ 1 <= k /\ k <= Len(s)
      /\ \A i \in DOMAIN s : s[i] \in Nat
  OBVIOUS
<1>2. r \in Seq(Nat) /\ Len(r) = Len(s) - k /\ DOMAIN r = 1..(Len(s) - k)
  BY RestIs
<1>3. \A i \in 1..(Len(s) - k) : r[i] = s[k + i]
  BY RestIs
<1> HIDE DEF r
<1>4. Ascending(r)
  <2> SUFFICES ASSUME NEW i \in DOMAIN r, NEW j \in DOMAIN r, i < j PROVE r[i] < r[j]
    BY DEF Ascending
  <2>1. i \in 1..(Len(s) - k) /\ j \in 1..(Len(s) - k)
    BY <1>2
  <2>2. k + i \in 1..Len(s) /\ k + j \in 1..Len(s) /\ k + i < k + j
    BY SMTT(30), <2>1, <1>1
  <2> QED
    BY <2>1, <2>2, <1>1, <1>3 DEF Ascending
<1>5. \A i \in DOMAIN r : k + i \in DOMAIN s /\ k < k + i
  BY SMTT(30), <1>1, <1>2
<1>6. ASSUME NEW x \in Elements(r) PROVE x \in Elements(s) /\ s[k] < x
  BY <1>5, <1>6, <1>2, <1>3 DEF Elements, Ascending
<1>7. ASSUME NEW x \in Elements(s), s[k] < x PROVE x \in Elements(r)
  <2>1. PICK j \in DOMAIN s : x = s[j]
    BY DEF Elements
  <2>2. ~(j < k) /\ j # k
    <3>1. ASSUME j < k PROVE FALSE
      <4>1. s[j] < s[k]
        BY <3>1 DEF Ascending
      <4> QED
        BY <4>1, <2>1, <1>7, <1>1
    <3>2. j # k
      BY <2>1, <1>7, <1>1
    <3> QED
      BY <3>1, <3>2
  <2>3. j - k \in DOMAIN r /\ k + (j - k) = j
    BY SMTT(30), <2>2, <1>1, <1>2
  <2> QED
    BY <2>1, <2>3, <1>2, <1>3 DEF Elements
<1> QED
  BY <1>2, <1>4, <1>6, <1>7 DEF r

\* The head of an ascending sequence is its least element.
LEMMA AscendingTail ==
  ASSUME NEW s \in Seq(Nat), Ascending(s), s # <<>>
  PROVE  /\ Tail(s) \in Seq(Nat)
         /\ Ascending(Tail(s))
         /\ Elements(Tail(s)) = Elements(s) \ {s[1]}
         /\ s[1] \in Elements(s)
         /\ \A x \in Elements(s) : s[1] <= x
<1>1. /\ DOMAIN s = 1..Len(s) /\ Len(s) \in Nat /\ 1 \in DOMAIN s
      /\ \A i \in DOMAIN s : s[i] \in Nat
  BY SMTT(30), TailElements
<1>2. \A i \in DOMAIN s : s[i] # s[1] => s[1] < s[i]
  BY <1>1 DEF Ascending
<1>3. Tail(s) = SubSeq(s, 1 + 1, Len(s))
  BY <1>1
<1>4. /\ Tail(s) \in Seq(Nat) /\ Ascending(Tail(s))
      /\ Elements(Tail(s)) = {x \in Elements(s) : s[1] < x}
  BY <1>1, <1>3, AscendingRest
<1>5. \A x \in Elements(s) : x \in Nat /\ s[1] \in Nat /\ (x # s[1] => s[1] < x)
  BY <1>1, <1>2 DEF Elements
<1>6. \A x \in Elements(s) : s[1] <= x /\ (s[1] < x <=> x # s[1])
  BY <1>5
<1>7. s[1] \in Elements(s)
  BY <1>1 DEF Elements
<1> QED
  BY <1>4, <1>6, <1>7

\* What a concatenation is made of.
LEMMA ConcatElements ==
  ASSUME NEW u \in Seq(Nat), NEW v \in Seq(Nat)
  PROVE  /\ u \o v \in Seq(Nat)
         /\ Len(u \o v) = Len(u) + Len(v)
         /\ \A j \in 1..(Len(u) + Len(v)) :
              (u \o v)[j] = IF j <= Len(u) THEN u[j] ELSE v[j - Len(u)]
  OBVIOUS

\* One place taken out of an ascending sequence.
LEMMA AscendingWithout ==
  ASSUME NEW s \in Seq(Nat), Ascending(s), NEW i \in DOMAIN s
  PROVE  /\ Without(s, i) \in Seq(Nat)
         /\ Ascending(Without(s, i))
         /\ Elements(Without(s, i)) = Elements(s) \ {s[i]}
<1> DEFINE r == Without(s, i)
           At(j) == IF j < i THEN j ELSE j + 1
<1>1. /\ DOMAIN s = 1..Len(s) /\ Len(s) \in Nat /\ i \in Nat /\ 1 <= i /\ i <= Len(s)
      /\ \A j \in DOMAIN s : s[j] \in Nat
  OBVIOUS
<1> DEFINE u == SubSeq(s, 1, i - 1)
           v == SubSeq(s, i + 1, Len(s))
<1>a. u \in Seq(Nat) /\ Len(u) = i - 1 /\ \A j \in 1..(i - 1) : u[j] = s[j]
  BY <1>1
<1>b. v \in Seq(Nat) /\ Len(v) = Len(s) - i /\ \A j \in 1..(Len(s) - i) : v[j] = s[i + j]
  BY RestIs
<1>c. r = u \o v
  BY DEF Without
<1> HIDE DEF r, u, v
<1>2. r \in Seq(Nat) /\ DOMAIN r = 1..(Len(s) - 1)
  <2>1. r \in Seq(Nat) /\ Len(r) = Len(u) + Len(v)
    BY <1>a, <1>b, <1>c, ConcatElements
  <2> QED
    BY SMTT(30), <2>1, <1>1, <1>a, <1>b
<1>3. \A j \in 1..(Len(s) - 1) : r[j] = s[At(j)]
  <2> SUFFICES ASSUME NEW j \in 1..(Len(s) - 1) PROVE r[j] = s[At(j)]
    OBVIOUS
  <2>1. CASE j < i
    <3>1. r[j] = u[j] /\ j \in 1..(i - 1)
      BY SMTT(30), <2>1, <1>1, <1>a, <1>b, <1>c, ConcatElements
    <3> QED
      BY <3>1, <2>1, <1>a
  <2>2. CASE ~(j < i)
    <3>0. j \in 1..(Len(u) + Len(v)) /\ ~(j <= Len(u))
      BY SMTT(30), <2>2, <1>1, <1>a, <1>b
    <3>1. r[j] = v[j - Len(u)]
      BY <3>0, <1>a, <1>b, <1>c, ConcatElements
    <3>2. j - (i - 1) \in 1..(Len(s) - i) /\ i + (j - (i - 1)) = j + 1
      BY <2>2, <1>1
    <3> QED
      BY <3>1, <3>2, <2>2, <1>a, <1>b
  <2> QED
    BY <2>1, <2>2
<1>4. \A j \in DOMAIN r : At(j) \in DOMAIN s /\ At(j) # i
  <2>1. \A j \in 1..(Len(s) - 1) : At(j) \in 1..Len(s) /\ At(j) # i
    BY SMTT(30), <1>1
  <2> QED
    BY <2>1, <1>1, <1>2
<1>5. \A j, k \in DOMAIN r : j < k => At(j) < At(k)
  <2>1. \A j, k \in 1..(Len(s) - 1) : j < k => At(j) < At(k)
    BY SMTT(30), <1>1
  <2> QED
    BY <2>1, <1>2
<1>6. \A k \in DOMAIN s : k # i => \E j \in DOMAIN r : At(j) = k
  <2> SUFFICES ASSUME NEW k \in DOMAIN s, k # i PROVE \E j \in DOMAIN r : At(j) = k
    OBVIOUS
  <2>1. CASE k < i
    <3>1. k \in DOMAIN r /\ At(k) = k
      BY <2>1, <1>1, <1>2
    <3> QED
      BY <3>1
  <2>2. CASE k > i
    <3>1. k \in 1..Len(s) /\ i \in 1..Len(s)
      BY <1>1
    <3>2. k - 1 \in 1..(Len(s) - 1) /\ At(k - 1) = k
      BY SMTT(30), <2>2, <3>1, <1>1
    <3> QED
      BY <3>2, <1>2
  <2> QED
    BY <2>1, <2>2, <1>1
<1> HIDE DEF At
<1>7. Ascending(r)
  BY <1>2, <1>3, <1>4, <1>5 DEF Ascending
<1>8. \A k \in DOMAIN s : k # i => s[k] # s[i]
  BY <1>1 DEF Ascending
<1>9. Elements(r) = Elements(s) \ {s[i]}
  <2>1. ASSUME NEW x \in Elements(r) PROVE x \in Elements(s) \ {s[i]}
    BY <2>1, <1>2, <1>3, <1>4, <1>8 DEF Elements
  <2>2. ASSUME NEW x \in Elements(s) \ {s[i]} PROVE x \in Elements(r)
    <3>1. PICK k \in DOMAIN s : x = s[k]
      BY <2>2 DEF Elements
    <3>2. PICK j \in DOMAIN r : At(j) = k
      BY <3>1, <2>2, <1>6
    <3>3. x = r[j]
      BY <3>1, <3>2, <1>2, <1>3
    <3> QED
      BY <3>3 DEF Elements
  <2> QED
    BY <2>1, <2>2
<1> QED
  BY <1>2, <1>7, <1>9 DEF r

\* The cache after n pushes: every id in the FIFO is one of theirs, in the order of
\* the pushes, and every cached id is in the FIFO, so that an eviction finds it.
CacheOK(c, n) ==
  /\ IsCache(c)
  /\ c.order \in Seq(Nat)
  /\ Ascending(c.order)
  /\ \A x \in Elements(c.order) : x < n
  /\ DOMAIN c.entries \subseteq Elements(c.order)
  /\ Cardinality(DOMAIN c.entries) <= CacheCapacity
  /\ Len(c.order) <= 2 * CacheCapacity

\* The ids cached are finitely many pushed ones.
LEMMA LiveIds ==
  ASSUME NEW n \in Nat, NEW c, CacheOK(c, n)
  PROVE  /\ IsFiniteSet(DOMAIN c.entries) /\ Cardinality(DOMAIN c.entries) \in Nat
         /\ DOMAIN c.entries \subseteq Nat /\ Elements(c.order) \subseteq Nat
         /\ n \notin DOMAIN c.entries /\ n \notin Elements(c.order)
         /\ \A x \in DOMAIN c.entries : x < n
<1>1. \A i \in DOMAIN c.order : c.order[i] \in Nat
  BY DEF CacheOK
<1>2. Elements(c.order) \subseteq Nat
  BY <1>1 DEF Elements
<1>3. IsFiniteSet(Elements(c.order))
  BY AscendingLen DEF CacheOK
<1>4. IsFiniteSet(DOMAIN c.entries) /\ Cardinality(DOMAIN c.entries) \in Nat
  BY <1>3, FS_Subset, FS_CardinalityType DEF CacheOK
<1>5. n \notin Elements(c.order)
  BY <1>2 DEF CacheOK
<1> QED
  BY <1>2, <1>4, <1>5 DEF CacheOK

\* A cache that is empty, as it starts and as clear leaves it.
\* (payload_cache.rs:30-39, 88-91)
LEMMA EmptyCacheOK == \A n \in Nat : CacheOK(EmptyCache, n)
<1>1. EmptyCache.entries = EmptyMap /\ EmptyCache.order = <<>> /\ DOMAIN EmptyMap = {}
  BY DEF EmptyCache, EmptyMap
<1>2. Elements(<<>>) = {} /\ Ascending(<<>>) /\ <<>> \in Seq(Nat) /\ Len(<<>>) = 0
  BY DEF Elements, Ascending
<1>3. IsCache(EmptyCache)
  BY DEF IsCache, EmptyCache, EmptyMap
<1>4. Cardinality({}) = 0
  BY FS_EmptySet
<1> QED
  BY <1>1, <1>2, <1>3, <1>4, CacheCapacityAssumption DEF CacheOK

\* remove leaves the FIFO alone.  (payload_cache.rs:83-85)
LEMMA CacheKept ==
  ASSUME NEW n \in Nat, NEW c, CacheOK(c, n), NEW id
  PROVE  /\ CacheOK(CacheRemove(c, id), n)
         /\ DOMAIN CacheRemove(c, id).entries = DOMAIN c.entries \ {id}
<1>3. CacheRemove(c, id).entries = Drop(c.entries, id) /\ CacheRemove(c, id).order = c.order
  BY DEF CacheRemove, CacheOK, IsCache
<1>4. DOMAIN CacheRemove(c, id).entries = DOMAIN c.entries \ {id}
  BY <1>3 DEF Drop
<1>5. Cardinality(DOMAIN c.entries \ {id}) <= CacheCapacity
  <2>1. Cardinality(DOMAIN c.entries \ {id}) <= Cardinality(DOMAIN c.entries)
        /\ Cardinality(DOMAIN c.entries \ {id}) \in Nat
    BY LiveIds, FS_Subset, FS_CardinalityType
  <2> QED
    BY SMTT(30), <2>1, LiveIds, CacheCapacityAssumption DEF CacheOK
<1>6. IsCache(CacheRemove(c, id))
  BY CacheType, 0 \in Nat DEF CacheOK
<1>7. CacheOK(CacheRemove(c, id), n)
  BY <1>3, <1>4, <1>5, <1>6 DEF CacheOK
<1> QED
  BY <1>4, <1>7

\* The eviction loop stops at the least id cached: it is dropped, and with it the
\* places of the FIFO up to its own.  (payload_cache.rs:64-73)
LEMMA EvictedIs ==
  ASSUME NEW c, IsCache(c), c.order \in Seq(Nat), Ascending(c.order),
         DOMAIN c.entries \subseteq Elements(c.order), DOMAIN c.entries # {}
  PROVE  \E m \in DOMAIN c.entries :
           /\ \A x \in DOMAIN c.entries : m <= x
           /\ DOMAIN Evicted(c).entries = DOMAIN c.entries \ {m}
           /\ Evicted(c).order \in Seq(Nat)
           /\ Len(Evicted(c).order) < Len(c.order)
           /\ Ascending(Evicted(c).order)
           /\ Elements(Evicted(c).order) = {x \in Elements(c.order) : m < x}
           /\ IsCache(Evicted(c))
<1> DEFINE o == c.order
           live == DOMAIN c.entries
           Leads(i) == o[i] \in live /\ \A j \in 1..(i - 1) : o[j] \notin live
           k == Oldest(c.entries, o)
<1>1. DOMAIN o = 1..Len(o) /\ Len(o) \in Nat /\ \A i \in DOMAIN o : o[i] \in Nat
  OBVIOUS
<1>2. \E i \in DOMAIN o : o[i] \in live
  BY DEF Elements
<1>3. \E i \in DOMAIN o : Leads(i)
  <2> DEFINE D == {i \in DOMAIN o : o[i] \in live}
  <2>1. D # {} /\ D \subseteq Nat
    BY <1>1, <1>2
  <2>2. PICK i \in D : \A j \in D : i <= j
    BY <2>1, NatMin
  <2>3. ASSUME NEW j \in 1..(i - 1) PROVE o[j] \notin live
    <3>1. j \in DOMAIN o /\ ~(i <= j)
      BY <1>1
    <3> QED
      BY <2>2, <3>1
  <2> QED
    BY <2>2, <2>3
<1>4. k \in DOMAIN o /\ Leads(k)
  BY <1>3 DEF Oldest
<1>5. Evicted(c) = [entries |-> Drop(c.entries, o[k]), order |-> SubSeq(o, k + 1, Len(o))]
  BY <1>2 DEF Evicted
<1> HIDE DEF k, o
<1>6. \A x \in live : o[k] <= x
  <2> SUFFICES ASSUME NEW x \in live PROVE o[k] <= x
    OBVIOUS
  <2>1. PICK i \in DOMAIN o : x = o[i]
    BY DEF Elements, o
  <2>2. ~(i < k)
    BY <1>1, <1>4, <2>1
  <2>3. i = k \/ o[k] < o[i]
    BY SMTT(30), <1>1, <1>4, <2>2 DEF Ascending, o
  <2> QED
    BY <1>1, <1>4, <2>1, <2>3
<1>7. DOMAIN Evicted(c).entries = live \ {o[k]} /\ Evicted(c).order = SubSeq(o, k + 1, Len(o))
  <2> DEFINE v == Evicted(c)
             e == Drop(c.entries, o[k])
             q == SubSeq(o, k + 1, Len(o))
  <2>0. v = [entries |-> e, order |-> q]
    BY Zenon, <1>5
  <2> HIDE DEF v, e, q
  <2>1. v.entries = e /\ v.order = q
    BY SMTT(30), <2>0
  <2>2. DOMAIN Drop(c.entries, o[k]) = live \ {o[k]}
    BY DEF Drop
  <2> QED
    BY Zenon, <2>1, <2>2 DEF v, e, q
<1>8. /\ Evicted(c).order \in Seq(Nat) /\ Len(Evicted(c).order) = Len(o) - k
      /\ Ascending(Evicted(c).order)
      /\ Elements(Evicted(c).order) = {x \in Elements(o) : o[k] < x}
  BY <1>4, <1>7, AscendingRest DEF o
<1>9. Len(Evicted(c).order) < Len(o)
  BY <1>1, <1>4, <1>8
<1>10. o[k] \in DOMAIN c.entries /\ o = c.order
  BY <1>4 DEF o
<1>11. IsCache(Evicted(c))
  <2>1. Drop(c.entries, o[k]) \in [DOMAIN Drop(c.entries, o[k]) -> Nat]
    BY DEF IsCache, Drop
  <2>2. Evicted(c).entries = Drop(c.entries, o[k])
        /\ Evicted(c) = [entries |-> Evicted(c).entries, order |-> Evicted(c).order]
    BY <1>5
  <2> QED
    BY Zenon, <2>1, <2>2 DEF IsCache
<1> QED
  BY ZenonT(30), <1>6, <1>7, <1>8, <1>9, <1>10, <1>11

\* Hygiene drops tombstones only, and leaves no more than the cached ids.
\* (payload_cache.rs:75-79)
LEMMA TidiedIs ==
  ASSUME NEW c, IsCache(c), c.order \in Seq(Nat), Ascending(c.order),
         DOMAIN c.entries \subseteq Elements(c.order),
         Cardinality(DOMAIN c.entries) <= CacheCapacity
  PROVE  /\ Tidied(c).entries = c.entries
         /\ Tidied(c).order \in Seq(Nat)
         /\ Ascending(Tidied(c).order)
         /\ Elements(Tidied(c).order) \subseteq Elements(c.order)
         /\ DOMAIN c.entries \subseteq Elements(Tidied(c).order)
         /\ Len(Tidied(c).order) <= 2 * CacheCapacity
<1> DEFINE o == c.order
           live == DOMAIN c.entries
           r == Retained(o, live)
<1>0. Len(o) \in Nat /\ 2 * CacheCapacity \in Nat
  BY CacheCapacityAssumption
<1>1. CASE ~(Len(o) > 2 * CacheCapacity)
  <2>1. Tidied(c) = c
    BY <1>1 DEF Tidied
  <2>2. Len(o) <= 2 * CacheCapacity
    BY <1>0, <1>1
  <2> QED
    BY <2>1, <2>2
<1>2. CASE Len(o) > 2 * CacheCapacity
  <2>1. Tidied(c) = [c EXCEPT !.order = r]
    BY <1>2 DEF Tidied
  <2>2. Tidied(c).entries = c.entries /\ Tidied(c).order = r
    BY <2>1 DEF IsCache
  <2>3. r \in Seq(Nat) /\ Ascending(r) /\ Elements(r) = Elements(o) \cap live
    BY RetainedIs
  <2>4. Elements(r) = live
    BY <2>3
  <2>5. Len(r) <= 2 * CacheCapacity
    <3>1. Len(r) = Cardinality(live) /\ Len(r) \in Nat
      BY <2>3, <2>4, AscendingLen
    <3> QED
      BY <3>1, CacheCapacityAssumption
  <2> QED
    BY <2>2, <2>3, <2>4, <2>5
<1> QED
  BY <1>1, <1>2

\* insert of a new id: it is cached, and in a full cache the oldest of the others
\* leaves.  (payload_cache.rs:55-80)
LEMMA InsertIs ==
  ASSUME NEW n \in Nat, NEW c, CacheOK(c, n), NEW d \in Nat
  PROVE  LET r == CacheInsert(c, n, d)
             live == DOMAIN c.entries
         IN  /\ CacheOK(r, n + 1)
             /\ \/ CacheCapacity = 0 /\ r = c
                \/ /\ CacheCapacity # 0 /\ Cardinality(live) # CacheCapacity
                   /\ DOMAIN r.entries = live \cup {n}
                \/ /\ CacheCapacity # 0 /\ Cardinality(live) = CacheCapacity
                   /\ \E m \in live : /\ \A x \in live : m <= x
                                     /\ DOMAIN r.entries = (live \ {m}) \cup {n}
<1> DEFINE r == CacheInsert(c, n, d)
           live == DOMAIN c.entries
           a == [entries |-> Put(c.entries, n, d), order |-> Append(c.order, n)]
           b == IF Cardinality(DOMAIN a.entries) > CacheCapacity THEN Evicted(a) ELSE a
<1>1. /\ IsFiniteSet(live) /\ Cardinality(live) \in Nat /\ live \subseteq Nat
      /\ n \notin live /\ n \notin Elements(c.order) /\ Elements(c.order) \subseteq Nat
      /\ \A x \in live : x < n
  BY LiveIds
<1>2. IsCache(r)
  BY CacheType DEF CacheOK
<1>3. CASE CacheCapacity = 0
  <2>1. r = c
    BY <1>3 DEF CacheInsert
  <2>2. \A x \in Elements(c.order) : x < n + 1
    <3>1. \A x \in Elements(c.order) : x \in Nat /\ x < n
      BY <1>1 DEF CacheOK
    <3> QED
      BY <3>1
  <2>3. CacheOK(c, n + 1)
    BY <2>2 DEF CacheOK
  <2> QED
    BY ZenonT(30), <2>1, <2>3, <1>3
<1>4. CASE CacheCapacity # 0
  <2>1. r = Tidied(b)
    BY <1>1, <1>4 DEF CacheInsert
  <2>2. a.entries = Put(c.entries, n, d) /\ a.order = Append(c.order, n)
    OBVIOUS
  <2>3. DOMAIN a.entries = live \cup {n}
    BY <2>2 DEF Put
  <2>4. /\ a.order \in Seq(Nat) /\ Ascending(a.order)
        /\ Elements(a.order) = Elements(c.order) \cup {n}
        /\ Len(a.order) = Len(c.order) + 1 /\ Len(c.order) \in Nat
    <3>1. c.order \in Seq(Nat) /\ Ascending(c.order) /\ \A x \in Elements(c.order) : x < n
      BY DEF CacheOK
    <3>2. Len(Append(c.order, n)) = Len(c.order) + 1 /\ Len(c.order) \in Nat
      BY <3>1
    <3> QED
      BY <3>1, <3>2, <2>2, AscendingAppend
  <2>5. IsCache(a)
    BY <2>2 DEF CacheOK, IsCache, Put
  <2>6. Cardinality(DOMAIN a.entries) = Cardinality(live) + 1
    BY <1>1, <2>3, FS_AddElement
  <2>7. DOMAIN a.entries \subseteq Elements(a.order) /\ Cardinality(live) <= CacheCapacity
    BY <2>3, <2>4 DEF CacheOK
  <2>8. \A x \in Elements(a.order) : x < n + 1
    <3>1. \A x \in Elements(c.order) : x \in Nat /\ x < n
      BY <1>1 DEF CacheOK
    <3> QED
      BY SMTT(30), <3>1, <2>4
  <2> HIDE DEF a
  <2>9. CASE Cardinality(live) # CacheCapacity
    <3>1. Cardinality(DOMAIN a.entries) <= CacheCapacity
          /\ ~(Cardinality(DOMAIN a.entries) > CacheCapacity)
      BY <2>6, <2>7, <2>9, <1>1, CacheCapacityAssumption
    <3>2. b = a
      BY <3>1
    <3>3. r = Tidied(a)
      BY <2>1, <3>2
    <3>4. /\ r.entries = a.entries /\ r.order \in Seq(Nat) /\ Ascending(r.order)
          /\ Elements(r.order) \subseteq Elements(a.order)
          /\ DOMAIN a.entries \subseteq Elements(r.order)
          /\ Len(r.order) <= 2 * CacheCapacity
      BY ZenonT(30), <3>1, <3>3, <2>4, <2>5, <2>7, TidiedIs
    <3> HIDE DEF r, b
    <3>5. CacheOK(r, n + 1)
      BY <3>1, <3>4, <2>8, <1>2 DEF CacheOK
    <3> QED
      BY <3>4, <3>5, <2>3, <2>9, <1>4 DEF r
  <2>10. CASE Cardinality(live) = CacheCapacity
    <3>1. Cardinality(DOMAIN a.entries) > CacheCapacity
      BY <2>6, <2>10, CacheCapacityAssumption
    <3>2. b = Evicted(a)
      BY <3>1
    <3>3. PICK m \in DOMAIN a.entries :
            /\ \A x \in DOMAIN a.entries : m <= x
            /\ DOMAIN b.entries = DOMAIN a.entries \ {m}
            /\ b.order \in Seq(Nat)
            /\ Len(b.order) < Len(a.order)
            /\ Ascending(b.order)
            /\ Elements(b.order) = {x \in Elements(a.order) : m < x}
            /\ IsCache(b)
      <4>1. DOMAIN a.entries # {}
        BY <2>3
      <4> QED
        BY ZenonT(30), <4>1, <3>2, <2>4, <2>5, <2>7, EvictedIs
    <3> HIDE DEF b
    <3>4. m \in live
      <4>1. live # {}
        BY <2>10, <1>4, FS_EmptySet
      <4>2. PICK x \in live : TRUE
        BY <4>1
      <4>3. m <= x /\ x < n /\ x \in Nat /\ m \in Nat
        BY <4>2, <3>3, <2>3, <1>1
      <4>4. m # n
        BY <4>3
      <4> QED
        BY <4>4, <2>3
    <3>5. DOMAIN b.entries = (live \ {m}) \cup {n}
      BY <3>3, <3>4, <2>3, <1>1
    <3>6. DOMAIN b.entries \subseteq Elements(b.order)
      <4>1. \A x \in DOMAIN b.entries : x \in Nat /\ m \in Nat /\ m <= x /\ x # m
        BY <3>3, <2>3, <1>1
      <4>2. \A x \in DOMAIN b.entries : m < x
        BY <4>1
      <4> QED
        BY <4>2, <3>3, <2>7
    <3>7. Cardinality(DOMAIN b.entries) <= CacheCapacity
      <4>1. IsFiniteSet(DOMAIN a.entries)
        BY SMTT(30), <1>1, <2>3, FS_AddElement
      <4>2. Cardinality(DOMAIN b.entries) = Cardinality(DOMAIN a.entries) - 1
        BY <4>1, <3>3, FS_RemoveElement
      <4> QED
        BY SMTT(30), <4>2, <2>6, <2>10, CacheCapacityAssumption
    <3>8. /\ r.entries = b.entries /\ r.order \in Seq(Nat) /\ Ascending(r.order)
          /\ Elements(r.order) \subseteq Elements(b.order)
          /\ DOMAIN b.entries \subseteq Elements(r.order)
          /\ Len(r.order) <= 2 * CacheCapacity
      BY <3>2, <3>3, <3>6, <3>7, <2>1, TidiedIs
    <3> HIDE DEF r
    <3>9. CacheOK(r, n + 1)
      <4>1. \A x \in Elements(r.order) : x < n + 1
        BY <3>3, <3>8, <2>8
      <4> QED
        BY <4>1, <3>7, <3>8, <1>2 DEF CacheOK
    <3> QED
      BY ZenonT(30), <3>3, <3>4, <3>5, <3>8, <3>9, <2>3, <2>10, <1>4 DEF r
  <2> QED
    BY <2>9, <2>10
<1> QED
  BY <1>3, <1>4

-----------------------------------------------------------------------------
(* MemorySpec: the queue behaves as in PriorityBucketQueue, and the cache   *)
(* stays sound.                                                             *)

\* The inductive invariant: a new id is above every id in the FIFO, which is
\* therefore ascending, and evictions find what is cached.
MemoryInv == pushes \in Nat /\ CacheOK(payload_cache, pushes)

\* The cache starts empty.  (payload_cache.rs:30-39)
LEMMA MemoryInitInv == MemoryInit => MemoryInv
<1> SUFFICES ASSUME MemoryInit PROVE MemoryInv
  OBVIOUS
<1>1. pushes = 0 /\ payload_cache = EmptyCache
  BY DEF MemoryInit, Init
<1>2. CacheOK(EmptyCache, 0)
  BY EmptyCacheOK
<1> QED
  BY <1>1, <1>2 DEF MemoryInv

\* insert, remove and clear keep the invariant.  (payload_cache.rs:55-91)
LEMMA MemoryStep == MemoryInv /\ [MemoryNext]_memory => MemoryInv'
<1> SUFFICES ASSUME MemoryInv, [MemoryNext]_memory PROVE MemoryInv'
  OBVIOUS
<1>0. pushes \in Nat /\ CacheOK(payload_cache, pushes)
  BY DEF MemoryInv
<1>1. ASSUME NEW p \in Priorities, MemoryPush(p) PROVE MemoryInv'
  <2>1. pushes' = pushes + 1 /\ payload_cache' = CacheInsert(payload_cache, pushes, p)
    BY <1>1 DEF MemoryPush, Push
  <2>2. p \in Nat
    BY PrioritiesAssumption
  <2>3. CacheOK(CacheInsert(payload_cache, pushes, p), pushes + 1)
    BY <1>0, <2>2, InsertIs
  <2> QED
    BY <1>0, <2>1, <2>3 DEF MemoryInv
<1>2. ASSUME NEW id \in leased, MemoryAck(id) PROVE MemoryInv'
  <2>1. pushes' = pushes /\ payload_cache' = CacheRemove(payload_cache, id)
    BY <1>2 DEF MemoryAck, vars
  <2>2. CacheOK(CacheRemove(payload_cache, id), pushes)
    BY <1>0, CacheKept
  <2> QED
    BY <1>0, <2>1, <2>2 DEF MemoryInv
<1>3. CASE ClearCache
  <2>1. pushes' = pushes /\ payload_cache' = EmptyCache
    BY <1>3 DEF ClearCache, vars
  <2> QED
    BY <1>0, <2>1, EmptyCacheOK DEF MemoryInv
<1>4. CASE MemoryPop \/ MemoryPopNone \/ ClearQueue \/ UNCHANGED memory
  <2>1. pushes' = pushes /\ payload_cache' = payload_cache
    BY ZenonT(30), <1>4 DEF MemoryPop, MemoryPopNone, ClearQueue, Pop, PopNone, Clear, memory
  <2> QED
    BY <1>0, <2>1 DEF MemoryInv
<1> QED
  BY <1>1, <1>2, <1>3, <1>4 DEF MemoryNext

\* The cache is sound in every state of the two containers.
LEMMA MemoryInductive == MemorySpec => []MemoryInv
  BY MemoryInitInv, MemoryStep, PTL DEF MemorySpec

\* The cache adds nothing to what the queue does: the theorems about the queue hold
\* of the two containers together.
LEMMA MemoryIsQueue == MemorySpec => Spec
<1>1. MemoryInit => Init
  BY DEF MemoryInit
<1>2. [MemoryNext]_memory => [Next]_vars
  BY DEF MemoryNext, MemoryPush, MemoryPop, MemoryPopNone, MemoryAck, ClearQueue,
         ClearCache, memory, Next, vars
<1> QED
  BY <1>1, <1>2, PTL DEF MemorySpec, Spec

(* The payload cache stays within its capacity, and its FIFO within twice   *)
(* the capacity (payload_cache.rs:55-80), for any capacity and any number   *)
(* of pushes.                                                               *)
THEOREM CacheStaysBounded == MemorySpec => []CacheBounded
<1>1. MemoryInv => CacheBounded
  BY DEF MemoryInv, CacheOK, CacheBounded
<1> QED
  BY <1>1, MemoryInductive, PTL

\* The ids cached, oldest first: what the abstract cache holds.
Kept(c) == Retained(c.order, DOMAIN c.entries)

\* What the cache keeps, in order of insertion, lists the cached ids.
LEMMA KeptIs ==
  ASSUME NEW n \in Nat, NEW c, CacheOK(c, n)
  PROVE  /\ Kept(c) \in Seq(Nat) /\ Ascending(Kept(c))
         /\ Elements(Kept(c)) = DOMAIN c.entries
         /\ Len(Kept(c)) = Cardinality(DOMAIN c.entries)
<1>1. /\ Kept(c) \in Seq(Nat) /\ Ascending(Kept(c))
      /\ Elements(Kept(c)) = Elements(c.order) \cap DOMAIN c.entries
  BY RetainedIs DEF CacheOK, Kept
<1>2. Elements(Kept(c)) = DOMAIN c.entries
  BY <1>1 DEF CacheOK
<1> QED
  BY <1>1, <1>2, AscendingLen

\* An insertion is one of the abstract cache.  (payload_cache.rs:55-80)
LEMMA KeptInsert ==
  ASSUME NEW n \in Nat, NEW c, CacheOK(c, n), NEW d \in Nat
  PROVE  LET r == CacheInsert(c, n, d)
         IN  \/ Kept(r) = Kept(c)
             \/ /\ n \in Elements(Kept(r)) \ Elements(Kept(c))
                /\ Kept(r) = IF Len(Kept(c)) = CacheCapacity THEN Append(Tail(Kept(c)), n)
                             ELSE Append(Kept(c), n)
<1> DEFINE r == CacheInsert(c, n, d)
           live == DOMAIN c.entries
           k == Kept(c)
<1>1. /\ k \in Seq(Nat) /\ Ascending(k) /\ Elements(k) = live
      /\ Len(k) = Cardinality(live)
  BY KeptIs
<1>2. live \subseteq Nat /\ n \notin live /\ \A x \in live : x < n
  BY LiveIds
<1>3. CacheOK(r, n + 1)
  BY InsertIs
<1>4. Kept(r) \in Seq(Nat) /\ Ascending(Kept(r)) /\ Elements(Kept(r)) = DOMAIN r.entries
  <2>1. n + 1 \in Nat
    OBVIOUS
  <2> QED
    BY <1>3, <2>1, KeptIs
<1>5. \/ CacheCapacity = 0 /\ r = c
      \/ /\ CacheCapacity # 0 /\ Cardinality(live) # CacheCapacity
         /\ DOMAIN r.entries = live \cup {n}
      \/ /\ CacheCapacity # 0 /\ Cardinality(live) = CacheCapacity
         /\ \E m \in live : /\ \A x \in live : m <= x
                           /\ DOMAIN r.entries = (live \ {m}) \cup {n}
  BY SMTT(30), InsertIs
<1> HIDE DEF r, k
<1>6. CASE r = c
  BY <1>6 DEF r, k
<1>7. CASE Cardinality(live) # CacheCapacity /\ DOMAIN r.entries = live \cup {n}
  <2>1. /\ Append(k, n) \in Seq(Nat) /\ Ascending(Append(k, n))
        /\ Elements(Append(k, n)) = live \cup {n}
    BY <1>1, <1>2, AscendingAppend
  <2>2. Kept(r) = Append(k, n)
    BY <2>1, <1>4, <1>7, SameElements
  <2>3. n \in Elements(Kept(r)) \ Elements(k)
    BY <1>1, <1>2, <1>4, <1>7
  <2> QED
    BY <2>2, <2>3, <1>1, <1>7 DEF r, k
<1>8. ASSUME Cardinality(live) = CacheCapacity, CacheCapacity # 0, NEW m \in live,
             \A x \in live : m <= x, DOMAIN r.entries = (live \ {m}) \cup {n}
      PROVE  /\ n \in Elements(Kept(r)) \ Elements(k)
             /\ Kept(r) = Append(Tail(k), n)
  <2>1. k # <<>>
    BY <1>1, <1>8
  <2>2. /\ Tail(k) \in Seq(Nat) /\ Ascending(Tail(k)) /\ Elements(Tail(k)) = live \ {k[1]}
        /\ k[1] \in live /\ \A x \in live : k[1] <= x
    BY <1>1, <2>1, AscendingTail
  <2>3. k[1] = m
    <3>1. k[1] <= m /\ m <= k[1] /\ m \in Nat /\ k[1] \in Nat
      BY <2>2, <1>2, <1>8
    <3> QED
      BY <3>1
  <2>4. /\ Append(Tail(k), n) \in Seq(Nat) /\ Ascending(Append(Tail(k), n))
        /\ Elements(Append(Tail(k), n)) = (live \ {m}) \cup {n}
    BY <2>2, <2>3, <1>2, AscendingAppend
  <2>5. Kept(r) = Append(Tail(k), n)
    BY <2>4, <1>4, <1>8, SameElements
  <2>6. n \in Elements(Kept(r)) \ Elements(k)
    BY <1>1, <1>2, <1>4, <1>8
  <2> QED
    BY <2>5, <2>6
<1>9. CASE CacheCapacity # 0 /\ Cardinality(live) = CacheCapacity
         /\ \E m \in live : /\ \A x \in live : m <= x
                           /\ DOMAIN r.entries = (live \ {m}) \cup {n}
  <2>1. n \in Elements(Kept(r)) \ Elements(k) /\ Kept(r) = Append(Tail(k), n)
    BY Zenon, <1>8, <1>9
  <2> QED
    BY <2>1, <1>1, <1>9 DEF r, k
<1> QED
  BY ZenonT(30), <1>5, <1>6, <1>7, <1>9 DEF r

\* A removal takes out one id or none; after a clear none is left.
\* (payload_cache.rs:83-91)
LEMMA KeptRemove ==
  ASSUME NEW n \in Nat, NEW c, CacheOK(c, n), NEW id
  PROVE  \/ Kept(CacheRemove(c, id)) = Kept(c)
         \/ \E i \in DOMAIN Kept(c) : Kept(CacheRemove(c, id)) = Without(Kept(c), i)
<1> DEFINE r == CacheRemove(c, id)
           k == Kept(c)
<1>1. k \in Seq(Nat) /\ Ascending(k) /\ Elements(k) = DOMAIN c.entries
  BY KeptIs
<1>2. CacheOK(r, n) /\ DOMAIN r.entries = DOMAIN c.entries \ {id}
  BY CacheKept
<1>3. Kept(r) \in Seq(Nat) /\ Ascending(Kept(r)) /\ Elements(Kept(r)) = DOMAIN c.entries \ {id}
  BY <1>2, KeptIs
<1> HIDE DEF r, k
<1>4. CASE id \notin DOMAIN c.entries
  <2>1. Elements(Kept(r)) = Elements(k)
    BY <1>1, <1>3, <1>4
  <2>2. Kept(r) = k
    BY <2>1, <1>1, <1>3, SameElements
  <2> QED
    BY <2>2 DEF r, k
<1>5. CASE id \in DOMAIN c.entries
  <2>1. PICK i \in DOMAIN k : id = k[i]
    BY <1>1, <1>5 DEF Elements
  <2>2. /\ Without(k, i) \in Seq(Nat) /\ Ascending(Without(k, i))
        /\ Elements(Without(k, i)) = DOMAIN c.entries \ {id}
    BY <2>1, <1>1, AscendingWithout
  <2>3. Kept(r) = Without(k, i)
    BY <2>2, <1>3, SameElements
  <2> QED
    BY <2>1, <2>3 DEF r, k
<1> QED
  BY <1>4, <1>5

\* An empty cache keeps nothing.  (payload_cache.rs:30-39, 88-91)
LEMMA KeptEmpty == Kept(EmptyCache) = <<>>
<1>1. CacheOK(EmptyCache, 0) /\ 0 \in Nat
  BY EmptyCacheOK
<1>2. DOMAIN EmptyCache.entries = {}
  BY DEF EmptyCache, EmptyMap
<1>3. Kept(EmptyCache) \in Seq(Nat) /\ Len(Kept(EmptyCache)) = 0
  BY <1>1, <1>2, KeptIs, FS_EmptySet
<1> QED
  BY <1>3

\* Every step of the two containers is a step of the abstract cache or leaves it.
LEMMA CacheStep == MemoryInv /\ [MemoryNext]_memory => [Cache!Next]_(Kept(payload_cache))
<1> SUFFICES ASSUME MemoryInv, [MemoryNext]_memory PROVE [Cache!Next]_(Kept(payload_cache))
  OBVIOUS
<1> DEFINE k == Kept(payload_cache)
<1>0. pushes \in Nat /\ CacheOK(payload_cache, pushes)
  BY DEF MemoryInv
<1>1. ASSUME NEW p \in Priorities, MemoryPush(p) PROVE Cache!Insert \/ k' = k
  <2>1. payload_cache' = CacheInsert(payload_cache, pushes, p)
    BY <1>1 DEF MemoryPush
  <2>2. p \in Nat
    BY PrioritiesAssumption
  <2>3. \/ k' = k
        \/ /\ pushes \in Elements(k') \ Elements(k)
           /\ k' = IF Len(k) = CacheCapacity THEN Append(Tail(k), pushes) ELSE Append(k, pushes)
    BY <1>0, <2>1, <2>2, KeptInsert
  <2> QED
    BY <2>3 DEF Cache!Insert, Cache!Ids, Elements, Kept
<1>2. ASSUME NEW id \in leased, MemoryAck(id) PROVE Cache!RemoveOne \/ k' = k
  <2>1. payload_cache' = CacheRemove(payload_cache, id)
    BY <1>2 DEF MemoryAck
  <2>2. k' = k \/ \E i \in DOMAIN k : k' = Without(k, i)
    BY <1>0, <2>1, KeptRemove
  <2> QED
    BY <2>2 DEF Cache!RemoveOne, Without, Kept
<1>3. CASE ClearCache
  <2>1. payload_cache' = EmptyCache
    BY <1>3 DEF ClearCache
  <2>2. k' = <<>>
    BY <2>1, KeptEmpty
  <2>3. Cache!Clear
    BY <2>2 DEF Cache!Clear, Kept
  <2> QED
    BY <2>3 DEF Cache!Next
<1>4. CASE MemoryPop \/ MemoryPopNone \/ ClearQueue \/ UNCHANGED memory
  <2>1. payload_cache' = payload_cache
    BY <1>4 DEF MemoryPop, MemoryPopNone, ClearQueue, memory
  <2>2. k' = k
    BY <2>1
  <2> QED
    BY <2>2
<1> QED
  BY <1>1, <1>2, <1>3, <1>4 DEF MemoryNext, Cache!Next

(* The payload cache implements FifoCache: an insertion into a full cache   *)
(* evicts the oldest payload still cached, however many removed ids are in  *)
(* its way, and never the new one (payload_cache.rs:55-91).                 *)
THEOREM CacheIsFifo == MemorySpec => ImplementsFifoCache
<1>1. MemoryInit => Cache!Init
  <2> SUFFICES ASSUME MemoryInit PROVE Cache!Init
    OBVIOUS
  <2>1. payload_cache = EmptyCache
    BY DEF MemoryInit
  <2> QED
    BY <2>1, KeptEmpty DEF Cache!Init, Kept
<1> QED
  BY <1>1, CacheStep, MemoryInductive, PTL DEF MemorySpec, ImplementsFifoCache, Cache!Spec, Kept

=============================================================================
