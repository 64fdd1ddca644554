--------------------------- MODULE OperatorProofs ---------------------------
(***************************************************************************)
(* What the operators of the models do, for any contents: push and pop of  *)
(* a PriorityBucketQueue, the maps of the engine, the frames of a segment  *)
(* and what compaction writes, and the latest record of a task.            *)
(***************************************************************************)
EXTENDS BucketOps, Wal, WellFoundedInduction, FiniteSetTheorems, TLAPS

\* Every leaf is tried with Zenon first and, if that fails, with the SMT solver.
USE ZenonT(10), SMTT(30)

\* Facts of the extended modules that no proof below needs.
HIDE DEF NatInduction, DownwardNatInduction, GeneralNatInduction,
         SmallestNatural, RecursiveFcnOfNat, NatInductiveDef,
         RecursiveFcnOfNatType, NatInductiveDefType, RecursiveFcnOfNatUnique,
         NatInductiveUnique, FiniteNatInductiveDef,
         FiniteNatInductiveDefType, FiniteNatInductiveUnique,
         EmptyIsWellFounded, IsWellFoundedOnSubset,
         IsWellFoundedOnSubrelation, MinWF, WellFoundedIsIrreflexive,
         WellFoundedIsAsymmetric, WFSetLessThanIrreflexive,
         SetLessTransitive, WFInduction, WFDefOnUnique, WFInductiveDefLemma,
         TransitiveClosureThm, TransitiveClosureMinimal, TCTCTC, TCRTC,
         RTCTC, TransitiveClosureChopLast, TransitiveClosureWF,
         WFInductiveDef, WFInductiveDefType, PreImageWellFounded,
         WFLexPairOrdering, WFLexProductOrdering, FS_NatSurjection,
         FS_NatBijection, FS_CountingElements, FS_SurjCardinalityBound,
         FS_Bijection, FS_SameCardinalityBij,
         FS_SurjSameCardinalityImpliesInj, FS_Image, FS_Injection,
         FS_PigeonHole, FS_Singleton, FS_BoundedSetOfNaturals, FS_Induction,
         FS_FiniteSubsetsOfFinite, FS_StrictSubsetOrderingWellFounded,
         FS_WFInduction, FS_MajoritiesIntersect, FS_Intersection,
         FS_Difference, FS_UNION, FS_Product, FS_SUBSET, SetExtensionality,
         NoSetContainsEverything

-----------------------------------------------------------------------------
(* push and pop of a PriorityBucketQueue, for any set of priorities.       *)

\* Every nonempty set of naturals has a least element.
LEMMA NatMin ==
  ASSUME NEW T, T \subseteq Nat, T # {}
  PROVE  \E m \in T : \A k \in T : m <= k
<1>1. IsWellFoundedOn(OpToRel(<, Nat), Nat)
  BY NatLessThanWellFounded
<1>2. PICK m \in T : \A k \in T : ~(<<k, m>> \in OpToRel(<, Nat))
  BY <1>1, WFMin
<1>3. \A k \in T : ~(k < m)
  BY <1>2 DEF OpToRel
<1> QED
  BY SMTT(30), <1>3

\* A nonempty word of the bitmap has a highest bit.
LEMMA BitMax ==
  ASSUME NEW S \in SUBSET Bits, S # {}
  PROVE  \E m \in S : \A k \in S : k <= m
<1> DEFINE T == {63 - b : b \in S}
<1>1. T \subseteq Nat /\ T # {}
  <2>1. \A b \in S : b \in Int /\ b <= 63
    BY DEF Bits
  <2>2. \A b \in S : 63 - b \in Nat
    BY <2>1
  <2> QED
    BY <2>2
<1>2. PICK n \in T : \A k \in T : n <= k
  BY <1>1, NatMin
<1>3. PICK m \in S : n = 63 - m
  OBVIOUS
<1>4. \A k \in S : n <= 63 - k
  BY <1>2
<1> QED
  BY SMTT(30), <1>3, <1>4 DEF Bits

\* A priority is a word and a bit.
LEMMA WordAndBit ==
  ASSUME NEW p \in 0..255
  PROVE  /\ p \div 64 \in Words /\ p % 64 \in Bits /\ p = 64 * (p \div 64) + (p % 64)
  BY DEF Words, Bits

\* The word and the bit can be read off a priority.
LEMMA WordBitUnique ==
  ASSUME NEW w \in Words, NEW b \in Bits
  PROVE  (64 * w + b) \div 64 = w /\ (64 * w + b) % 64 = b
  BY DEF Words, Bits

(* A new queue is empty, and its bitmap says so.  (PriorityBucketQueue::new) *)
LEMMA EmptyQueueOK == EmptyQueue \in Queue /\ BitmapMatches(EmptyQueue)
<1>1. EmptyQueue \in Queue
  BY DEF EmptyQueue, Queue
<1>2. \A p \in Priorities : p \div 64 \in Words
  BY SMTT(30), WordAndBit, PrioritiesAssumption
<1> QED
  BY <1>1, <1>2 DEF EmptyQueue, BitmapMatches

(* push keeps the bitmap exact.  (priority_queue.rs:38-43)                   *)
LEMMA PushOK ==
  ASSUME NEW q \in Queue, BitmapMatches(q), NEW t \in TaskRef
  PROVE  QueuePush(q, t) \in Queue /\ BitmapMatches(QueuePush(q, t))
<1> DEFINE p == t.priority
           r == QueuePush(q, t)
<1>1. p \in Priorities /\ p \in 0..255 /\ p \div 64 \in Words /\ p % 64 \in Bits
  <2>1. p \in Priorities
    BY DEF TaskRef
  <2>2. p \in 0..255
    BY <2>1, PrioritiesAssumption
  <2> QED
    BY <2>1, <2>2, WordAndBit
<1>2. /\ r.buckets = [q.buckets EXCEPT ![p] = Append(@, t)]
      /\ r.bitmap = [q.bitmap EXCEPT ![p \div 64] = @ \cup {p % 64}]
      /\ r.len = q.len + 1
  BY DEF QueuePush
<1>3. r \in Queue
  <2>1. r.buckets \in [Priorities -> Seq(TaskRef)]
    BY SMTT(30), <1>1, <1>2 DEF Queue
  <2>2. r.bitmap \in [Words -> SUBSET Bits]
    BY SMTT(30), <1>1, <1>2 DEF Queue
  <2> QED
    BY SMTT(30), <2>1, <2>2 DEF QueuePush, Queue
<1>4. ASSUME NEW o \in Priorities
      PROVE  (o % 64) \in r.bitmap[o \div 64] <=> r.buckets[o] # <<>>
  <2>1. o \in 0..255 /\ o \div 64 \in Words /\ o % 64 \in Bits
    BY SMTT(30), WordAndBit, PrioritiesAssumption
  <2>2. CASE o = p
    <3>1. r.buckets[p] = Append(q.buckets[p], t) /\ q.buckets[p] \in Seq(TaskRef)
      BY <1>1, <1>2 DEF Queue
    <3>2. Append(q.buckets[p], t) # <<>>
      BY <3>1
    <3> QED
      BY SMTT(30), <3>1, <3>2, <1>1, <1>2, <2>2 DEF Queue
  <2>3. CASE o # p
    <3>1. o \div 64 # p \div 64 \/ o % 64 # p % 64
      BY SMTT(30), <2>3, <2>1, <1>1, WordAndBit
    <3>2. r.buckets[o] = q.buckets[o]
      BY <1>2, <2>3 DEF Queue
    <3>3. (o % 64) \in r.bitmap[o \div 64] <=> (o % 64) \in q.bitmap[o \div 64]
      BY SMTT(30), <3>1, <1>1, <1>2, <2>1 DEF Queue
    <3> QED
      BY <3>2, <3>3 DEF BitmapMatches
  <2> QED
    BY <2>2, <2>3
<1>5. ASSUME NEW w \in Words, NEW b \in r.bitmap[w]
      PROVE  64 * w + b \in Priorities
  <2>1. b \in q.bitmap[w] \/ (w = p \div 64 /\ b = p % 64)
    BY SMTT(30), <1>2, <1>1 DEF Queue
  <2>2. CASE b \in q.bitmap[w]
    BY <2>2 DEF BitmapMatches
  <2>3. CASE w = p \div 64 /\ b = p % 64
    BY SMTT(30), <2>3, <1>1, WordAndBit
  <2> QED
    BY <2>1, <2>2, <2>3
<1> QED
  BY <1>3, <1>4, <1>5 DEF BitmapMatches

(* The bitmap leads pop to the highest priority that has a task, and the      *)
(* bucket it finds there is not empty.  (priority_queue.rs:48-55)             *)
LEMMA TopOK ==
  ASSUME NEW q \in Queue, BitmapMatches(q), HasTask(q)
  PROVE  /\ TopWord(q) \in Words /\ TopBit(q) \in Bits /\ TopPriority(q) \in Priorities
         /\ TopBit(q) \in q.bitmap[TopWord(q)]
         /\ TopPriority(q) \div 64 = TopWord(q) /\ TopPriority(q) % 64 = TopBit(q)
         /\ q.buckets[TopPriority(q)] # <<>>
         /\ \A p \in Priorities : q.buckets[p] # <<>> => p <= TopPriority(q)
<1> DEFINE W == TopWord(q)
           B == TopBit(q)
<1>1. \E w \in Words : q.bitmap[w] # {} /\ \A v \in Words : v > w => q.bitmap[v] = {}
  BY SMTT(30) DEF HasTask, Words
<1>2. W \in Words /\ q.bitmap[W] # {} /\ \A v \in Words : v > W => q.bitmap[v] = {}
  BY <1>1 DEF TopWord
<1>3. q.bitmap[W] \in SUBSET Bits
  BY <1>2 DEF Queue
<1>4. B \in q.bitmap[W] /\ \A c \in q.bitmap[W] : c <= B
  BY <1>2, <1>3, BitMax DEF TopBit
<1>5. B \in Bits
  BY <1>3, <1>4
<1>6. TopPriority(q) = 64 * W + B /\ TopPriority(q) \in Priorities
  BY <1>2, <1>4 DEF TopPriority, BitmapMatches
<1>7. TopPriority(q) \div 64 = W /\ TopPriority(q) % 64 = B
  BY SMTT(30), <1>2, <1>5, <1>6, WordBitUnique
<1>8. q.buckets[TopPriority(q)] # <<>>
  BY SMTT(30), <1>4, <1>6, <1>7 DEF BitmapMatches
<1>9. ASSUME NEW p \in Priorities, q.buckets[p] # <<>>
      PROVE  p <= TopPriority(q)
  <2>1. p \in 0..255 /\ p \div 64 \in Words /\ p % 64 \in Bits
        /\ p = 64 * (p \div 64) + (p % 64)
    BY SMTT(30), WordAndBit, PrioritiesAssumption
  <2>2. (p % 64) \in q.bitmap[p \div 64]
    BY <1>9 DEF BitmapMatches
  <2>3. ~(p \div 64 > W)
    BY <2>1, <2>2, <1>2
  <2>4. p \div 64 = W => p % 64 <= B
    BY <2>2, <1>4
  <2> QED
    BY <2>1, <2>3, <2>4, <1>2, <1>5, <1>6 DEF Words, Bits
<1> QED
  BY <1>2, <1>4, <1>5, <1>6, <1>7, <1>8, <1>9

(* pop returns a task and keeps the bitmap exact: the bit goes with the last  *)
(* task of the bucket.  (priority_queue.rs:53-61)                             *)
LEMMA PopOK ==
  ASSUME NEW q \in Queue, BitmapMatches(q), HasTask(q)
  PROVE  /\ QueueFront(q) \in TaskRef
         /\ QueuePop(q) \in Queue /\ BitmapMatches(QueuePop(q))
<1> DEFINE P == TopPriority(q)
           W == TopWord(q)
           B == TopBit(q)
           rest == Tail(q.buckets[P])
           r == QueuePop(q)
<1>1. /\ W \in Words /\ B \in Bits /\ P \in Priorities
      /\ P \div 64 = W /\ P % 64 = B /\ q.buckets[P] # <<>> /\ P \in 0..255
  <2>1. /\ W \in Words /\ B \in Bits /\ P \in Priorities
        /\ P \div 64 = W /\ P % 64 = B /\ q.buckets[P] # <<>>
    BY TopOK
  <2>2. P \in 0..255
    BY <2>1, PrioritiesAssumption
  <2> QED
    BY <2>1, <2>2
<1>2. q.buckets[P] \in Seq(TaskRef) /\ rest \in Seq(TaskRef)
  BY SMTT(30), <1>1 DEF Queue
<1>3. QueueFront(q) \in TaskRef
  BY <1>1, <1>2 DEF QueueFront
<1>4. /\ r.buckets = [q.buckets EXCEPT ![P] = rest]
      /\ r.bitmap = IF rest = <<>> THEN [q.bitmap EXCEPT ![W] = @ \ {B}] ELSE q.bitmap
      /\ r.len = q.len - 1
  BY DEF QueuePop
<1>5. r \in Queue
  <2>1. r.buckets \in [Priorities -> Seq(TaskRef)]
    BY <1>1, <1>2, <1>4 DEF Queue
  <2>2. r.bitmap \in [Words -> SUBSET Bits]
    BY SMTT(30), <1>1, <1>4 DEF Queue
  <2> QED
    BY SMTT(30), <2>1, <2>2 DEF QueuePop, Queue
<1>6. ASSUME NEW o \in Priorities
      PROVE  (o % 64) \in r.bitmap[o \div 64] <=> r.buckets[o] # <<>>
  <2>1. o \in 0..255 /\ o \div 64 \in Words /\ o % 64 \in Bits
    BY SMTT(30), WordAndBit, PrioritiesAssumption
  <2>2. CASE o = P
    <3>1. r.buckets[P] = rest
      BY <1>1, <1>4 DEF Queue
    <3>2. B \in r.bitmap[W] <=> rest # <<>>
      BY ZenonT(30), <1>1, <1>4, TopOK DEF Queue
    <3> QED
      BY <3>1, <3>2, <1>1, <2>2
  <2>3. CASE o # P
    <3>1. o \div 64 # W \/ o % 64 # B
      BY ZenonT(30), <2>3, <2>1, <1>1, WordAndBit
    <3>2. r.buckets[o] = q.buckets[o]
      BY <1>4, <2>3 DEF Queue
    <3>3. (o % 64) \in r.bitmap[o \div 64] <=> (o % 64) \in q.bitmap[o \div 64]
      BY SMTT(30), <3>1, <1>1, <1>4, <2>1 DEF Queue
    <3> QED
      BY <3>2, <3>3 DEF BitmapMatches
  <2> QED
    BY <2>2, <2>3
<1>7. ASSUME NEW w \in Words, NEW b \in r.bitmap[w]
      PROVE  64 * w + b \in Priorities
  <2>1. b \in q.bitmap[w]
    BY SMTT(30), <1>4, <1>1 DEF Queue
  <2> QED
    BY <2>1 DEF BitmapMatches
<1> QED
  BY <1>3, <1>5, <1>6, <1>7 DEF BitmapMatches

\* The tasks of a queue are the elements of its buckets.
LEMMA QueuedDef ==
  ASSUME NEW q, NEW x
  PROVE  x \in Queued(q) <=> \E p \in Priorities : \E i \in DOMAIN q.buckets[p] :
                                x = q.buckets[p][i]
  BY SMTT(30) DEF Queued

\* Where the elements of a queue are after a push.
LEMMA AppendElements ==
  ASSUME NEW S, NEW s \in Seq(S), NEW t \in S
  PROVE  /\ DOMAIN Append(s, t) = 1..(Len(s) + 1)
         /\ DOMAIN s = 1..Len(s) /\ Len(s) \in Nat
         /\ \A i \in 1..Len(s) : Append(s, t)[i] = s[i]
         /\ Append(s, t)[Len(s) + 1] = t
  OBVIOUS

\* A sequence is an append if it has the same elements.
LEMMA AppendIs ==
  ASSUME NEW S, NEW s \in Seq(S), NEW x \in S, NEW t \in [1..(Len(s) + 1) -> S],
         t[Len(s) + 1] = x, \A n \in 1..Len(s) : t[n] = s[n]
  PROVE  t = Append(s, x)
<1> DEFINE a == Append(s, x)
<1>0. a \in Seq(S) /\ Len(a) = Len(s) + 1 /\ Len(s) \in Nat
  OBVIOUS
<1>2. /\ \A i \in 1..Len(s) : a[i] = s[i]
      /\ a[Len(s) + 1] = x
  BY SMTT(30), AppendElements
<1> HIDE DEF a
<1>1. a \in [1..(Len(s) + 1) -> S] /\ Len(s) \in Nat
  <2>1. a \in [1..Len(a) -> S]
    BY SMTT(30), <1>0
  <2> QED
    BY <2>1, <1>0
<1>3. \A n \in 1..(Len(s) + 1) : a[n] = t[n]
  <2>1. \A n \in 1..(Len(s) + 1) : n \in 1..Len(s) \/ n = Len(s) + 1
    BY <1>1
  <2> QED
    BY <1>2, <2>1
<1>4. a = t
  BY <1>1, <1>3
<1> QED
  BY <1>4 DEF a

\* Where the elements of a queue are after a pop.
LEMMA TailElements ==
  ASSUME NEW S, NEW s \in Seq(S), s # <<>>
  PROVE  /\ Len(s) \in Nat /\ Len(s) >= 1
         /\ DOMAIN s = 1..Len(s) /\ DOMAIN Tail(s) = 1..(Len(s) - 1)
         /\ Head(s) = s[1]
         /\ \A i \in 1..(Len(s) - 1) : Tail(s)[i] = s[i + 1]
  OBVIOUS

(* What push does to the buckets.  (priority_queue.rs:38-43)                 *)
LEMMA PushBuckets ==
  ASSUME NEW q \in Queue, NEW t \in TaskRef
  PROVE  LET P == t.priority
             r == QueuePush(q, t)
             k == Len(q.buckets[P])
         IN  /\ P \in Priorities /\ k \in Nat /\ r.len = q.len + 1
             /\ DOMAIN q.buckets[P] = 1..k /\ DOMAIN r.buckets[P] = 1..(k + 1)
             /\ \A i \in 1..k : r.buckets[P][i] = q.buckets[P][i]
             /\ r.buckets[P][k + 1] = t
             /\ \A p \in Priorities \ {P} : r.buckets[p] = q.buckets[p]
<1> DEFINE P == t.priority
           r == QueuePush(q, t)
<1>1. P \in Priorities /\ q.buckets[P] \in Seq(TaskRef)
  BY DEF TaskRef, Queue
<1>2. /\ r.buckets[P] = Append(q.buckets[P], t) /\ r.len = q.len + 1
      /\ \A p \in Priorities \ {P} : r.buckets[p] = q.buckets[p]
  BY <1>1 DEF QueuePush, Queue
<1> QED
  BY SMTT(30), <1>1, <1>2, AppendElements

(* What pop does to the buckets.  (priority_queue.rs:53-71)                  *)
LEMMA PopBuckets ==
  ASSUME NEW q \in Queue, BitmapMatches(q), HasTask(q)
  PROVE  LET P == TopPriority(q)
             r == QueuePop(q)
             k == Len(q.buckets[P])
         IN  /\ P \in Priorities /\ k \in Nat /\ k >= 1 /\ r.len = q.len - 1
             /\ DOMAIN q.buckets[P] = 1..k /\ DOMAIN r.buckets[P] = 1..(k - 1)
             /\ QueueFront(q) = q.buckets[P][1]
             /\ \A i \in 1..(k - 1) : r.buckets[P][i] = q.buckets[P][i + 1]
             /\ \A p \in Priorities \ {P} : r.buckets[p] = q.buckets[p]
<1> DEFINE P == TopPriority(q)
           r == QueuePop(q)
           s == q.buckets[P]
<1>1. P \in Priorities /\ s \in Seq(TaskRef) /\ s # <<>>
  BY TopOK DEF Queue
<1>2. /\ r.buckets[P] = Tail(s) /\ r.len = q.len - 1
      /\ \A p \in Priorities \ {P} : r.buckets[p] = q.buckets[p]
  BY <1>1 DEF QueuePop, Queue
<1>3. QueueFront(q) = Head(s)
  BY DEF QueueFront
<1> QED
  BY SMTT(30), <1>1, <1>2, <1>3, TailElements

\* push adds its task and nothing else.
LEMMA QueuedPush ==
  ASSUME NEW q \in Queue, NEW t \in TaskRef
  PROVE  Queued(QueuePush(q, t)) = Queued(q) \cup {t}
<1> DEFINE P == t.priority
           r == QueuePush(q, t)
           k == Len(q.buckets[P])
<1>1. /\ P \in Priorities /\ k \in Nat
      /\ DOMAIN q.buckets[P] = 1..k /\ DOMAIN r.buckets[P] = 1..(k + 1)
      /\ \A i \in 1..k : r.buckets[P][i] = q.buckets[P][i]
      /\ r.buckets[P][k + 1] = t
      /\ \A p \in Priorities \ {P} : r.buckets[p] = q.buckets[p]
  BY SMTT(30), PushBuckets
<1> HIDE DEF r, P, k
<1>2. ASSUME NEW x \in Queued(r) PROVE x \in Queued(q) \cup {t}
  <2>1. PICK p \in Priorities : \E i \in DOMAIN r.buckets[p] : x = r.buckets[p][i]
    BY SMTT(30), <1>2, QueuedDef
  <2>2. PICK i \in DOMAIN r.buckets[p] : x = r.buckets[p][i]
    BY <2>1
  <2>3. CASE p # P
    BY <2>2, <2>3, <1>1, QueuedDef
  <2>4. CASE p = P
    <3>1. i \in DOMAIN q.buckets[P] \/ i = k + 1
      BY SMTT(30), <2>2, <2>4, <1>1
    <3> QED
      BY <3>1, <2>2, <2>4, <1>1, QueuedDef
  <2> QED
    BY <2>3, <2>4
<1>3. ASSUME NEW x \in Queued(q) PROVE x \in Queued(r)
  <2>1. PICK p \in Priorities : \E i \in DOMAIN q.buckets[p] : x = q.buckets[p][i]
    BY SMTT(30), <1>3, QueuedDef
  <2>2. PICK i \in DOMAIN q.buckets[p] : x = q.buckets[p][i]
    BY <2>1
  <2>3. CASE p # P
    BY <2>2, <2>3, <1>1, QueuedDef
  <2>4. CASE p = P
    <3>1. i \in DOMAIN r.buckets[P] /\ r.buckets[P][i] = q.buckets[P][i]
      BY SMTT(30), <2>2, <2>4, <1>1
    <3> QED
      BY <3>1, <2>2, <2>4, QueuedDef
  <2> QED
    BY <2>3, <2>4
<1>4. t \in Queued(r)
  <2>1. k + 1 \in DOMAIN r.buckets[P]
    BY SMTT(30), <1>1
  <2> QED
    BY <2>1, <1>1, QueuedDef
<1> QED
  BY <1>2, <1>3, <1>4 DEF r

(* pop returns a task that was waiting, adds none and leaves the others.     *)
(* (priority_queue.rs:53)                                                    *)
LEMMA PopTakes ==
  ASSUME NEW q \in Queue, BitmapMatches(q), HasTask(q)
  PROVE  /\ QueueFront(q) \in Queued(q) /\ Queued(QueuePop(q)) \subseteq Queued(q)
         /\ Queued(q) \subseteq Queued(QueuePop(q)) \cup {QueueFront(q)}
<1> DEFINE P == TopPriority(q)
           r == QueuePop(q)
           k == Len(q.buckets[P])
<1>1. /\ P \in Priorities /\ k \in Nat /\ k >= 1
      /\ DOMAIN q.buckets[P] = 1..k /\ DOMAIN r.buckets[P] = 1..(k - 1)
      /\ QueueFront(q) = q.buckets[P][1]
      /\ \A i \in 1..(k - 1) : r.buckets[P][i] = q.buckets[P][i + 1]
      /\ \A p \in Priorities \ {P} : r.buckets[p] = q.buckets[p]
  BY PopBuckets
<1> HIDE DEF P, r, k
<1>2. QueueFront(q) \in Queued(q)
  <2>1. 1 \in DOMAIN q.buckets[P]
    BY SMTT(30), <1>1
  <2> QED
    BY <2>1, <1>1, QueuedDef
<1>3. ASSUME NEW x \in Queued(r) PROVE x \in Queued(q)
  <2>1. PICK p \in Priorities : \E i \in DOMAIN r.buckets[p] : x = r.buckets[p][i]
    BY SMTT(30), <1>3, QueuedDef
  <2>2. PICK i \in DOMAIN r.buckets[p] : x = r.buckets[p][i]
    BY <2>1
  <2>3. CASE p # P
    BY <2>2, <2>3, <1>1, QueuedDef
  <2>4. CASE p = P
    <3>1. i + 1 \in DOMAIN q.buckets[P] /\ x = q.buckets[P][i + 1]
      BY SMTT(30), <2>2, <2>4, <1>1
    <3> QED
      BY <3>1, <1>1, QueuedDef
  <2> QED
    BY <2>3, <2>4
<1>4. ASSUME NEW x \in Queued(q) PROVE x \in Queued(r) \cup {QueueFront(q)}
  <2>1. PICK p \in Priorities : \E i \in DOMAIN q.buckets[p] : x = q.buckets[p][i]
    BY SMTT(30), <1>4, QueuedDef
  <2>2. PICK i \in DOMAIN q.buckets[p] : x = q.buckets[p][i]
    BY <2>1
  <2>3. CASE p # P
    BY <2>2, <2>3, <1>1, QueuedDef
  <2>4. CASE p = P /\ i # 1
    <3>1. i - 1 \in DOMAIN r.buckets[P] /\ x = r.buckets[P][i - 1]
      BY SMTT(30), <2>2, <2>4, <1>1
    <3> QED
      BY <3>1, <1>1, QueuedDef
  <2> QED
    BY <2>2, <2>3, <2>4, <1>1
<1> QED
  BY <1>2, <1>3, <1>4 DEF r

(* A new queue holds no task.                                                *)
LEMMA EmptyHasNone == Queued(EmptyQueue) = {}
<1>1. \A p \in Priorities : EmptyQueue.buckets[p] = <<>>
  BY DEF EmptyQueue
<1>2. DOMAIN <<>> = {}
  OBVIOUS
<1> QED
  BY <1>1, <1>2, QueuedDef

HIDE DEF BitMax, WordAndBit, WordBitUnique, EmptyQueueOK, PushOK, TopOK,
         PopOK, AppendElements, AppendIs, TailElements

-----------------------------------------------------------------------------
(* The length of a queue whose tasks have different ids.                   *)

\* No task waits twice.
Distinct(q) ==
  \A p, r \in Priorities : \A i \in DOMAIN q.buckets[p], j \in DOMAIN q.buckets[r] :
    q.buckets[p][i].id = q.buckets[r][j].id => p = r /\ i = j

IdsOf(q) == {t.id : t \in Queued(q)}

\* No task waits twice, and len counts the tasks.
Counted(q) == Distinct(q) /\ IsFiniteSet(IdsOf(q)) /\ q.len = Cardinality(IdsOf(q))

(* A new queue counts no task.                                               *)
LEMMA CountedEmpty == Counted(EmptyQueue)
<1>1. \A p \in Priorities : EmptyQueue.buckets[p] = <<>>
  BY DEF EmptyQueue
<1>2. DOMAIN <<>> = {}
  OBVIOUS
<1>3. Distinct(EmptyQueue)
  BY <1>1, <1>2 DEF Distinct
<1>4. IdsOf(EmptyQueue) = {} /\ EmptyQueue.len = 0
  BY EmptyHasNone DEF IdsOf, EmptyQueue
<1> QED
  BY <1>3, <1>4, FS_EmptySet DEF Counted

(* Pushing a task that does not wait yet.                                    *)
LEMMA CountedPush ==
  ASSUME NEW q \in Queue, Counted(q), NEW t \in TaskRef, t.id \notin IdsOf(q)
  PROVE  Counted(QueuePush(q, t))
<1> DEFINE P == t.priority
           r == QueuePush(q, t)
           k == Len(q.buckets[P])
<1>1. /\ P \in Priorities /\ k \in Nat /\ r.len = q.len + 1
      /\ DOMAIN q.buckets[P] = 1..k /\ DOMAIN r.buckets[P] = 1..(k + 1)
      /\ \A i \in 1..k : r.buckets[P][i] = q.buckets[P][i]
      /\ r.buckets[P][k + 1] = t
      /\ \A p \in Priorities \ {P} : r.buckets[p] = q.buckets[p]
  BY PushBuckets
<1>2. IdsOf(r) = IdsOf(q) \cup {t.id}
  BY SMTT(30), QueuedPush DEF IdsOf
<1> HIDE DEF r, P, k
<1>3. \A p \in Priorities : \A i \in DOMAIN q.buckets[p] : q.buckets[p][i].id # t.id
  BY QueuedDef DEF IdsOf
<1>4. \A p \in Priorities : \A i \in DOMAIN r.buckets[p] :
        \/ i \in DOMAIN q.buckets[p] /\ r.buckets[p][i] = q.buckets[p][i]
        \/ p = P /\ i = k + 1 /\ r.buckets[p][i] = t
  <2> SUFFICES ASSUME NEW p \in Priorities, NEW i \in DOMAIN r.buckets[p]
               PROVE  \/ i \in DOMAIN q.buckets[p] /\ r.buckets[p][i] = q.buckets[p][i]
                      \/ p = P /\ i = k + 1 /\ r.buckets[p][i] = t
    OBVIOUS
  <2>1. CASE p = P
    <3>1. i \in 1..k \/ i = k + 1
      BY SMTT(30), <2>1, <1>1
    <3> QED
      BY <3>1, <2>1, <1>1
  <2>2. CASE p # P
    BY <2>2, <1>1
  <2> QED
    BY <2>1, <2>2
<1>5. Distinct(r)
  <2> SUFFICES ASSUME NEW p \in Priorities, NEW u \in Priorities, NEW i \in DOMAIN r.buckets[p],
                      NEW j \in DOMAIN r.buckets[u], r.buckets[p][i].id = r.buckets[u][j].id
               PROVE  p = u /\ i = j
    BY DEF Distinct
  <2> QED
    BY SMTT(30), <1>3, <1>4 DEF Counted, Distinct
<1>6. IsFiniteSet(IdsOf(r)) /\ Cardinality(IdsOf(r)) = Cardinality(IdsOf(q)) + 1
  <2>1. IsFiniteSet(IdsOf(q))
    BY DEF Counted
  <2> QED
    BY <2>1, <1>2, FS_AddElement
<1> QED
  BY <1>1, <1>5, <1>6 DEF Counted, r

(* Popping takes the task out, which does not wait twice.                    *)
LEMMA CountedPop ==
  ASSUME NEW q \in Queue, BitmapMatches(q), HasTask(q), Counted(q)
  PROVE  /\ Counted(QueuePop(q))
         /\ \A t \in Queued(QueuePop(q)) : t.id # QueueFront(q).id
         /\ IdsOf(QueuePop(q)) = IdsOf(q) \ {QueueFront(q).id}
<1> DEFINE P == TopPriority(q)
           r == QueuePop(q)
           k == Len(q.buckets[P])
           f == QueueFront(q)
<1>1. /\ P \in Priorities /\ k \in Nat /\ k >= 1 /\ r.len = q.len - 1
      /\ DOMAIN q.buckets[P] = 1..k /\ DOMAIN r.buckets[P] = 1..(k - 1)
      /\ f = q.buckets[P][1]
      /\ \A i \in 1..(k - 1) : r.buckets[P][i] = q.buckets[P][i + 1]
      /\ \A p \in Priorities \ {P} : r.buckets[p] = q.buckets[p]
  BY PopBuckets
<1>2. f \in Queued(q) /\ Queued(r) \subseteq Queued(q) /\ Queued(q) \subseteq Queued(r) \cup {f}
  BY PopTakes
<1> HIDE DEF P, r, k, f
<1>3. ASSUME NEW p \in Priorities, NEW i \in DOMAIN r.buckets[p]
      PROVE  \E a \in DOMAIN q.buckets[p] : /\ r.buckets[p][i] = q.buckets[p][a]
                                            /\ IF p = P THEN i \in Int /\ a = i + 1 /\ a # 1 ELSE a = i
  <2>1. CASE p = P
    <3>1. /\ i \in Int /\ i + 1 \in DOMAIN q.buckets[P] /\ i + 1 # 1
          /\ r.buckets[P][i] = q.buckets[P][i + 1]
      BY <2>1, <1>1
    <3> QED
      BY <3>1, <2>1
  <2>2. CASE p # P
    BY <2>2, <1>1
  <2> QED
    BY <2>1, <2>2
<1>4. Distinct(r)
  <2> SUFFICES ASSUME NEW p \in Priorities, NEW u \in Priorities, NEW i \in DOMAIN r.buckets[p],
                      NEW j \in DOMAIN r.buckets[u], r.buckets[p][i].id = r.buckets[u][j].id
               PROVE  p = u /\ i = j
    BY DEF Distinct
  <2>1. PICK a \in DOMAIN q.buckets[p] : /\ r.buckets[p][i] = q.buckets[p][a]
                                         /\ IF p = P THEN i \in Int /\ a = i + 1 /\ a # 1 ELSE a = i
    BY <1>3
  <2>2. PICK b \in DOMAIN q.buckets[u] : /\ r.buckets[u][j] = q.buckets[u][b]
                                         /\ IF u = P THEN j \in Int /\ b = j + 1 /\ b # 1 ELSE b = j
    BY <1>3
  <2>3. p = u /\ a = b
    BY SMTT(30), <2>1, <2>2 DEF Counted, Distinct
  <2> QED
    BY <2>1, <2>2, <2>3
<1>5. ASSUME NEW t \in Queued(r) PROVE t.id # f.id
  <2>1. PICK p \in Priorities : \E i \in DOMAIN r.buckets[p] : t = r.buckets[p][i]
    BY SMTT(30), <1>5, QueuedDef
  <2>2. PICK i \in DOMAIN r.buckets[p] : t = r.buckets[p][i]
    BY <2>1
  <2>3. 1 \in DOMAIN q.buckets[P]
    BY SMTT(30), <1>1
  <2>4. PICK a \in DOMAIN q.buckets[p] : /\ r.buckets[p][i] = q.buckets[p][a]
                                         /\ IF p = P THEN i \in Int /\ a = i + 1 /\ a # 1 ELSE a = i
    BY <1>3
  <2> QED
    BY SMTT(30), <2>2, <2>3, <2>4, <1>1 DEF Counted, Distinct
<1>6. IdsOf(r) = IdsOf(q) \ {f.id} /\ f.id \in IdsOf(q)
  BY <1>2, <1>5 DEF IdsOf
<1>7. IsFiniteSet(IdsOf(r)) /\ Cardinality(IdsOf(r)) = Cardinality(IdsOf(q)) - 1
  <2>1. IsFiniteSet(IdsOf(q))
    BY DEF Counted
  <2> QED
    BY <2>1, <1>6, FS_RemoveElement
<1> QED
  BY <1>1, <1>4, <1>5, <1>6, <1>7 DEF Counted, r, f

HIDE DEF CountedEmpty, CountedPush, CountedPop

-----------------------------------------------------------------------------
(* What the log and the maps of the engine are made of: the last record of *)
(* a task, the places of the frames of a segment, and what compaction      *)
(* writes.                                                                 *)

\* A cache as the engine's type invariant knows it.
IsCache(c) == /\ c = [entries |-> c.entries, order |-> c.order]
              /\ c.entries \in [DOMAIN c.entries -> Nat]

(* insert, remove and clear keep a cache a cache.  (payload_cache.rs:55-91) *)
LEMMA CacheType ==
  ASSUME NEW c, IsCache(c), NEW id, NEW d \in Nat
  PROVE  IsCache(EmptyCache) /\ IsCache(CacheRemove(c, id)) /\ IsCache(CacheInsert(c, id, d))
<1>1. IsCache(EmptyCache)
  BY DEF IsCache, EmptyCache, EmptyMap
<1>2. ASSUME NEW b, IsCache(b), NEW k PROVE IsCache([entries |-> Drop(b.entries, k), order |-> b.order])
                                         /\ Drop(b.entries, k) \in [DOMAIN Drop(b.entries, k) -> Nat]
  BY <1>2 DEF IsCache, Drop
<1>3. IsCache(CacheRemove(c, id))
  <2>1. CacheRemove(c, id) = [entries |-> Drop(c.entries, id), order |-> c.order]
    BY DEF CacheRemove, IsCache
  <2> QED
    BY <2>1, <1>2
<1>4. ASSUME NEW b, IsCache(b) PROVE IsCache(Evicted(b)) /\ IsCache(Tidied(b))
  <2>1. IsCache(Tidied(b))
    <3>1. ASSUME NEW o PROVE IsCache([b EXCEPT !.order = o])
      BY <1>4 DEF IsCache
    <3> QED
      BY <3>1, <1>4 DEF Tidied
  <2>2. IsCache(Evicted(b))
    <3>1. IsCache([b EXCEPT !.order = <<>>])
      BY <1>4 DEF IsCache
    <3>2. ASSUME NEW k, NEW o PROVE IsCache([entries |-> Drop(b.entries, k), order |-> o])
      BY <1>4, <1>2 DEF IsCache
    <3> QED
      BY <3>1, <3>2 DEF Evicted
  <2> QED
    BY <2>1, <2>2
<1>5. IsCache(CacheInsert(c, id, d))
  <2> DEFINE added == [entries |-> Put(c.entries, id, d),
                       order   |-> IF id \in DOMAIN c.entries THEN c.order ELSE Append(c.order, id)]
  <2>1. IsCache(added)
    BY DEF IsCache, Put
  <2>2. CacheInsert(c, id, d) = IF CacheCapacity = 0 THEN c
           ELSE Tidied(IF Cardinality(DOMAIN added.entries) > CacheCapacity
                       THEN Evicted(added) ELSE added)
    BY DEF CacheInsert
  <2> HIDE DEF added
  <2> QED
    BY <2>1, <2>2, <1>4
<1> QED
  BY <1>1, <1>3, <1>5

HIDE DEF CacheType

-----------------------------------------------------------------------------
\* Locations are totally ordered.
LEMMA LocOrder ==
  ASSUME NEW a \in Nat \X Nat, NEW b \in Nat \X Nat, NEW c \in Nat \X Nat
  PROVE  /\ ~LocLess(a, a)
         /\ LocLess(a, b) /\ LocLess(b, c) => LocLess(a, c)
         /\ LocLess(a, b) \/ LocLess(b, a) \/ a = b
  BY DEF LocLess

\* The fields of a frame in the log.
LEMMA LocType ==
  ASSUME NEW e \in Entry
  PROVE  Loc(e) \in Nat \X Nat /\ Loc(e)[1] = e.seg /\ Loc(e)[2] = e.off /\ e.frame \in Frame
         /\ e.seg \in Nat /\ e.off \in Nat
  BY DEF Loc, Entry

\* A finite nonempty set has a maximal element in a transitive, irreflexive
\* relation R: one with the fewest elements above it.
LEMMA MaximalExists ==
  ASSUME NEW L, NEW R, IsFiniteSet(L), L # {},
         \A e \in L : <<e, e>> \notin R,
         \A e, f, g \in L : <<e, f>> \in R /\ <<f, g>> \in R => <<e, g>> \in R
  PROVE  \E m \in L : \A f \in L : <<m, f>> \notin R
<1> DEFINE above(e) == {f \in L : <<e, f>> \in R}
           T == {Cardinality(above(e)) : e \in L}
<1>1. \A e \in L : IsFiniteSet(above(e)) /\ Cardinality(above(e)) \in Nat
  <2>1. \A e \in L : above(e) \in SUBSET L
    OBVIOUS
  <2> QED
    BY <2>1, FS_Subset, FS_CardinalityType
<1>2. T \subseteq Nat /\ T # {}
  <2> HIDE DEF above
  <2> QED
    BY SMTT(30), <1>1
<1>3. PICK n \in T : \A k \in T : n <= k
  BY <1>2, NatMin
<1>4. PICK m \in L : n = Cardinality(above(m))
  OBVIOUS
<1>5. ASSUME NEW f \in L, <<m, f>> \in R PROVE FALSE
  <2>1. above(f) \in SUBSET above(m) /\ f \in above(m) /\ f \notin above(f)
    BY <1>5
  <2>2. Cardinality(above(f)) <= Cardinality(above(m))
        /\ (Cardinality(above(m)) = Cardinality(above(f)) => above(m) = above(f))
    BY <2>1, <1>1, FS_Subset
  <2>3. Cardinality(above(f)) # Cardinality(above(m))
    <3> HIDE DEF above
    <3> QED
      BY <2>1, <2>2
  <2>4. n <= Cardinality(above(f))
    <3> HIDE DEF above
    <3>1. Cardinality(above(f)) \in T
      OBVIOUS
    <3> QED
      BY <3>1, <1>3
  <2> HIDE DEF above, T
  <2> QED
    BY SMTT(30), <2>2, <2>3, <2>4, <1>4, <1>1
<1> QED
  BY <1>5

(* A task that has a record has a last one and a first one.                  *)
LEMMA LastOK ==
  ASSUME NEW L, L \subseteq Entry, IsFiniteSet(L), L # {}
  PROVE  /\ Last(L) \in L /\ \A f \in L : ~LocLess(Loc(Last(L)), Loc(f))
         /\ First(L) \in L /\ \A f \in L : ~LocLess(Loc(f), Loc(First(L)))
<1>0. \A e \in L : Loc(e) \in Nat \X Nat
  BY LocType
<1>1. \E e \in L : \A f \in L : ~LocLess(Loc(e), Loc(f))
  <2> DEFINE R == {p \in L \X L : LocLess(Loc(p[1]), Loc(p[2]))}
  <2>1. \A e, f \in L : <<e, f>> \in R <=> LocLess(Loc(e), Loc(f))
    OBVIOUS
  <2> HIDE DEF R
  <2>2. \A e \in L : <<e, e>> \notin R
    BY <2>1, <1>0, LocOrder
  <2>3. \A e, f, g \in L : <<e, f>> \in R /\ <<f, g>> \in R => <<e, g>> \in R
    BY <2>1, <1>0, LocOrder
  <2>4. \E m \in L : \A f \in L : <<m, f>> \notin R
    BY <2>2, <2>3, MaximalExists
  <2> QED
    BY <2>1, <2>4
<1>2. \E e \in L : \A f \in L : ~LocLess(Loc(f), Loc(e))
  <2> DEFINE R == {p \in L \X L : LocLess(Loc(p[2]), Loc(p[1]))}
  <2>1. \A e, f \in L : <<e, f>> \in R <=> LocLess(Loc(f), Loc(e))
    OBVIOUS
  <2> HIDE DEF R
  <2>2. \A e \in L : <<e, e>> \notin R
    BY <2>1, <1>0, LocOrder
  <2>3. \A e, f, g \in L : <<e, f>> \in R /\ <<f, g>> \in R => <<e, g>> \in R
    BY <2>1, <1>0, LocOrder
  <2>4. \E m \in L : \A f \in L : <<m, f>> \notin R
    BY <2>2, <2>3, MaximalExists
  <2> QED
    BY <2>1, <2>4
<1> QED
  BY <1>1, <1>2 DEF Last, First

-----------------------------------------------------------------------------
\* The image of a finite set; FS_Image for functions.
LEMMA ImageFinite ==
  ASSUME NEW S, IsFiniteSet(S), NEW f, DOMAIN f = S, f = [x \in S |-> f[x]]
  PROVE  IsFiniteSet({f[x] : x \in S}) /\ Cardinality({f[x] : x \in S}) <= Cardinality(S)
         /\ ((\A x, y \in S : f[x] = f[y] => x = y)
               => Cardinality({f[x] : x \in S}) = Cardinality(S))
<1> DEFINE T == {f[x] : x \in S}
<1>1. f \in Surjection(S, T)
  BY DEF Surjection
<1>2. (\A x, y \in S : f[x] = f[y] => x = y) => f \in Injection(S, T)
  BY <1>1 DEF Injection, Surjection, IsInjective
<1> HIDE DEF T
<1>3. /\ IsFiniteSet(T) /\ Cardinality(T) <= Cardinality(S)
      /\ Cardinality(T) = Cardinality(S) <=> f \in Injection(S, T)
  BY <1>1, FS_Surjection
<1> QED
  BY <1>2, <1>3 DEF T

(* The size of a gapless segment is the place of its last frame: the size    *)
(* that open() computes from the frames it has read (wal.rs:200-254) is where *)
(* the next frame goes.                                                      *)
LEMMA SegmentCount ==
  ASSUME NEW S, S \subseteq Entry, IsFiniteSet(S), NEW s, \A e \in S : e.seg = s,
         Unique(S), Dense(S)
  PROVE  /\ Cardinality(S) \in Nat
         /\ \A e \in S : e.off <= Cardinality(S)
         /\ \A k \in 1..Cardinality(S) : \E e \in S : Loc(e) = <<s, k>>
<1> DEFINE n == Cardinality(S)
           f == [e \in S |-> e.off]
           O == {f[e] : e \in S}
<1>1. n \in Nat
  BY FS_CardinalityType
<1>2. \A e \in S : e.off \in Nat /\ e.off >= 1 /\ f[e] = e.off /\ Loc(e) = <<s, e.off>>
  BY LocType DEF Dense, Loc
<1>3. IsFiniteSet(O) /\ Cardinality(O) = n
  <2>1. \A x, y \in S : f[x] = f[y] => x = y
    BY SMTT(30), <1>2 DEF Unique
  <2>2. DOMAIN f = S /\ f = [x \in S |-> f[x]]
    OBVIOUS
  <2> HIDE DEF f
  <2> QED
    BY SMTT(30), <2>1, <2>2, ImageFinite
<1>4. ASSUME NEW e \in S, NEW k \in 1..e.off PROVE k \in O
  <2>1. PICK g \in S : Loc(g) = <<e.seg, k>>
    BY <1>4 DEF Dense
  <2>2. g.off = k
    BY <2>1 DEF Loc
  <2> QED
    BY <2>2, <1>2
<1>5. ASSUME NEW e \in S PROVE e.off <= n
  <2>1. 1..e.off \in SUBSET O
    BY <1>4
  <2>2. Cardinality(1..e.off) <= n
    BY <2>1, <1>3, FS_Subset
  <2>3. e.off \in Nat /\ e.off >= 1
    BY <1>2
  <2>4. Cardinality(1..e.off) = e.off
    BY <2>3, FS_Interval
  <2> QED
    BY <2>2, <2>4
<1>6. O \in SUBSET (1..n)
  BY SMTT(30), <1>1, <1>2, <1>5
<1>7. IsFiniteSet(1..n) /\ Cardinality(1..n) = n
  <2> HIDE DEF n
  <2> QED
    BY <1>1, FS_Interval
<1>8. O = 1..n
  <2> HIDE DEF O, n
  <2> QED
    BY <1>3, <1>6, <1>7, FS_Subset
<1>9. ASSUME NEW k \in 1..n PROVE \E e \in S : Loc(e) = <<s, k>>
  <2>1. k \in O
    BY <1>8
  <2>2. PICK e \in S : k = f[e]
    BY <2>1
  <2> QED
    BY <2>2, <1>2
<1> QED
  BY <1>1, <1>5, <1>9

\* The ids of a log.
LEMMA IdsFinite ==
  ASSUME NEW L, L \subseteq Entry, IsFiniteSet(L)
  PROVE  IdsIn(L) \subseteq Nat /\ IsFiniteSet(IdsIn(L))
<1> DEFINE f == [e \in L |-> e.frame.id]
<1>1. \A e \in L : e.frame.id \in Nat
  BY LocType DEF Frame
<1>2. DOMAIN f = L /\ f = [x \in L |-> f[x]] /\ \A x \in L : f[x] = x.frame.id
  OBVIOUS
<1>3. IdsIn(L) = {f[x] : x \in L}
  BY DEF IdsIn
<1> HIDE DEF f
<1> QED
  BY SMTT(30), <1>1, <1>2, <1>3, ImageFinite

\* The ids that compaction keeps, and the record it keeps of each.
LEMMA SurvivorsOK ==
  ASSUME NEW L, L \subseteq Entry, IsFiniteSet(L), Unique(L)
  PROVE  /\ SurvivingIds(L) \subseteq Nat /\ IsFiniteSet(SurvivingIds(L))
         /\ \A id \in SurvivingIds(L) :
              \E e \in L : /\ e = Last(Of(L, id)) /\ e.frame.id = id /\ e.frame.op \notin Terminal
                          /\ CreatedPayload(L, id) \in Nat
<1>1. IdsIn(L) \subseteq Nat /\ IsFiniteSet(IdsIn(L))
  BY IdsFinite
<1>2. SurvivingIds(L) \subseteq IdsIn(L)
  BY DEF SurvivingIds
<1>3. ASSUME NEW id \in SurvivingIds(L)
      PROVE  \E e \in L : /\ e = Last(Of(L, id)) /\ e.frame.id = id /\ e.frame.op \notin Terminal
                         /\ CreatedPayload(L, id) \in Nat
  <2> DEFINE l == Last(Of(L, id))
             S == SinceTerminal(L, id)
             C == {e \in S : e.frame.op = "Created"}
  <2>1. Of(L, id) # {} /\ Of(L, id) \subseteq L /\ IsFiniteSet(Of(L, id))
    <3>1. Of(L, id) \in SUBSET L
      BY DEF Of
    <3>2. Of(L, id) # {}
      BY <1>2, <1>3 DEF IdsIn, Of
    <3> QED
      BY <3>1, <3>2, FS_Subset
  <2>2. l \in Of(L, id) /\ \A f \in Of(L, id) : ~LocLess(Loc(l), Loc(f))
    BY <2>1, LastOK
  <2>3. l \in L /\ l.frame.id = id /\ l.frame.op \notin Terminal
    BY <2>2, <1>3 DEF Of, SurvivingIds
  <2> HIDE DEF l
  <2>4. l \in S
    <3>1. ASSUME NEW f \in Of(L, id), f.frame.op \in Terminal PROVE LocLess(Loc(f), Loc(l))
      <4>1. f \in L /\ f # l
        BY <3>1, <2>1, <2>3
      <4>2. Loc(f) # Loc(l)
        BY <4>1, <2>3 DEF Unique
      <4>3. Loc(f) \in Nat \X Nat /\ Loc(l) \in Nat \X Nat
        BY <4>1, <2>3, LocType
      <4> QED
        BY <4>2, <4>3, <2>2, LocOrder
    <3> QED
      BY <3>1, <2>2 DEF SinceTerminal
  <2>5. S \in SUBSET L /\ C \in SUBSET L
    BY <2>1 DEF SinceTerminal
  <2>6. IsFiniteSet(S) /\ IsFiniteSet(C) /\ S \subseteq Entry /\ C \subseteq Entry
    BY <2>5, FS_Subset
  <2>7. First(S) \in S /\ (C # {} => Last(C) \in C)
    BY <2>4, <2>6, LastOK
  <2>8. \A e \in L : e.frame.data \in Nat
    BY LocType DEF Frame
  <2>9. CreatedPayload(L, id) = IF C # {} THEN Last(C).frame.data ELSE First(S).frame.data
    BY DEF CreatedPayload
  <2>10. CreatedPayload(L, id) \in Nat
    <3> HIDE DEF S, C
    <3> QED
      BY <2>5, <2>7, <2>8, <2>9
  <2> QED
    BY <2>3, <2>10 DEF l
<1> QED
  BY <1>1, <1>2, <1>3, FS_Subset

\* f numbers the members of V by the sizes of growing subsets up[id], each of
\* which has id as its newest member.
Numbering(V, up, f) ==
  /\ DOMAIN f = V /\ f = [id \in V |-> f[id]]
  /\ \A id \in V : up[id] \in SUBSET V /\ id \in up[id] /\ f[id] = Cardinality(up[id])
  /\ \A i, j \in V : i < j => up[i] \in SUBSET up[j] /\ j \notin up[i]

\* Such a numbering is 1, 2, ... without a gap.
Gapless(V, f) ==
  /\ \A id \in V : f[id] \in Nat /\ f[id] >= 1
  /\ \A i, j \in V : f[i] = f[j] => i = j
  /\ \A id \in V : \A k \in 1..f[id] : \E j \in V : f[j] = k

\* A numbering by growing subsets is gapless.
LEMMA OffsetsOK ==
  ASSUME NEW V, V \subseteq Nat, IsFiniteSet(V), NEW up, NEW f, Numbering(V, up, f)
  PROVE  Gapless(V, f)
<1> DEFINE n == Cardinality(V)
           O == {f[id] : id \in V}
<1>1. n \in Nat
  BY FS_CardinalityType
<1>2. \A id \in V : up[id] \in SUBSET V /\ id \in up[id] /\ f[id] = Cardinality(up[id])
  BY DEF Numbering
<1>3. \A id \in V : IsFiniteSet(up[id]) /\ f[id] \in Nat /\ f[id] <= n
  BY SMTT(30), <1>2, FS_Subset, FS_CardinalityType
<1>5. \A id \in V : f[id] >= 1
  <2>1. \A id \in V : f[id] # 0
    BY <1>2, <1>3, FS_EmptySet
  <2> QED
    BY <2>1, <1>3
<1>6. ASSUME NEW i \in V, NEW j \in V, i < j PROVE f[i] # f[j]
  <2>1. up[i] \in SUBSET up[j] /\ j \in up[j] /\ j \notin up[i]
    BY <1>6 DEF Numbering
  <2>2. Cardinality(up[j]) = Cardinality(up[i]) => up[j] = up[i]
    BY <2>1, <1>3, FS_Subset
  <2> QED
    BY <2>1, <2>2, <1>2
<1>7. \A i, j \in V : f[i] = f[j] => i = j
  <2>1. \A i, j \in V : i < j \/ j < i \/ i = j
    OBVIOUS
  <2> QED
    BY <2>1, <1>6
<1>8. IsFiniteSet(O) /\ Cardinality(O) = n
  BY SMTT(30), <1>7, ImageFinite DEF Numbering
<1>9. O \in SUBSET (1..n)
  <2> HIDE DEF n
  <2>1. \A id \in V : f[id] \in 1..n
    BY <1>1, <1>3, <1>5
  <2> QED
    BY <2>1
<1>10. O = 1..n
  <2> HIDE DEF O, n
  <2>1. IsFiniteSet(1..n) /\ Cardinality(1..n) = n
    BY <1>1, FS_Interval
  <2> QED
    BY <2>1, <1>8, <1>9, FS_Subset
<1>11. ASSUME NEW id \in V, NEW k \in 1..f[id] PROVE \E j \in V : f[j] = k
  <2>1. k \in 1..n
    <3> HIDE DEF n
    <3> QED
      BY <1>1, <1>3
  <2>2. k \in O
    BY <2>1, <1>10
  <2> QED
    BY <2>2
<1> QED
  BY <1>3, <1>5, <1>7, <1>11 DEF Gapless

(* What compaction writes (wal.rs:434-478): well-formed frames at the first  *)
(* places of segment 1, each the last record of a task that is not finished, *)
(* with the task's payload put in.                                           *)
LEMMA CompactedOK ==
  ASSUME NEW L, L \subseteq Entry, IsFiniteSet(L), Unique(L)
  PROVE  /\ Compacted(L) \subseteq Entry /\ IsFiniteSet(Compacted(L))
         /\ Unique(Compacted(L)) /\ Dense(Compacted(L))
         /\ \A g \in Compacted(L) : g.seg = 1
         /\ \A g \in Compacted(L) : \E e \in L :
              /\ e.frame.op \notin Terminal
              /\ g.frame = [e.frame EXCEPT !.data = g.frame.data]
         /\ NewOffsets(L) \in [SurvivingIds(L) -> Nat]
<1> DEFINE V == SurvivingIds(L)
           f == NewOffsets(L)
           at(id) == [seg |-> 1, off |-> f[id], frame |-> Consolidated(L, id)]
           G == Compacted(L)
<1>1. V \subseteq Nat /\ IsFiniteSet(V)
  BY SurvivorsOK
<1>2. f = [id \in V |-> Cardinality({j \in V : j <= id})]
  BY DEF NewOffsets
<1> HIDE DEF f
<1>3. /\ \A id \in V : f[id] \in Nat /\ f[id] >= 1
      /\ \A i, j \in V : f[i] = f[j] => i = j
      /\ \A id \in V : \A k \in 1..f[id] : \E j \in V : f[j] = k
  <2> DEFINE up == [id \in V |-> {j \in V : j <= id}]
  <2> HIDE DEF V
  <2>1. DOMAIN f = V /\ f = [id \in V |-> f[id]]
    BY <1>2
  <2>2. \A id \in V : up[id] \in SUBSET V /\ id \in up[id] /\ f[id] = Cardinality(up[id])
    BY <1>1, <1>2
  <2>3. ASSUME NEW i \in V, NEW j \in V, i < j
        PROVE  up[i] \in SUBSET up[j] /\ j \notin up[i]
    <3>1. \A k \in V : k \in Nat
      BY <1>1
    <3>2. up[i] = {k \in V : k <= i} /\ up[j] = {k \in V : k <= j}
      OBVIOUS
    <3> HIDE DEF up
    <3>3. \A k \in up[i] : k \in up[j]
      BY <3>1, <3>2, <2>3
    <3>4. j \notin up[i]
      BY <3>1, <3>2, <2>3
    <3> QED
      BY <3>3, <3>4
  <2>4. \A i, j \in V : i < j => up[i] \in SUBSET up[j] /\ j \notin up[i]
    BY <2>3
  <2> HIDE DEF up, at, G
  <2>5. Numbering(V, up, f)
    BY <2>1, <2>2, <2>4 DEF Numbering
  <2>6. Gapless(V, f)
    BY <1>1, <2>5, OffsetsOK
  <2> QED
    BY <2>6 DEF Gapless
<1>4. G = {at(id) : id \in V}
  BY DEF Compacted, f
<1>5. ASSUME NEW id \in V
      PROVE  /\ Consolidated(L, id) \in Frame
             /\ \E e \in L : /\ e.frame.op \notin Terminal
                             /\ Consolidated(L, id) = [e.frame EXCEPT !.data = Consolidated(L, id).data]
  <2>1. PICK e \in L : /\ e = Last(Of(L, id)) /\ e.frame.id = id /\ e.frame.op \notin Terminal
                       /\ CreatedPayload(L, id) \in Nat
    BY SurvivorsOK
  <2>2. e.frame \in Frame
    BY LocType
  <2>3. Consolidated(L, id) = IF e.frame.op = "Created" THEN e.frame
                              ELSE [e.frame EXCEPT !.data = CreatedPayload(L, id)]
    BY <2>1 DEF Consolidated
  <2>4. Consolidated(L, id) \in Frame
    BY <2>1, <2>2, <2>3 DEF Frame
  <2>5. Consolidated(L, id) = [e.frame EXCEPT !.data = Consolidated(L, id).data]
    BY <2>2, <2>3 DEF Frame
  <2> QED
    BY <2>1, <2>4, <2>5
<1> HIDE DEF V, G
<1>6. ASSUME NEW g \in G PROVE \E id \in V : g = at(id) /\ g.seg = 1 /\ g.off = f[id]
                                            /\ g.frame = Consolidated(L, id) /\ Loc(g) = <<1, f[id]>>
  BY <1>4 DEF Loc
<1>7. ASSUME NEW id \in V PROVE at(id) \in G /\ at(id) \in Entry /\ Loc(at(id)) = <<1, f[id]>>
  BY <1>3, <1>4, <1>5 DEF Entry, Loc
<1> HIDE DEF at
<1>8. G \subseteq Entry
  BY <1>6, <1>7
<1>9. IsFiniteSet(G)
  <2> DEFINE h == [id \in V |-> at(id)]
  <2>1. DOMAIN h = V /\ h = [x \in V |-> h[x]] /\ G = {h[x] : x \in V}
    BY <1>4
  <2> HIDE DEF h
  <2> QED
    BY SMTT(30), <2>1, <1>1, ImageFinite
<1>10. Unique(G)
  <2> SUFFICES ASSUME NEW g \in G, NEW k \in G, Loc(g) = Loc(k) PROVE g = k
    BY DEF Unique
  <2>1. PICK i \in V : g = at(i) /\ Loc(g) = <<1, f[i]>>
    BY <1>6
  <2>2. PICK j \in V : k = at(j) /\ Loc(k) = <<1, f[j]>>
    BY <1>6
  <2> QED
    BY SMTT(30), <2>1, <2>2, <1>3
<1>11. Dense(G)
  <2> SUFFICES ASSUME NEW g \in G PROVE g.off >= 1 /\ \A k \in 1..g.off : \E h \in G : Loc(h) = <<g.seg, k>>
    BY DEF Dense
  <2>1. PICK id \in V : g.seg = 1 /\ g.off = f[id]
    BY <1>6
  <2> SUFFICES ASSUME NEW k \in 1..f[id] PROVE \E h \in G : Loc(h) = <<1, k>>
    BY <2>1, <1>3
  <2>2. PICK j \in V : f[j] = k
    BY <1>3
  <2> QED
    BY <2>2, <1>7
<1>12. \A g \in G : g.seg = 1
  BY <1>6
<1>13. \A g \in G : \E e \in L : /\ e.frame.op \notin Terminal
                                /\ g.frame = [e.frame EXCEPT !.data = g.frame.data]
  <2> TAKE g \in G
  <2>1. PICK id \in V : g.frame = Consolidated(L, id)
    BY <1>6
  <2> QED
    BY <2>1, <1>5
<1>14. f \in [V -> Nat]
  BY <1>2, <1>3
<1> QED
  BY <1>8, <1>9, <1>10, <1>11, <1>12, <1>13, <1>14 DEF G, V, f

HIDE DEF ImageFinite, SegmentCount, IdsFinite, SurvivorsOK, OffsetsOK,
         CompactedOK

-----------------------------------------------------------------------------
(* Deleting a segment, replacing segment 1, and cutting a segment at its     *)
(* first frame that does not decode leave no gap.                            *)
LEMMA SubsetUnique ==
  ASSUME NEW L, Unique(L), IsFiniteSet(L), NEW M \in SUBSET L
  PROVE  Unique(M) /\ IsFiniteSet(M)
  BY FS_Subset DEF Unique

\* Without one segment, and within one segment.
LEMMA WithoutSegment ==
  ASSUME NEW L, L \subseteq Entry, Dense(L), NEW s
  PROVE  Dense({e \in L : e.seg # s}) /\ Dense({e \in L : e.seg = s})
<1>1. ASSUME NEW e \in L, NEW k \in 1..e.off
      PROVE  e.off >= 1 /\ \E f \in L : Loc(f) = <<e.seg, k>> /\ f.seg = e.seg
  BY LocType DEF Dense, Loc
<1>2. \A e \in L : e.off >= 1
  BY DEF Dense
<1> QED
  BY ZenonT(30), <1>1, <1>2 DEF Dense

\* Cutting a segment.
LEMMA CutSegment ==
  ASSUME NEW L, L \subseteq Entry, Dense(L), NEW cut, cut \subseteq Nat \X Nat, NEW s
  PROVE  Dense({e \in L : e.seg # s \/ e \in Readable(L, cut)})
<1> DEFINE M == {e \in L : e.seg # s \/ e \in Readable(L, cut)}
<1>1. ASSUME NEW e \in M, NEW k \in 1..e.off
      PROVE  \E f \in M : Loc(f) = <<e.seg, k>>
  <2>1. e \in L /\ e.off \in Nat
    BY LocType
  <2>2. PICK f \in L : Loc(f) = <<e.seg, k>>
    BY <2>1 DEF Dense
  <2>3. f.seg = e.seg /\ f.off = k /\ k <= e.off /\ k \in Nat
    BY <2>2, <2>1 DEF Loc
  <2>4. ASSUME e \in Readable(L, cut) PROVE f \in Readable(L, cut)
    <3> SUFFICES ASSUME NEW t \in cut, t[1] = f.seg, t[2] <= f.off PROVE FALSE
      BY DEF Readable
    <3>1. t[2] \in Nat
      OBVIOUS
    <3>2. ~(t[1] = e.seg /\ t[2] <= e.off)
      BY <2>4 DEF Readable
    <3> QED
      BY <3>1, <3>2, <2>1, <2>3
  <2> QED
    BY <2>2, <2>3, <2>4
<1>2. \A e \in M : e.off >= 1
  BY DEF Dense
<1> QED
  BY <1>1, <1>2 DEF Dense

\* Replacing a segment.
LEMMA ReplaceSegment ==
  ASSUME NEW L, L \subseteq Entry, IsFiniteSet(L), Unique(L), Dense(L),
         NEW T, T \subseteq Entry, IsFiniteSet(T), Unique(T), Dense(T), NEW s, \A e \in T : e.seg = s
  PROVE  LET M == {e \in L : e.seg # s} \cup T
         IN  M \subseteq Entry /\ IsFiniteSet(M) /\ Unique(M) /\ Dense(M)
<1> DEFINE K == {e \in L : e.seg # s}
<1>1. K \subseteq Entry /\ IsFiniteSet(K) /\ Unique(K) /\ Dense(K) /\ \A e \in K : e.seg # s
  BY SubsetUnique, WithoutSegment
<1> HIDE DEF K
<1>2. IsFiniteSet(K \cup T)
  BY <1>1, FS_Union
<1>3. Unique(K \cup T)
  <2>1. \A e \in K, f \in T : Loc(e) # Loc(f)
    BY SMTT(30), <1>1, LocType
  <2> QED
    BY <2>1, <1>1 DEF Unique
<1>4. Dense(K \cup T)
  BY SMTT(30), <1>1 DEF Dense
<1> QED
  BY <1>1, <1>2, <1>3, <1>4 DEF K

\* A finite set of segment numbers has a largest one.
LEMMA LargestExists ==
  ASSUME NEW S, S \subseteq Nat, IsFiniteSet(S), S # {}
  PROVE  \E m \in S : \A k \in S : k <= m
<1> DEFINE R == {p \in S \X S : p[1] < p[2]}
<1>1. \A e, f \in S : <<e, f>> \in R <=> e < f
  OBVIOUS
<1> HIDE DEF R
<1>2. \A e \in S : <<e, e>> \notin R
  BY <1>1
<1>3. \A e, f, g \in S : <<e, f>> \in R /\ <<f, g>> \in R => <<e, g>> \in R
  BY SMTT(30), <1>1
<1>4. PICK m \in S : \A f \in S : <<m, f>> \notin R
  BY <1>2, <1>3, MaximalExists
<1>5. \A k \in S : ~(m < k)
  BY <1>1, <1>4
<1>6. \A k \in S : k <= m
  BY <1>5
<1> QED
  BY <1>6

\* Some member of S has the earliest location.
LEMMA EarliestExists ==
  ASSUME NEW S, S # {}, NEW ix, \A j \in S : ix[j] \in Nat \X Nat
  PROVE  \E m \in S : \A j \in S : ~LocLess(ix[j], ix[m])
<1> DEFINE A == {ix[j][1] : j \in S}
<1>1. PICK a \in A : \A k \in A : a <= k
  <2>1. A \subseteq Nat /\ A # {}
    OBVIOUS
  <2> HIDE DEF A
  <2> QED
    BY <2>1, NatMin
<1> DEFINE U == {j \in S : ix[j][1] = a}
           B == {ix[j][2] : j \in U}
<1>2. PICK b \in B : \A k \in B : b <= k
  <2>1. B \subseteq Nat /\ B # {}
    OBVIOUS
  <2> HIDE DEF B
  <2> QED
    BY <2>1, NatMin
<1>3. PICK m \in U : ix[m][2] = b
  OBVIOUS
<1>4. ASSUME NEW j \in S, LocLess(ix[j], ix[m]) PROVE FALSE
  <2>1. ix[j][1] \in Nat /\ ix[j][2] \in Nat /\ a \in Nat /\ b \in Nat /\ a <= ix[j][1]
    BY <1>1
  <2>2. ix[j][1] = a => b <= ix[j][2]
    BY <1>2
  <2>3. ix[m][1] = a /\ ix[m][2] = b
    BY <1>3
  <2> QED
    BY <2>1, <2>2, <2>3, <1>4 DEF LocLess
<1> QED
  BY <1>4

\* What a map holds after an insert.
LEMMA PutHolds ==
  ASSUME NEW f, NEW k, NEW v, NEW x \in DOMAIN Put(f, k, v)
  PROVE  (x = k /\ Put(f, k, v)[x] = v) \/ (x \in DOMAIN f /\ Put(f, k, v)[x] = f[x])
<1>1. x \in DOMAIN f \cup {k} /\ Put(f, k, v)[x] = IF x = k THEN v ELSE f[x]
  BY DEF Put
<1> QED
  BY <1>1

\* What a cache holds after an insert.
LEMMA CacheInsertHolds ==
  ASSUME NEW c, IsCache(c), NEW k \in Nat, NEW v \in Nat
  PROVE  \A id \in DOMAIN CacheInsert(c, k, v).entries :
           \/ id = k /\ CacheInsert(c, k, v).entries[id] = v
           \/ id \in DOMAIN c.entries /\ CacheInsert(c, k, v).entries[id] = c.entries[id]
<1> DEFINE P == Put(c.entries, k, v)
           added == [entries |-> P, order |-> IF k \in DOMAIN c.entries THEN c.order ELSE Append(c.order, k)]
           kept == IF Cardinality(DOMAIN added.entries) > CacheCapacity THEN Evicted(added) ELSE added
<1>1. \A id \in DOMAIN P : (id = k /\ P[id] = v) \/ (id \in DOMAIN c.entries /\ P[id] = c.entries[id])
  BY SMTT(30), PutHolds
<1> HIDE DEF P
<1>2. Evicted(added).entries = P \/ \E i : Evicted(added).entries = Drop(P, i)
  BY DEF Evicted
<1>3. kept.entries = P \/ \E i : kept.entries = Drop(P, i)
  BY <1>2
<1> HIDE DEF added
<1>4. \A id \in DOMAIN kept.entries : id \in DOMAIN P /\ kept.entries[id] = P[id]
  BY <1>3 DEF Drop
<1>5. Tidied(kept).entries = kept.entries
  BY DEF Tidied
<1>6. CacheInsert(c, k, v) = c \/ CacheInsert(c, k, v).entries = kept.entries
  BY <1>5 DEF CacheInsert, added, P
<1> HIDE DEF kept
<1> QED
  BY <1>1, <1>4, <1>6

HIDE DEF SubsetUnique, WithoutSegment, CutSegment, ReplaceSegment,
         LargestExists, EarliestExists, PutHolds, CacheInsertHolds

-----------------------------------------------------------------------------
(* The latest record of every task.                                        *)

\* The latest record of every task, and what it says of the task; its payload is
\* left out, which compaction may put in.
Heads(L) == {e \in L : \A f \in L : f.frame.id = e.frame.id => ~LocLess(Loc(e), Loc(f))}
Strip(f) == [f EXCEPT !.data = NoData]
Tips(L)  == {Strip(e.frame) : e \in Heads(L)}

\* V after a record f was appended.
Told(V, f) == {v \in V : v.id # f.id} \cup {Strip(f)}

\* W is V without some of the tasks that are finished.
Forgets(V, W) == W \subseteq V /\ \A v \in V : v.op \notin Terminal => v \in W

\* Without its payload a frame says the same.
LEMMA StripOK ==
  ASSUME NEW f \in Frame
  PROVE  /\ Strip(f) \in Frame /\ Strip(f).id = f.id /\ Strip(f).op = f.op
         /\ Strip(f).priority = f.priority /\ Strip(f).retries = f.retries
         /\ Strip(f).consumer = f.consumer /\ Strip(f).expire = f.expire
  BY DEF Strip, Frame, NoData

\* The tips of a log are frames.
LEMMA TipsFrame ==
  ASSUME NEW L, L \subseteq Entry
  PROVE  Tips(L) \subseteq Frame
  BY StripOK, LocType DEF Tips, Heads

\* A task has one latest record.
LEMMA HeadUnique ==
  ASSUME NEW L, L \subseteq Entry, Unique(L), NEW d \in Heads(L), NEW e \in Heads(L),
         d.frame.id = e.frame.id
  PROVE  d = e
<1>1. d \in L /\ e \in L /\ ~LocLess(Loc(d), Loc(e)) /\ ~LocLess(Loc(e), Loc(d))
  BY DEF Heads
<1>2. Loc(d) = Loc(e)
  BY <1>1, LocType, LocOrder
<1> QED
  BY <1>1, <1>2 DEF Unique

\* A task with a record has a latest one, which is Last of its records.
LEMMA HeadExists ==
  ASSUME NEW L, L \subseteq Entry, IsFiniteSet(L), NEW id \in IdsIn(L)
  PROVE  Last(Of(L, id)) \in Heads(L) /\ Last(Of(L, id)).frame.id = id
<1>1. Of(L, id) \in SUBSET L /\ Of(L, id) # {}
  BY DEF Of, IdsIn
<1>2. IsFiniteSet(Of(L, id))
  BY <1>1, FS_Subset
<1>3. Last(Of(L, id)) \in Of(L, id) /\ \A f \in Of(L, id) : ~LocLess(Loc(Last(Of(L, id))), Loc(f))
  BY <1>1, <1>2, LastOK
<1> QED
  BY <1>1, <1>3 DEF Of, Heads

\* One tip for each task.
LEMMA TipUnique ==
  ASSUME NEW L, L \subseteq Entry, Unique(L), NEW v \in Tips(L), NEW w \in Tips(L), v.id = w.id
  PROVE  v = w
<1>1. PICK d \in Heads(L) : v = Strip(d.frame)
  BY DEF Tips
<1>2. PICK e \in Heads(L) : w = Strip(e.frame)
  BY DEF Tips
<1>3. d.frame.id = e.frame.id
  BY <1>1, <1>2, StripOK, LocType DEF Heads
<1> QED
  BY <1>1, <1>2, <1>3, HeadUnique

\* The tip of a task is its last record.
LEMMA TipIsLast ==
  ASSUME NEW L, L \subseteq Entry, IsFiniteSet(L), Unique(L)
  PROVE  /\ \A id \in IdsIn(L) : /\ Strip(Last(Of(L, id)).frame) \in Tips(L)
                                 /\ Last(Of(L, id)).frame \in Frame
                                 /\ Last(Of(L, id)).frame.id = id
         /\ IdsIn(L) = {v.id : v \in Tips(L)}
         /\ \A v \in Tips(L) : v = Strip(Last(Of(L, v.id)).frame)
<1>1. ASSUME NEW id \in IdsIn(L)
      PROVE  /\ Strip(Last(Of(L, id)).frame) \in Tips(L) /\ Last(Of(L, id)).frame \in Frame
             /\ Last(Of(L, id)).frame.id = id
  <2>1. Last(Of(L, id)) \in Heads(L) /\ Last(Of(L, id)).frame.id = id
    BY HeadExists
  <2>2. Last(Of(L, id)) \in Entry
    BY <2>1 DEF Heads
  <2> QED
    BY <2>1, <2>2, LocType DEF Tips
<1>2. \A v \in Tips(L) : v.id \in IdsIn(L)
  BY SMTT(30), StripOK, LocType DEF Tips, Heads, IdsIn
<1>3. \A id \in IdsIn(L) : Strip(Last(Of(L, id)).frame).id = id
  BY <1>1, StripOK
<1>4. IdsIn(L) = {v.id : v \in Tips(L)}
  BY SMTT(30), <1>1, <1>2, <1>3
<1>5. \A v \in Tips(L) : v = Strip(Last(Of(L, v.id)).frame)
  BY <1>1, <1>2, <1>3, TipUnique
<1> QED
  BY <1>1, <1>4, <1>5

(* append: the new record is the latest of its task, and nothing else is new. *)
LEMMA TipsAppend ==
  ASSUME NEW L, L \subseteq Entry, NEW x \in Entry, \A e \in L : LocLess(Loc(e), Loc(x))
  PROVE  /\ Tips(L \cup {x}) = Told(Tips(L), x.frame)
         /\ Heads(L \cup {x}) = {e \in Heads(L) : e.frame.id # x.frame.id} \cup {x}
<1>1. \A e \in L \cup {x} : ~LocLess(Loc(x), Loc(e))
  BY LocType, LocOrder
<1>2. Heads(L \cup {x}) = {e \in Heads(L) : e.frame.id # x.frame.id} \cup {x}
  BY <1>1 DEF Heads
<1>3. \A e \in Heads(L) : Strip(e.frame).id = e.frame.id
  BY StripOK, LocType DEF Heads
<1> QED
  BY <1>2, <1>3 DEF Tips, Told

HIDE DEF TipsFrame, TipUnique, TipIsLast, TipsAppend

-----------------------------------------------------------------------------
(* What compaction writes is the tips of the tasks that are not finished.     *)
LEMMA CompactedTips ==
  ASSUME NEW K, K \subseteq Entry, IsFiniteSet(K), Unique(K)
  PROVE  /\ \A g \in Compacted(K) : \E e \in Heads(K) : /\ e.frame.op \notin Terminal
                                                       /\ Strip(g.frame) = Strip(e.frame)
         /\ \A e \in Heads(K) : e.frame.op \notin Terminal =>
              \E g \in Compacted(K) : Strip(g.frame) = Strip(e.frame)
         /\ \A g, h \in Compacted(K) : g.frame.id = h.frame.id => g = h
<1> DEFINE at(id) == [seg |-> 1, off |-> NewOffsets(K)[id], frame |-> Consolidated(K, id)]
<1>1. ASSUME NEW id \in SurvivingIds(K)
      PROVE  /\ Last(Of(K, id)) \in Heads(K) /\ Last(Of(K, id)).frame.id = id
             /\ Last(Of(K, id)).frame.op \notin Terminal
             /\ Strip(Consolidated(K, id)) = Strip(Last(Of(K, id)).frame)
             /\ Consolidated(K, id).id = id
  <2>1. id \in IdsIn(K) /\ Last(Of(K, id)).frame.op \notin Terminal
    BY DEF SurvivingIds
  <2>2. Last(Of(K, id)) \in Heads(K) /\ Last(Of(K, id)).frame.id = id
    BY <2>1, HeadExists
  <2>3. Last(Of(K, id)).frame \in Frame
    BY <2>2, LocType DEF Heads
  <2> DEFINE f == Last(Of(K, id)).frame
  <2>4. Consolidated(K, id) = IF f.op = "Created" THEN f ELSE [f EXCEPT !.data = CreatedPayload(K, id)]
    BY DEF Consolidated
  <2> HIDE DEF f
  <2>5. Strip(Consolidated(K, id)) = Strip(f) /\ Consolidated(K, id).id = f.id
    BY <2>3, <2>4 DEF Strip, Frame, f
  <2> QED
    BY <2>1, <2>2, <2>5 DEF f
<1>2. Compacted(K) = {at(id) : id \in SurvivingIds(K)}
  BY DEF Compacted
<1>3. \A id \in SurvivingIds(K) : at(id).frame = Consolidated(K, id)
  OBVIOUS
<1> HIDE DEF at
<1>4. \A g \in Compacted(K) : \E e \in Heads(K) : e.frame.op \notin Terminal /\ Strip(g.frame) = Strip(e.frame)
  BY SMTT(30), <1>1, <1>2, <1>3
<1>5. ASSUME NEW e \in Heads(K), e.frame.op \notin Terminal
      PROVE  \E g \in Compacted(K) : Strip(g.frame) = Strip(e.frame)
  <2>1. e \in K /\ e.frame.id \in IdsIn(K)
    BY DEF Heads, IdsIn
  <2>2. Last(Of(K, e.frame.id)) = e
    BY SMTT(30), <2>1, <1>5, HeadExists, HeadUnique
  <2>3. e.frame.id \in SurvivingIds(K)
    BY <2>1, <2>2, <1>5 DEF SurvivingIds
  <2> QED
    BY SMTT(30), <2>2, <2>3, <1>1, <1>2, <1>3
<1>6. \A g, h \in Compacted(K) : g.frame.id = h.frame.id => g = h
  BY <1>1, <1>2, <1>3
<1> QED
  BY <1>4, <1>5, <1>6

-----------------------------------------------------------------------------
(* A compaction: the rename of its temp file, and the deletions.           *)

\* Frames of different segments come in the order of the segments.
LEMMA LocBySegment ==
  ASSUME NEW e \in Entry, NEW f \in Entry
  PROVE  /\ e.seg < f.seg => LocLess(Loc(e), Loc(f)) /\ ~LocLess(Loc(f), Loc(e))
         /\ LocLess(Loc(e), Loc(f)) => e.seg <= f.seg
  BY LocType DEF LocLess

\* C is the front of the files F, from segment 1 on.
Front(F, C) == 1 \in C /\ \A s \in F, c \in C : s <= c => s \in C

\* The frames L are those of the files F.
Held(L, F) == /\ L \subseteq Entry /\ IsFiniteSet(L) /\ Unique(L)
              /\ F \subseteq Nat \ {0} /\ \A e \in L : e.seg \in F

\* Of the segments P that segment 1 replaces, s is the first to be deleted.
FirstObsolete(s, P, F) == s \in P \cap F /\ s > 1 /\ \A r \in P \cap F : r > 1 => s <= r

\* Segment 1 has taken the place of the segments P, some of which are still there:
\* it has the tasks that P would leave unfinished, each of them once.
Replaced(L, P) ==
  /\ \A e, g \in L : e.seg = 1 /\ g.seg = 1 /\ e.frame.id = g.frame.id => e = g
  /\ \A e \in Heads(InSegments(L, P \ {1})) :
       IF e.frame.op \in Terminal
       THEN \A g \in L : g.seg = 1 => g.frame.id # e.frame.id
       ELSE \E g \in L : g.seg = 1 /\ Strip(g.frame) = Strip(e.frame)

\* The log without segment s.
Unlinked(L, s) == {e \in L : e.seg # s}

(* The rename of a compaction tells the same of every task that is not      *)
(* finished.                                                                *)
LEMMA TipsRename ==
  ASSUME NEW L, NEW F, Held(L, F), NEW C, C \subseteq Nat, Front(F, C),
         NEW T, T = Compacted(InSegments(L, C)), T \subseteq Entry, \A g \in T : g.seg = 1
  PROVE  Forgets(Tips(L), Tips(Unlinked(L, 1) \cup T)) /\ Replaced(Unlinked(L, 1) \cup T, C)
<1> DEFINE K == InSegments(L, C)
<1> SUFFICES ASSUME L \subseteq Entry, IsFiniteSet(L), Unique(L), F \subseteq Nat \ {0},
                    \A e \in L : e.seg \in F, NEW M, M = {e \in L : e.seg # 1} \cup T
             PROVE  Forgets(Tips(L), Tips(M)) /\ Replaced(M, C)
  BY DEF Held, Unlinked
<1>1. /\ K \in SUBSET L /\ K \subseteq Entry /\ \A e \in L : e \in K <=> e.seg \in C
      /\ \A e \in L : e.seg \in Nat /\ e.seg >= 1 /\ e \in Entry /\ e.frame \in Frame
      /\ \A g \in T : g.frame \in Frame
  BY SMTT(30), LocType DEF InSegments
<1>2. IsFiniteSet(K) /\ Unique(K)
  BY <1>1, FS_Subset DEF Unique
<1>3. /\ \A g \in T : \E e \in Heads(K) : e.frame.op \notin Terminal /\ Strip(g.frame) = Strip(e.frame)
      /\ \A e \in Heads(K) : e.frame.op \notin Terminal => \E g \in T : Strip(g.frame) = Strip(e.frame)
      /\ \A g, h \in T : g.frame.id = h.frame.id => g = h
  BY <1>1, <1>2, CompactedTips
<1> HIDE DEF K
\* Segment 1 is in K, and with a frame of K every earlier one.
<1>4. /\ \A e \in L : e.seg = 1 => e \in K
      /\ \A e \in L, f \in K : e.seg <= f.seg => e \in K
  BY <1>1 DEF Front
<1>5. /\ \A e \in L : e.seg # 1 => \A g \in T : ~LocLess(Loc(e), Loc(g)) /\ LocLess(Loc(g), Loc(e))
      /\ \A e, f \in L : LocLess(Loc(e), Loc(f)) => e.seg <= f.seg
      /\ \A e, f \in L : e.seg < f.seg => ~LocLess(Loc(f), Loc(e))
  BY SMTT(30), <1>1, LocBySegment
\* Latest records outside segment 1 are latest records after the rename, and
\* the other way round.
<1>6. \A e \in L : e.seg # 1 => (e \in Heads(L) <=> e \in Heads(M))
  <2> SUFFICES ASSUME NEW e \in L, e.seg # 1 PROVE e \in Heads(L) <=> e \in Heads(M)
    OBVIOUS
  <2>1. ASSUME e \in Heads(L) PROVE e \in Heads(M)
    BY <2>1, <1>5 DEF Heads
  <2>2. ASSUME e \in Heads(M), NEW f \in L, f.frame.id = e.frame.id PROVE ~LocLess(Loc(e), Loc(f))
    <3>1. CASE f.seg = 1
      BY SMTT(30), <3>1, <1>1, <1>5
    <3>2. CASE f.seg # 1
      BY <3>2, <2>2 DEF Heads
    <3> QED
      BY <3>1, <3>2
  <2> QED
    BY <2>1, <2>2 DEF Heads
\* Nor does a latest record in segment 1 of a task have records elsewhere.
<1>7. \A e \in Heads(L) : e.seg = 1 => \A f \in L : f.frame.id = e.frame.id => f.seg = 1
  BY SMTT(30), <1>1, LocBySegment DEF Heads
<1>8. \A e \in Heads(L) : e.seg = 1 => e \in Heads(K)
  BY <1>1, <1>4 DEF Heads
<1>9. ASSUME NEW v \in Tips(L), v.op \notin Terminal PROVE v \in Tips(M)
  <2>1. PICK e \in Heads(L) : v = Strip(e.frame)
    BY DEF Tips
  <2>2. e \in L /\ e.frame.op \notin Terminal
    BY <2>1, <1>9, <1>1, StripOK DEF Heads
  <2>3. CASE e.seg # 1
    BY <2>1, <2>2, <2>3, <1>6 DEF Tips
  <2>4. CASE e.seg = 1
    <3>1. PICK g \in T : Strip(g.frame) = Strip(e.frame)
      BY <2>2, <2>4, <1>3, <1>8
    <3>2. g.frame.id = e.frame.id
      BY SMTT(30), <3>1, <2>2, <1>1, StripOK
    <3>3. \A f \in M : f.frame.id = g.frame.id => f = g
      BY SMTT(30), <3>2, <2>4, <1>3, <1>7
    <3>4. ~LocLess(Loc(g), Loc(g))
      BY LocType, LocOrder
    <3> QED
      BY <3>1, <3>3, <3>4, <2>1 DEF Heads, Tips
  <2> QED
    BY <2>3, <2>4
<1>10. ASSUME NEW v \in Tips(M) PROVE v \in Tips(L)
  <2>1. PICK g \in Heads(M) : v = Strip(g.frame)
    BY DEF Tips
  <2>2. CASE g \notin T
    <3>1. g \in L /\ g.seg # 1
      BY <2>2 DEF Heads
    <3> QED
      BY <3>1, <2>1, <1>6 DEF Tips
  <2>3. CASE g \in T
    <3>1. PICK e \in Heads(K) : e.frame.op \notin Terminal /\ Strip(g.frame) = Strip(e.frame)
      BY <2>3, <1>3
    <3>2. e \in K /\ e \in L /\ g.frame.id = e.frame.id
      BY SMTT(30), <3>1, <2>3, <1>1, StripOK DEF Heads
    <3>3. ASSUME NEW f \in L, f.frame.id = e.frame.id PROVE f.seg = 1
      BY <3>3, <3>2, <2>3, <1>5 DEF Heads
    <3>4. e \in Heads(L)
      BY <3>1, <3>2, <3>3, <1>4 DEF Heads
    <3> QED
      BY <3>1, <3>4, <2>1 DEF Tips
  <2> QED
    BY <2>2, <2>3
<1>11. \A e, g \in M : e.seg = 1 /\ g.seg = 1 /\ e.frame.id = g.frame.id => e = g
  BY <1>3
<1>12. ASSUME NEW e \in Heads(InSegments(M, C \ {1}))
       PROVE  IF e.frame.op \in Terminal
              THEN \A g \in M : g.seg = 1 => g.frame.id # e.frame.id
              ELSE \E g \in M : g.seg = 1 /\ Strip(g.frame) = Strip(e.frame)
  <2>1. e \in L /\ e.seg # 1 /\ e \in K
    BY <1>1 DEF Heads, InSegments
  <2>2. e \in Heads(K)
    <3> SUFFICES ASSUME NEW f \in K, f.frame.id = e.frame.id PROVE ~LocLess(Loc(e), Loc(f))
      BY <2>1 DEF Heads
    <3>1. CASE f.seg = 1
      BY SMTT(30), <3>1, <2>1, <1>1, <1>5
    <3>2. CASE f.seg # 1
      <4>1. f \in InSegments(M, C \ {1})
        BY <3>2, <1>1 DEF InSegments
      <4> QED
        BY <4>1 DEF Heads
    <3> QED
      BY <3>1, <3>2
  <2>3. CASE e.frame.op \in Terminal
    <3> SUFFICES ASSUME NEW g \in M, g.seg = 1, g.frame.id = e.frame.id PROVE FALSE
      BY <2>3
    <3>1. PICK d \in Heads(K) : d.frame.op \notin Terminal /\ Strip(g.frame) = Strip(d.frame)
      BY <1>3
    <3>2. d.frame.id = e.frame.id
      BY SMTT(30), <3>1, <1>1, StripOK DEF Heads
    <3> QED
      BY <3>1, <3>2, <2>2, <2>3, <1>1, <1>2, HeadUnique
  <2>4. CASE e.frame.op \notin Terminal
    BY <2>2, <2>4, <1>3
  <2> QED
    BY <2>3, <2>4
<1> QED
  BY <1>9, <1>10, <1>11, <1>12 DEF Forgets, Replaced

(* Deleting the first of the segments that segment 1 replaces changes       *)
(* nothing for a task that is not finished.                                 *)
LEMMA TipsUnlink ==
  ASSUME NEW L, NEW F, Held(L, F), NEW P, P \subseteq Nat, Front(F, P), Replaced(L, P),
         NEW s, FirstObsolete(s, P, F)
  PROVE  Forgets(Tips(L), Tips(Unlinked(L, s))) /\ Replaced(Unlinked(L, s), P)
<1> DEFINE R == InSegments(L, P \ {1})
<1> SUFFICES ASSUME L \subseteq Entry, IsFiniteSet(L), Unique(L), F \subseteq Nat \ {0},
                    \A e \in L : e.seg \in F, s \in P \cap F, s > 1,
                    \A r \in P \cap F : r > 1 => s <= r, NEW M, M = {e \in L : e.seg # s}
             PROVE  Forgets(Tips(L), Tips(M)) /\ Replaced(M, P)
  BY DEF Held, Unlinked, FirstObsolete
<1>1. /\ R \in SUBSET L /\ R \subseteq Entry /\ \A e \in L : e \in R <=> e.seg \in P /\ e.seg # 1
      /\ \A e \in L : e.seg \in Nat /\ e.seg >= 1 /\ e \in Entry /\ e.frame \in Frame
      /\ s \in Nat
  BY SMTT(30), LocType DEF InSegments
<1>2. IsFiniteSet(R) /\ Unique(R)
  BY <1>1, FS_Subset DEF Unique
<1>3. \A e \in L : /\ e.seg < s => e.seg = 1
                   /\ e.seg = s => e \in R
                   /\ e \in R /\ e.seg # s => e.seg > s
  <2> SUFFICES ASSUME NEW e \in L
               PROVE  /\ e.seg < s => e.seg = 1
                      /\ e.seg = s => e \in R
                      /\ e \in R /\ e.seg # s => e.seg > s
    OBVIOUS
  <2>1. e.seg \in F /\ e.seg \in Nat /\ e.seg >= 1 /\ s \in Nat /\ (e \in R <=> e.seg \in P /\ e.seg # 1)
    BY <1>1
  <2>2. e.seg <= s => e.seg \in P
    BY <2>1 DEF Front
  <2>3. e.seg \in P /\ e.seg > 1 => s <= e.seg
    BY <2>1
  <2> HIDE DEF R
  <2> QED
    BY <2>1, <2>2, <2>3
<1>4. /\ \A e, g \in L : e.seg = 1 /\ g.seg = 1 /\ e.frame.id = g.frame.id => e = g
      /\ \A e \in Heads(R) : e.frame.op \in Terminal => \A g \in L : g.seg = 1 => g.frame.id # e.frame.id
      /\ \A e \in Heads(R) : e.frame.op \notin Terminal =>
            \E g \in L : g.seg = 1 /\ Strip(g.frame) = Strip(e.frame)
  BY DEF Replaced
<1> HIDE DEF R
<1>5. /\ \A e, f \in L : LocLess(Loc(e), Loc(f)) => e.seg <= f.seg
      /\ \A e, f \in L : e.seg < f.seg => ~LocLess(Loc(f), Loc(e)) /\ LocLess(Loc(e), Loc(f))
  BY <1>1, LocBySegment
<1>6. ASSUME NEW v \in Tips(L), v.op \notin Terminal PROVE v \in Tips(M)
  <2>1. PICK e \in Heads(L) : v = Strip(e.frame)
    BY DEF Tips
  <2>2. e \in L /\ e.frame.op \notin Terminal /\ \A f \in L : f.frame.id = e.frame.id => ~LocLess(Loc(e), Loc(f))
    BY <2>1, <1>6, <1>1, StripOK DEF Heads
  <2>3. CASE e.seg # s
    BY <2>1, <2>2, <2>3 DEF Tips, Heads
  <2>4. CASE e.seg = s
    <3>1. e \in Heads(R)
      BY <2>2, <2>4, <1>1, <1>3 DEF Heads
    <3>2. PICK g \in L : g.seg = 1 /\ Strip(g.frame) = Strip(e.frame)
      BY <3>1, <2>2, <1>4
    <3>3. g.frame.id = e.frame.id /\ g \in M
      BY SMTT(30), <3>2, <2>2, <1>1, StripOK
    <3>4. ASSUME NEW f \in M, f.frame.id = g.frame.id PROVE f = g
      <4>1. f \in L /\ f.seg # s /\ ~LocLess(Loc(e), Loc(f))
        BY <3>3, <3>4, <2>2
      <4>2. f.seg < s
        BY SMTT(30), <4>1, <2>2, <2>4, <1>1, <1>5
      <4> QED
        BY <4>1, <4>2, <3>2, <3>4, <1>3, <1>4
    <3>5. ~LocLess(Loc(g), Loc(g))
      BY <1>1, LocType, LocOrder
    <3> QED
      BY <3>2, <3>3, <3>4, <3>5, <2>1 DEF Heads, Tips
  <2> QED
    BY <2>3, <2>4
<1>7. ASSUME NEW v \in Tips(M) PROVE v \in Tips(L)
  <2>1. PICK h \in Heads(M) : v = Strip(h.frame)
    BY DEF Tips
  <2>2. h \in L /\ h.seg # s /\ \A f \in M : f.frame.id = h.frame.id => ~LocLess(Loc(h), Loc(f))
    BY DEF Heads
  <2>3. CASE h \in Heads(L)
    BY <2>1, <2>3 DEF Tips
  <2>4. CASE h \notin Heads(L)
    <3>1. PICK f \in L : f.frame.id = h.frame.id /\ LocLess(Loc(h), Loc(f))
      BY <2>2, <2>4 DEF Heads
    <3>2. f.seg = s
      BY <3>1, <2>2
    <3>3. h.seg = 1 /\ f \in R
      BY SMTT(30), <3>1, <3>2, <2>2, <1>1, <1>3, <1>5
    <3>4. \A g \in L : g.frame.id = h.frame.id => g.seg = 1 \/ g.seg = s
      <4> SUFFICES ASSUME NEW g \in L, g.frame.id = h.frame.id, g.seg # s PROVE g.seg = 1
        OBVIOUS
      <4>1. ~LocLess(Loc(h), Loc(g))
        BY <2>2
      <4> QED
        BY SMTT(30), <4>1, <3>3, <2>2, <1>1, <1>5
    <3>5. PICK e \in Heads(R) : e.frame.id = h.frame.id
      <4>1. h.frame.id \in IdsIn(R)
        BY <3>1, <3>3 DEF IdsIn
      <4> QED
        BY <4>1, <1>1, <1>2, HeadExists
    <3>6. e \in R /\ e \in L /\ e.seg = s
      BY <3>4, <3>5, <1>1 DEF Heads
    <3>7. e.frame.op \notin Terminal
      BY <3>3, <3>5, <2>2, <1>4
    <3>8. PICK g \in L : g.seg = 1 /\ Strip(g.frame) = Strip(e.frame)
      BY <3>5, <3>7, <1>4
    <3>9. g = h
      <4>1. g.frame.id = h.frame.id
        BY SMTT(30), <3>5, <3>6, <3>8, <1>1, StripOK
      <4> QED
        BY <4>1, <3>3, <3>8, <2>2, <1>4
    <3>10. e \in Heads(L)
      <4> SUFFICES ASSUME NEW g1 \in L, g1.frame.id = e.frame.id PROVE ~LocLess(Loc(e), Loc(g1))
        BY <3>6 DEF Heads
      <4>1. CASE g1.seg = 1
        BY <4>1, <3>6, <1>1, <1>5
      <4>2. CASE g1.seg = s
        BY <4>2, <3>5, <1>3 DEF Heads
      <4> QED
        BY <4>1, <4>2, <3>4, <3>5
    <3> QED
      BY <3>8, <3>9, <3>10, <2>1 DEF Tips
  <2> QED
    BY <2>3, <2>4
<1>8. ASSUME NEW e \in Heads(InSegments(M, P \ {1}))
      PROVE  IF e.frame.op \in Terminal
             THEN \A g \in M : g.seg = 1 => g.frame.id # e.frame.id
             ELSE \E g \in M : g.seg = 1 /\ Strip(g.frame) = Strip(e.frame)
  <2>1. e \in L /\ e \in R /\ e.seg # s
    BY <1>1 DEF Heads, InSegments
  <2>2. e \in Heads(R)
    <3> SUFFICES ASSUME NEW f \in R, f.frame.id = e.frame.id PROVE ~LocLess(Loc(e), Loc(f))
      BY <2>1 DEF Heads
    <3>1. CASE f.seg = s
      BY <3>1, <2>1, <1>1, <1>3, <1>5
    <3>2. CASE f.seg # s
      <4>1. f \in InSegments(M, P \ {1})
        BY <3>2, <1>1 DEF InSegments
      <4> QED
        BY <4>1 DEF Heads
    <3> QED
      BY <3>1, <3>2
  <2>3. \A g \in L : g.seg = 1 => g \in M
    BY SMTT(30), <1>1
  <2> QED
    BY <2>2, <2>3, <1>4
<1>9. \A e, g \in M : e.seg = 1 /\ g.seg = 1 /\ e.frame.id = g.frame.id => e = g
  BY <1>4
<1> QED
  BY <1>6, <1>7, <1>8, <1>9 DEF Forgets, Replaced

HIDE DEF LocBySegment, TipsRename, TipsUnlink

-----------------------------------------------------------------------------
(* Tasks that wait in the order of their latest records.                   *)

\* The latest record of i is in front of that of j.
Ahead(H, i, j) == \A d, e \in H : d.frame.id = i /\ e.frame.id = j => LocLess(Loc(d), Loc(e))

\* In every bucket, the tasks wait in the order of their latest records.
InOrder(q, H) == \A p \in Priorities : \A i, j \in DOMAIN q.buckets[p] :
                   i < j => Ahead(H, q.buckets[p][i].id, q.buckets[p][j].id)

\* An order that the records keep.
LEMMA InOrderKept ==
  ASSUME NEW q, NEW H, NEW G, InOrder(q, H),
         \A u, v \in Queued(q) : Ahead(H, u.id, v.id) => Ahead(G, u.id, v.id)
  PROVE  InOrder(q, G)
<1> SUFFICES ASSUME NEW p \in Priorities, NEW i \in DOMAIN q.buckets[p], NEW j \in DOMAIN q.buckets[p], i < j
             PROVE  Ahead(G, q.buckets[p][i].id, q.buckets[p][j].id)
  BY DEF InOrder
<1>1. q.buckets[p][i] \in Queued(q) /\ q.buckets[p][j] \in Queued(q)
  BY QueuedDef
<1>2. Ahead(H, q.buckets[p][i].id, q.buckets[p][j].id)
  BY DEF InOrder
<1> QED
  BY <1>1, <1>2

\* A task goes behind those that are ahead of it.
LEMMA InOrderPush ==
  ASSUME NEW q \in Queue, NEW H, InOrder(q, H), NEW t \in TaskRef, \A u \in Queued(q) : Ahead(H, u.id, t.id)
  PROVE  InOrder(QueuePush(q, t), H)
<1> DEFINE P == t.priority
           r == QueuePush(q, t)
           k == Len(q.buckets[P])
<1>1. /\ P \in Priorities /\ k \in Nat
      /\ DOMAIN q.buckets[P] = 1..k /\ DOMAIN r.buckets[P] = 1..(k + 1)
      /\ \A i \in 1..k : r.buckets[P][i] = q.buckets[P][i]
      /\ r.buckets[P][k + 1] = t
      /\ \A p \in Priorities \ {P} : r.buckets[p] = q.buckets[p]
  BY ZenonT(30), PushBuckets
<1> HIDE DEF P, k
<1> SUFFICES ASSUME NEW p \in Priorities, NEW i \in DOMAIN r.buckets[p], NEW j \in DOMAIN r.buckets[p], i < j
             PROVE  Ahead(H, r.buckets[p][i].id, r.buckets[p][j].id)
  BY DEF InOrder
<1> HIDE DEF r
<1>2. CASE p # P
  <2>1. r.buckets[p] = q.buckets[p]
    BY <1>1, <1>2
  <2> QED
    BY <2>1 DEF InOrder
<1>3. CASE p = P
  <2>1. i \in 1..k /\ (j \in 1..k \/ j = k + 1)
    BY SMTT(30), <1>1, <1>3
  <2>2. q.buckets[P][i] \in Queued(q)
    BY <1>1, <2>1, QueuedDef
  <2>3. CASE j \in 1..k
    BY <1>1, <1>3, <2>1, <2>3 DEF InOrder
  <2>4. CASE j = k + 1
    <3>1. r.buckets[p][i] = q.buckets[P][i] /\ r.buckets[p][j] = t
      BY <1>1, <1>3, <2>1, <2>4
    <3> QED
      BY <2>2, <3>1
  <2> QED
    BY <2>1, <2>3, <2>4
<1> QED
  BY <1>2, <1>3

\* Taking the first task out of its bucket leaves the others in order.
LEMMA InOrderPop ==
  ASSUME NEW q \in Queue, BitmapMatches(q), HasTask(q), NEW H, InOrder(q, H)
  PROVE  InOrder(QueuePop(q), H)
<1> DEFINE P == TopPriority(q)
           r == QueuePop(q)
           k == Len(q.buckets[P])
<1>1. /\ P \in Priorities /\ k \in Nat /\ k >= 1
      /\ DOMAIN q.buckets[P] = 1..k /\ DOMAIN r.buckets[P] = 1..(k - 1)
      /\ \A i \in 1..(k - 1) : r.buckets[P][i] = q.buckets[P][i + 1]
      /\ \A p \in Priorities \ {P} : r.buckets[p] = q.buckets[p]
  BY PopBuckets
<1> HIDE DEF P, k
<1> SUFFICES ASSUME NEW p \in Priorities, NEW i \in DOMAIN r.buckets[p], NEW j \in DOMAIN r.buckets[p], i < j
             PROVE  Ahead(H, r.buckets[p][i].id, r.buckets[p][j].id)
  BY DEF InOrder
<1> HIDE DEF r
<1>2. CASE p # P
  <2>1. r.buckets[p] = q.buckets[p]
    BY <1>1, <1>2
  <2> QED
    BY <2>1 DEF InOrder
<1>3. CASE p = P
  <2>1. i \in 1..(k - 1) /\ j \in 1..(k - 1) /\ i + 1 \in 1..k /\ j + 1 \in 1..k /\ i + 1 < j + 1
    BY <1>1, <1>3
  <2>2. r.buckets[p][i] = q.buckets[p][i + 1] /\ r.buckets[p][j] = q.buckets[p][j + 1]
    BY <1>1, <1>3, <2>1
  <2>3. Ahead(H, q.buckets[p][i + 1].id, q.buckets[p][j + 1].id)
    BY <1>1, <1>3, <2>1 DEF InOrder
  <2> QED
    BY <2>2, <2>3
<1> QED
  BY <1>2, <1>3

=============================================================================
