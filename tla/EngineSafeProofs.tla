-------------------------- MODULE EngineSafeProofs --------------------------
(***************************************************************************)
(* No task is lost: the directory has a record of every task that is not   *)
(* finished, at every step of the calls, of compact() and of open() and at *)
(* a kill between two of them, and recover() finds it.  With it, when push *)
(* can give an id out a second time.                                       *)
(***************************************************************************)
EXTENDS EngineProofs

\* Every leaf is tried with Zenon first and, if that fails, with the SMT solver.
USE ZenonT(10), SMTT(30)

\* Facts of the extended modules that no proof below needs.
HIDE DEF NatInduction, DownwardNatInduction, GeneralNatInduction,
         SmallestNatural, RecursiveFcnOfNat, NatInductiveDef,
         RecursiveFcnOfNatType, NatInductiveDefType, RecursiveFcnOfNatUnique,
         NatInductiveUnique, FiniteNatInductiveDef,
         FiniteNatInductiveDefType, FiniteNatInductiveUnique,
         EmptyIsWellFounded, IsWellFoundedOnSubset,
         IsWellFoundedOnSubrelation, WFMin, MinWF, WellFoundedIsIrreflexive,
         WellFoundedIsAsymmetric, WFSetLessThanIrreflexive,
         SetLessTransitive, WFInduction, WFDefOnUnique, WFInductiveDefLemma,
         TransitiveClosureThm, TransitiveClosureMinimal, TCTCTC, TCRTC,
         RTCTC, TransitiveClosureChopLast, TransitiveClosureWF,
         WFInductiveDef, WFInductiveDefType, NatLessThanWellFounded,
         PreImageWellFounded, WFLexPairOrdering, WFLexProductOrdering,
         FS_NatSurjection, FS_NatBijection, FS_CountingElements,
         FS_SurjCardinalityBound, FS_CardinalityType, FS_Bijection,
         FS_SameCardinalityBij, FS_SurjSameCardinalityImpliesInj,
         FS_Surjection, FS_Image, FS_Injection, FS_PigeonHole, FS_EmptySet,
         FS_AddElement, FS_RemoveElement, FS_Singleton, FS_Subset,
         FS_Interval, FS_BoundedSetOfNaturals, FS_Induction,
         FS_FiniteSubsetsOfFinite, FS_StrictSubsetOrderingWellFounded,
         FS_WFInduction, FS_Union, FS_MajoritiesIntersect, FS_Intersection,
         FS_Difference, FS_UNION, FS_Product, FS_SUBSET, SetExtensionality,
         NoSetContainsEverything, NatMin, BitMax, WordAndBit, WordBitUnique,
         EmptyQueueOK, PushOK, TopOK, QueuedDef, AppendIs, TailElements,
         PushBuckets, PopBuckets, CountedEmpty, CountedPush, CountedPop,
         CacheType, LocOrder, LocType, MaximalExists, LastOK, ImageFinite,
         SegmentCount, SurvivorsOK, OffsetsOK, CompactedOK, SubsetUnique,
         WithoutSegment, CutSegment, ReplaceSegment, EarliestExists,
         PutHolds, CacheInsertHolds, HeadUnique, TipsAppend, CompactedTips,
         LocBySegment, TipsRename, TipsUnlink, InOrderKept, InOrderPush,
         InOrderPop, NextLocFree, AppendLayout, AppendFailsLayout,
         LayoutUnchanged, UnlinkLayout, CompactionLayout, CrashLayout,
         LastSegmentOK, ScanLayout, OpenLayout, QueueOKEmpty, QueueOKPush,
         QueueOKPop, LeasesOKEmpty, LeasesOKPut, LeasesOKDrop, IndexPut,
         IndexDrop, LatestPush, PushOfOK, TasksUnchanged, TasksAppend,
         FailureOK, PushStep, AckStep, NackStep, PopStep, FailedCallStep,
         RestStep, ReaderStep, ClearOrTickStep, ExpirationStep,
         CompactionStep, CrashStep, OpenStep, LocationsOK, RecoverIndexStep,
         NextEntryFirst, ReplayStep, InitIInv, NextIInv, TypeCorrect,
         RetriesAreBounded, NoFrameOverwritten, UnlinkTips

-----------------------------------------------------------------------------
(* A push that is not finished has a record in the log and, once recover() *)
(* has read it, a place in memory.                                         *)

\* recover() has read the log; the pushes that are done.
Replayed == mode \in {"replay", "up"}

Finished == acked \cup dead

\* The ids a running process works on.
Live == entries \cup ReadyIds \cup DOMAIN leased \cup {t.id : t \in expired_tasks}

\* A push that is not finished has a record that says so, and its id has not
\* been given out again.
Kept == \A n \in DOMAIN pushed \ Finished :
          /\ \E v \in Tips(log) : v.id = pushed[n] /\ v.op \notin Terminal
          /\ \A m \in DOMAIN pushed : pushed[m] = pushed[n] => m <= n

\* Before recover() has read the log, memory is empty.
Blank == /\ ~Replayed => ready_queue = EmptyQueue /\ leased = EmptyMap
         /\ mode # "up" => expired_tasks = {}

\* Afterwards the next id is above all others, what is left to replay is found
\* where the index says, and every push that is not finished has its place.
Placed == Replayed =>
  /\ \A v \in Tips(log) : v.id < next_id
  /\ \A id \in Live : id < next_id
  /\ \A id \in entries : \E e \in Heads(log) : e.frame.id = id /\ index[id] = Loc(e)
  /\ mode = "up" => entries = {}
  /\ \A n \in DOMAIN pushed \ Finished :
       pushed[n] \in entries \cup ReadyIds \cup DOMAIN leased \cup stranded

\* No task is lost, neither in the log nor in memory.
Safe == Kept /\ Blank /\ Placed

\* The last push that was given an id.
LEMMA PushOfLatest ==
  ASSUME TasksOK, NEW n \in DOMAIN pushed, \A m \in DOMAIN pushed : pushed[m] = pushed[n] => m <= n
  PROVE  PushOf(pushed[n]) = n
<1>1. DOMAIN pushed \subseteq Nat
  BY DEF TasksOK
<1>2. PushOf(pushed[n]) \in DOMAIN pushed /\ pushed[PushOf(pushed[n])] = pushed[n]
      /\ \A m \in DOMAIN pushed : pushed[m] = pushed[n] => m <= PushOf(pushed[n])
  BY DEF PushOf
<1> QED
  BY <1>1, <1>2

\* Steps that append no record and finish no push.
LEMMA QuietKept ==
  ASSUME Kept, Forgets(Tips(log), Tips(log)'), UNCHANGED <<pushed, acked, dead>>
  PROVE  Kept'
<1>1. \A v \in Tips(log) : v.op \notin Terminal => v \in Tips(log)'
  BY DEF Forgets
<1> QED
  BY <1>1 DEF Kept, Finished

\* Steps that leave the tasks where they are.
LEMMA QuietPlaced ==
  ASSUME Placed, Forgets(Tips(log), Tips(log)'), mode = "replay" => UNCHANGED <<log, index>>,
         {t.id : t \in expired_tasks'} \subseteq {t.id : t \in expired_tasks} \cup DOMAIN leased,
         UNCHANGED <<next_id, ready_queue, leased, stranded, entries, pushed, acked, dead, mode>>
  PROVE  Placed'
<1> SUFFICES ASSUME Replayed PROVE Placed'
  BY DEF Placed, Replayed
<1>1. Live' \subseteq Live /\ ReadyIds' = ReadyIds /\ Finished' = Finished
  BY DEF Live, ReadyIds, Finished
<1>2. Tips(log)' \subseteq Tips(log)
  BY DEF Forgets
<1>3. \A id \in entries' : \E e \in Heads(log') : e.frame.id = id /\ index'[id] = Loc(e)
  BY DEF Placed, Replayed
<1> QED
  BY <1>1, <1>2, <1>3 DEF Placed, Replayed

\* Steps that append a record f of a task there is.
LEMMA AppendKept ==
  ASSUME TasksOK, Kept, NEW f \in Frame, Tips(log)' = Told(Tips(log), f), pushed' = pushed,
         Finished \subseteq Finished', f.op \in Terminal => PushOf(f.id) \in Finished'
  PROVE  Kept'
<1> SUFFICES ASSUME NEW n \in DOMAIN pushed \ Finished'
             PROVE  /\ \E v \in Tips(log)' : v.id = pushed[n] /\ v.op \notin Terminal
                    /\ \A m \in DOMAIN pushed : pushed[m] = pushed[n] => m <= n
  BY DEF Kept
<1>1. PICK v \in Tips(log) : v.id = pushed[n] /\ v.op \notin Terminal
  BY DEF Kept
<1>2. \A m \in DOMAIN pushed : pushed[m] = pushed[n] => m <= n
  BY DEF Kept
<1>3. PushOf(pushed[n]) = n
  BY <1>2, PushOfLatest
<1>4. CASE pushed[n] # f.id
  BY <1>1, <1>2, <1>4 DEF Told
<1>5. CASE pushed[n] = f.id
  <2>1. f.op \notin Terminal
    BY <1>3, <1>5
  <2>2. Strip(f) \in Tips(log)' /\ Strip(f).id = f.id /\ Strip(f).op = f.op
    BY StripOK DEF Told
  <2> QED
    BY <2>1, <2>2, <1>2, <1>5
<1> QED
  BY <1>4, <1>5

\* The same for what memory has: the task of f may go where it likes, as long as
\* every push that is not finished keeps a place.
LEMMA AppendPlaced ==
  ASSUME mode = "up", Placed, NEW f \in Frame, Tips(log)' = Told(Tips(log), f), f.id < next_id,
         Live' \subseteq Live, UNCHANGED <<mode, entries, next_id, pushed>>, Finished \subseteq Finished',
         \A n \in DOMAIN pushed \ Finished' :
            pushed[n] \in ReadyIds \cup DOMAIN leased \cup stranded =>
              pushed[n] \in (ReadyIds \cup DOMAIN leased \cup stranded)'
  PROVE  Placed'
<1>1. \A v \in Tips(log)' : v \in Tips(log) \/ v.id = f.id
  BY StripOK DEF Told
<1>2. /\ \A v \in Tips(log) : v.id < next_id
      /\ \A id \in Live : id < next_id
      /\ entries = {}
      /\ \A n \in DOMAIN pushed \ Finished : pushed[n] \in ReadyIds \cup DOMAIN leased \cup stranded
  BY DEF Placed, Replayed
<1>3. \A n \in DOMAIN pushed \ Finished' : pushed[n] \in (ReadyIds \cup DOMAIN leased \cup stranded)'
  BY <1>2
<1> QED
  BY <1>1, <1>2, <1>3 DEF Placed, Replayed

-----------------------------------------------------------------------------
(* What the calls do, in terms of the tips of the log and of the tasks that  *)
(* wait.                                                                     *)

(* push  (engine.rs:165-188)                                                 *)
LEMMA PushMoves ==
  ASSUME IInv, Disk, NEW p \in Priorities, Push(p)
  PROVE  LET f == CreatedFrame(next_id, p, Len(pushed) + 1)
             t == [id |-> next_id, priority |-> p, retries |-> 0]
         IN  /\ Disk' /\ f \in Frame /\ Tips(log)' = Told(Tips(log), f)
             /\ t \in TaskRef /\ ready_queue' = QueuePush(ready_queue, t)
             /\ Queued(ready_queue)' = Queued(ready_queue) \cup {t}
             /\ mode = "up" /\ next_id' = next_id + 1 /\ pushed' = Append(pushed, next_id)
             /\ UNCHANGED <<mode, entries, leased, expired_tasks, stranded, acked, dead>>
<1> DEFINE f == CreatedFrame(next_id, p, Len(pushed) + 1)
           t == [id |-> next_id, priority |-> p, retries |-> 0]
<1>1. /\ mode = "up" /\ lock = "free" /\ next_id' = next_id + 1 /\ pushed' = Append(pushed, next_id)
      /\ WalAppend(f) /\ ready_queue' = QueuePush(ready_queue, t)
      /\ UNCHANGED <<mode, entries, leased, expired_tasks, stranded, acked, dead, lock, sides, temp, planned,
                     compaction>>
  BY DEF Push, CanLock, sideVars, threads, process
<1>2. next_id \in Nat /\ pushed \in Seq(Nat)
  BY DEF IInv, IndexOK, TasksOK
<1>3. f \in Frame
  <2>1. Len(pushed) + 1 \in Nat
    BY <1>2
  <2> QED
    BY <2>1, <1>2, CreatedFrameType
<1>4. t \in TaskRef
  BY <1>2 DEF TaskRef
<1> HIDE DEF f, t
<1>5. Layout /\ SideFiles
  BY DEF IInv, RestOK, SideFiles
<1>6. Disk' /\ Tips(log)' = Told(Tips(log), f)
  BY <1>1, <1>3, <1>5, AppendDisk
<1>7. ready_queue \in Queue
  BY DEF IInv, TasksOK, QueueOK
<1>8. Queued(ready_queue)' = Queued(ready_queue) \cup {t}
  BY <1>1, <1>4, <1>7, QueuedPush
<1> QED
  BY <1>1, <1>3, <1>4, <1>6, <1>8 DEF f, t

(* ack  (engine.rs:311-330)                                                  *)
LEMMA AckMoves ==
  ASSUME IInv, Disk, NEW c \in Consumers, NEW id \in DOMAIN leased, Ack(c, id)
  PROVE  LET f == AckedFrame(id, leased[id].priority)
         IN  /\ Disk' /\ f \in Frame /\ Tips(log)' = Told(Tips(log), f)
             /\ mode = "up" /\ leased' = Drop(leased, id) /\ acked' = acked \cup {PushOf(id)}
             /\ UNCHANGED <<mode, entries, next_id, ready_queue, expired_tasks, stranded, pushed, dead>>
<1> DEFINE f == AckedFrame(id, leased[id].priority)
<1>1. /\ mode = "up" /\ lock = "free" /\ WalAppend(f)
      /\ leased' = Drop(leased, id) /\ acked' = acked \cup {PushOf(id)}
      /\ UNCHANGED <<mode, entries, next_id, ready_queue, expired_tasks, stranded, pushed, dead, lock,
                     sides, temp, planned, compaction>>
  BY DEF Ack, CanLock, sideVars, threads, process
<1>2. id \in Nat /\ leased[id].priority \in Priorities
  BY DEF IInv, TasksOK, LeasesOK, LeaseInfo
<1>3. f \in Frame
  BY <1>2, AckedFrameType
<1> HIDE DEF f
<1>4. Layout /\ SideFiles
  BY DEF IInv, RestOK, SideFiles
<1>5. Disk' /\ Tips(log)' = Told(Tips(log), f)
  BY <1>1, <1>3, <1>4, AppendDisk
<1> QED
  BY <1>1, <1>3, <1>5 DEF f

\* The record process_task_failure writes, and the task it puts back.
FailureFrame(id, p, r, op) == FailedFrame(id, IF Exhausted(r) THEN "DeadLettered" ELSE op, p, r + 1)
Retried(id, p, r) == [id |-> id, priority |-> p, retries |-> r + 1]

\* A call of process_task_failure, and what its callers leave alone.
FailureCall(id, p, r, op) ==
  /\ mode = "up" /\ lock # "compact" /\ lock' # "compact"
  /\ id \in Nat /\ p \in Priorities /\ r \in Nat /\ op \in {"Nacked", "Expired"}
  /\ process_task_failure(id, p, r, op)
  /\ UNCHANGED <<sides, temp, planned, mode, compaction>>

(* process_task_failure, for nack and for the expiration thread              *)
(* (engine.rs:359-383).                                                      *)
LEMMA FailureMoves ==
  ASSUME IInv, Disk, NEW id, NEW p, NEW r, NEW op, FailureCall(id, p, r, op)
  PROVE  /\ Disk' /\ FailureFrame(id, p, r, op) \in Frame /\ Retried(id, p, r) \in TaskRef
         /\ Tips(log)' = Told(Tips(log), FailureFrame(id, p, r, op))
         /\ leased' = Drop(leased, id)
         /\ Exhausted(r) => dead' = dead \cup {PushOf(id)} /\ ready_queue' = ready_queue
         /\ ~Exhausted(r) => /\ dead' = dead /\ ready_queue' = QueuePush(ready_queue, Retried(id, p, r))
                             /\ Queued(ready_queue)' = Queued(ready_queue) \cup {Retried(id, p, r)}
<1> DEFINE f == FailureFrame(id, p, r, op)
           t == Retried(id, p, r)
<1>0. /\ mode = "up" /\ lock # "compact" /\ lock' # "compact"
      /\ id \in Nat /\ p \in Priorities /\ r \in Nat /\ op \in {"Nacked", "Expired"}
      /\ UNCHANGED <<sides, temp, planned, mode, compaction>>
  BY DEF FailureCall
<1>1. f \in Frame
  BY <1>0, FailedFrameType DEF OpType, Terminal, FailureFrame
<1>2. /\ WalAppend(f) /\ leased' = Drop(leased, id)
      /\ Exhausted(r) => dead' = dead \cup {PushOf(id)} /\ ready_queue' = ready_queue
      /\ ~Exhausted(r) => dead' = dead /\ ready_queue' = QueuePush(ready_queue, t)
  BY DEF FailureCall, process_task_failure, FailureFrame, Retried
<1>3. t \in TaskRef
  BY <1>0 DEF TaskRef, Retried
<1> HIDE DEF f, t
<1>4. Layout /\ SideFiles /\ ready_queue \in Queue
  BY DEF IInv, RestOK, SideFiles, TasksOK, QueueOK
<1>5. Disk' /\ Tips(log)' = Told(Tips(log), f)
  BY <1>1, <1>2, <1>4, <1>0, AppendDisk
<1>6. ~Exhausted(r) => Queued(ready_queue)' = Queued(ready_queue) \cup {t}
  BY <1>2, <1>3, <1>4, QueuedPush
<1> QED
  BY <1>1, <1>2, <1>3, <1>5, <1>6 DEF f, t

(* pop_and_lease, under the lock  (engine.rs:190-309)                        *)
LEMMA PopMoves ==
  ASSUME IInv, Disk, NEW c \in Consumers, NEW ttl \in TTLs, PopAndLease(c, ttl)
  PROVE  LET t == QueueFront(ready_queue)
             f == LeasedFrame(t, c, now + ttl)
         IN  /\ Disk' /\ f \in Frame /\ Tips(log)' = Told(Tips(log), f)
             /\ mode = "up" /\ HasTask(ready_queue) /\ t \in Queued(ready_queue) /\ t \in TaskRef
             /\ ready_queue' = QueuePop(ready_queue)
             /\ leased' = Put(leased, t.id, [consumer_id |-> c, expire_timestamp |-> now + ttl,
                                             retries |-> t.retries, priority |-> t.priority])
             /\ UNCHANGED <<mode, entries, next_id, expired_tasks, stranded, pushed, acked, dead>>
<1> DEFINE t == QueueFront(ready_queue)
           f == LeasedFrame(t, c, now + ttl)
<1>1. /\ mode = "up" /\ lock = "free" /\ HasTask(ready_queue) /\ ready_queue' = QueuePop(ready_queue)
      /\ WalAppend(f)
      /\ leased' = Put(leased, t.id, [consumer_id |-> c, expire_timestamp |-> now + ttl,
                                      retries |-> t.retries, priority |-> t.priority])
      /\ UNCHANGED <<mode, entries, next_id, expired_tasks, stranded, pushed, acked, dead, lock,
                     sides, temp, planned, compaction>>
  BY DEF PopAndLease, CanLock, sideVars, process, history
<1>2. ready_queue \in Queue /\ BitmapMatches(ready_queue)
  BY DEF IInv, TasksOK, QueueOK
<1>3. t \in Queued(ready_queue) /\ t \in TaskRef
  BY <1>1, <1>2, PopTakes, PopOK
<1>4. now + ttl \in Nat
  BY SMTT(30), Bounds DEF IInv, RestOK
<1>5. f \in Frame
  BY <1>3, <1>4, LeasedFrameType
<1> HIDE DEF f, t
<1>6. Layout /\ SideFiles
  BY DEF IInv, RestOK, SideFiles
<1>7. Disk' /\ Tips(log)' = Told(Tips(log), f)
  BY <1>1, <1>5, <1>6, AppendDisk
<1> QED
  BY <1>1, <1>3, <1>5, <1>7 DEF f, t

-----------------------------------------------------------------------------
(* The calls of producers and consumers lose no task.                      *)

(* push: the new id is above all others.                                     *)
LEMMA PushSafe ==
  ASSUME IInv, Disk, Safe, NEW p \in Priorities, Push(p)
  PROVE  Safe'
<1> DEFINE f == CreatedFrame(next_id, p, Len(pushed) + 1)
           t == [id |-> next_id, priority |-> p, retries |-> 0]
<1>1. /\ f \in Frame /\ Tips(log)' = Told(Tips(log), f)
      /\ Queued(ready_queue)' = Queued(ready_queue) \cup {t}
      /\ mode = "up" /\ next_id' = next_id + 1 /\ pushed' = Append(pushed, next_id)
      /\ UNCHANGED <<mode, entries, leased, expired_tasks, stranded, acked, dead>>
  BY PushMoves
<1>2. f.id = next_id /\ f.op = "Created" /\ t.id = next_id
  BY DEF CreatedFrame
<1> HIDE DEF f, t
<1>3. next_id \in Nat /\ pushed \in Seq(Nat) /\ Tips(log) \subseteq Frame
  BY TipsFrame DEF IInv, IndexOK, TasksOK, Layout, IsLog
<1>4. /\ Len(pushed) \in Nat /\ DOMAIN pushed = 1..Len(pushed)
      /\ DOMAIN pushed' = 1..(Len(pushed) + 1)
      /\ \A n \in DOMAIN pushed : pushed'[n] = pushed[n]
      /\ pushed'[Len(pushed) + 1] = next_id
  BY SMTT(30), <1>1, <1>3, AppendElements
<1>5. ReadyIds' = ReadyIds \cup {next_id}
  BY <1>1, <1>2 DEF ReadyIds
<1>6. /\ \A v \in Tips(log) : v.id < next_id
      /\ \A id \in Live : id < next_id
      /\ entries = {}
      /\ \A n \in DOMAIN pushed \ Finished : pushed[n] \in ReadyIds \cup DOMAIN leased \cup stranded
  BY <1>1 DEF Safe, Placed, Replayed
<1>7. Finished' = Finished
  BY <1>1 DEF Finished
<1>8. Strip(f) \in Tips(log)' /\ Strip(f).id = next_id /\ Strip(f).op \notin Terminal
  BY <1>1, <1>2, StripOK DEF Told, Terminal
<1>9. ASSUME NEW n \in DOMAIN pushed' \ Finished'
      PROVE  /\ \E v \in Tips(log)' : v.id = pushed'[n] /\ v.op \notin Terminal
             /\ \A m \in DOMAIN pushed' : pushed'[m] = pushed'[n] => m <= n
             /\ pushed'[n] \in ReadyIds' \cup DOMAIN leased \cup stranded
  <2>1. CASE n = Len(pushed) + 1
    BY <2>1, <1>4, <1>5, <1>8
  <2>2. CASE n \in DOMAIN pushed
    <3>1. PICK v \in Tips(log) : v.id = pushed[n] /\ v.op \notin Terminal
      BY <2>2, <1>7 DEF Safe, Kept
    <3>2. v.id # next_id /\ v \in Tips(log)'
      BY SMTT(30), <3>1, <1>1, <1>2, <1>3, <1>6 DEF Told, Frame
    <3>3. ASSUME NEW m \in DOMAIN pushed', pushed'[m] = pushed'[n] PROVE m <= n
      <4>1. m # Len(pushed) + 1
        BY <3>1, <3>2, <3>3, <2>2, <1>4
      <4>2. m \in DOMAIN pushed /\ pushed[m] = pushed[n]
        BY <4>1, <3>3, <2>2, <1>4
      <4> QED
        BY <4>2, <2>2, <1>7 DEF Safe, Kept
    <3> QED
      BY <3>1, <3>2, <3>3, <2>2, <1>4, <1>5, <1>6, <1>7
  <2> QED
    BY SMTT(30), <2>1, <2>2, <1>4
<1>10. Kept'
  BY <1>9 DEF Kept
<1>11. \A v \in Tips(log)' : v.id < next_id'
  <2>1. \A v \in Tips(log)' : v \in Tips(log) \/ v = Strip(f)
    BY <1>1 DEF Told
  <2>2. \A v \in Tips(log) : v.id \in Nat
    BY <1>3 DEF Frame
  <2> QED
    BY SMTT(30), <2>1, <2>2, <1>1, <1>3, <1>6, <1>8
<1>12. \A id \in Live' : id < next_id'
  <2>1. Live' = Live \cup {next_id}
    BY <1>1, <1>5 DEF Live
  <2>2. Live \subseteq Nat
    BY KnownNat DEF Live, IInv, TasksOK, QueueOK, LeasesOK, TaskOK, ReadyIds
  <2> QED
    BY <2>1, <2>2, <1>1, <1>3, <1>6
<1>13. Placed'
  BY <1>1, <1>6, <1>9, <1>11, <1>12 DEF Placed
<1>14. Blank'
  BY <1>1 DEF Safe, Blank, Replayed
<1> QED
  BY <1>10, <1>13, <1>14 DEF Safe

(* ack: the push it finishes is the one that has the id.                     *)
LEMMA AckSafe ==
  ASSUME IInv, Disk, Safe, NEW c \in Consumers, NEW id \in DOMAIN leased, Ack(c, id)
  PROVE  Safe'
<1> DEFINE f == AckedFrame(id, leased[id].priority)
<1>1. /\ f \in Frame /\ Tips(log)' = Told(Tips(log), f)
      /\ mode = "up" /\ leased' = Drop(leased, id) /\ acked' = acked \cup {PushOf(id)}
      /\ UNCHANGED <<mode, entries, next_id, ready_queue, expired_tasks, stranded, pushed, dead>>
  BY AckMoves
<1>2. f.id = id
  BY DEF AckedFrame
<1> HIDE DEF f
<1>3. Finished \subseteq Finished' /\ PushOf(id) \in Finished'
  BY <1>1 DEF Finished
<1>4. Kept'
  BY <1>1, <1>2, <1>3, AppendKept DEF IInv, Safe
<1>5. ReadyIds' = ReadyIds /\ DOMAIN leased' = DOMAIN leased \ {id}
  BY <1>1 DEF ReadyIds, Drop
<1>6. Live' \subseteq Live /\ id \in Live
  BY <1>1, <1>5 DEF Live
<1>7. id < next_id
  BY <1>1, <1>6 DEF Safe, Placed, Replayed
<1>8. ASSUME NEW n \in DOMAIN pushed \ Finished', pushed[n] \in ReadyIds \cup DOMAIN leased \cup stranded
      PROVE  pushed[n] \in (ReadyIds \cup DOMAIN leased \cup stranded)'
  <2>1. PushOf(pushed[n]) = n
    BY <1>3, PushOfLatest DEF IInv, Safe, Kept
  <2>2. pushed[n] # id
    BY <2>1, <1>3
  <2> QED
    BY <2>2, <1>1, <1>5, <1>8
<1>9. Placed'
  BY <1>1, <1>2, <1>3, <1>6, <1>7, <1>8, AppendPlaced DEF Safe
<1>10. Blank'
  BY <1>1 DEF Safe, Blank, Replayed
<1> QED
  BY <1>4, <1>9, <1>10 DEF Safe

(* nack and expiry, whether the snapshot they go by is stale or not.         *)
LEMMA FailureSafe ==
  ASSUME IInv, Disk, Safe, NEW id \in Live, NEW p, NEW r, NEW op, FailureCall(id, p, r, op),
         expired_tasks' \subseteq expired_tasks,
         UNCHANGED <<entries, next_id, stranded, pushed, acked>>
  PROVE  Disk' /\ Safe'
<1> DEFINE f == FailureFrame(id, p, r, op)
           t == Retried(id, p, r)
<1>1. /\ Disk' /\ f \in Frame /\ Tips(log)' = Told(Tips(log), f)
      /\ leased' = Drop(leased, id)
      /\ Exhausted(r) => dead' = dead \cup {PushOf(id)} /\ ready_queue' = ready_queue
      /\ ~Exhausted(r) => dead' = dead /\ Queued(ready_queue)' = Queued(ready_queue) \cup {t}
  BY FailureMoves
<1>0. mode = "up" /\ mode' = mode /\ op \in {"Nacked", "Expired"}
  BY DEF FailureCall
<1>2. f.id = id /\ t.id = id /\ (f.op \in Terminal => Exhausted(r))
  BY <1>0 DEF FailureFrame, Retried, FailedFrame, Terminal
<1> HIDE DEF f, t
<1>3. Finished \subseteq Finished' /\ (Exhausted(r) => PushOf(id) \in Finished')
  BY <1>1 DEF Finished
<1>4. Kept'
  BY <1>1, <1>2, <1>3, AppendKept DEF IInv, Safe
<1>5. /\ DOMAIN leased' = DOMAIN leased \ {id}
      /\ ReadyIds \subseteq ReadyIds' /\ ReadyIds' \subseteq ReadyIds \cup {id}
      /\ ~Exhausted(r) => id \in ReadyIds'
  BY <1>1, <1>2 DEF ReadyIds, Drop
<1>6. Live' \subseteq Live
  BY <1>0, <1>5 DEF Live
<1>7. id < next_id
  BY <1>0 DEF Safe, Placed, Replayed
<1>8. ASSUME NEW n \in DOMAIN pushed \ Finished', pushed[n] \in ReadyIds \cup DOMAIN leased \cup stranded
      PROVE  pushed[n] \in (ReadyIds \cup DOMAIN leased \cup stranded)'
  <2>1. PushOf(pushed[n]) = n
    BY <1>3, PushOfLatest DEF IInv, Safe, Kept
  <2>2. pushed[n] = id => ~Exhausted(r)
    BY <2>1, <1>3
  <2> QED
    BY <2>2, <1>5, <1>8
<1>9. Placed'
  BY <1>1, <1>2, <1>3, <1>6, <1>7, <1>8, <1>0, AppendPlaced DEF Safe
<1>10. Blank'
  BY <1>0 DEF Safe, Blank, Replayed
<1> QED
  BY <1>1, <1>4, <1>9, <1>10 DEF Safe

(* pop_and_lease: the task leaves ready_queue for the leases.                *)
LEMMA PopSafe ==
  ASSUME IInv, Disk, Safe, NEW c \in Consumers, NEW ttl \in TTLs, PopAndLease(c, ttl)
  PROVE  Safe'
<1> DEFINE t == QueueFront(ready_queue)
           f == LeasedFrame(t, c, now + ttl)
<1>1. /\ f \in Frame /\ Tips(log)' = Told(Tips(log), f)
      /\ mode = "up" /\ HasTask(ready_queue) /\ t \in Queued(ready_queue)
      /\ ready_queue' = QueuePop(ready_queue)
      /\ leased' = Put(leased, t.id, [consumer_id |-> c, expire_timestamp |-> now + ttl,
                                      retries |-> t.retries, priority |-> t.priority])
      /\ UNCHANGED <<mode, entries, next_id, expired_tasks, stranded, pushed, acked, dead>>
  BY PopMoves
<1>2. f.id = t.id /\ f.op \notin Terminal
  BY DEF LeasedFrame, Terminal
<1>3. Queued(ready_queue)' \subseteq Queued(ready_queue)
      /\ Queued(ready_queue) \subseteq Queued(ready_queue)' \cup {t}
  BY <1>1, PopTakes DEF IInv, TasksOK, QueueOK
<1> HIDE DEF f, t
<1>4. Finished' = Finished
  BY <1>1 DEF Finished
<1>5. Kept'
  BY <1>1, <1>2, <1>4, AppendKept DEF IInv, Safe
<1>6. /\ ReadyIds' \subseteq ReadyIds /\ ReadyIds \subseteq ReadyIds' \cup {t.id} /\ t.id \in ReadyIds
      /\ DOMAIN leased' = DOMAIN leased \cup {t.id}
  BY <1>1, <1>3 DEF ReadyIds, Put
<1>7. Live' \subseteq Live /\ t.id \in Live
  BY <1>1, <1>6 DEF Live
<1>8. t.id < next_id
  BY <1>1, <1>7 DEF Safe, Placed, Replayed
<1>9. Placed'
  BY <1>1, <1>2, <1>4, <1>6, <1>7, <1>8, AppendPlaced DEF Safe
<1>10. Blank'
  BY <1>1 DEF Safe, Blank, Replayed
<1> QED
  BY <1>5, <1>9, <1>10 DEF Safe

\* nack and the expiration thread call process_task_failure.
LEMMA NackCall ==
  ASSUME IInv, NEW c \in Consumers, NEW id \in DOMAIN leased, Nack(c, id)
  PROVE  FailureCall(id, leased[id].priority, leased[id].retries, "Nacked")
<1>1. id \in Nat /\ leased[id].priority \in Priorities /\ leased[id].retries \in Nat
  BY DEF IInv, TasksOK, LeasesOK, LeaseInfo
<1> QED
  BY <1>1 DEF FailureCall, Nack, CanLock, sideVars, threads, process

\* The expiration thread calls process_task_failure for a lease of its snapshot
\* (engine.rs:424-436).
LEMMA ExpireCall ==
  ASSUME IInv, NEW t \in expired_tasks, ExpireApply(t)
  PROVE  FailureCall(t.id, t.priority, t.retries, "Expired")
<1>1. t.id \in Nat /\ t.priority \in Priorities /\ t.retries \in Nat
  BY DEF IInv, TasksOK, TaskOK, TaskRef
<1> QED
  BY <1>1 DEF FailureCall, ExpireApply, sideVars, process

(* nack, by the consumer that holds the lease.                               *)
LEMMA NackSafe ==
  ASSUME IInv, Disk, Safe, NEW c \in Consumers, NEW id \in DOMAIN leased, Nack(c, id)
  PROVE  Disk' /\ Safe'
<1>1. FailureCall(id, leased[id].priority, leased[id].retries, "Nacked")
  BY NackCall
<1>2. UNCHANGED <<entries, next_id, stranded, pushed, acked, expired_tasks>>
  BY DEF Nack, threads, process
<1>3. id \in Live
  BY DEF Live
<1> QED
  BY <1>1, <1>2, <1>3, FailureSafe

(* A lease that has run out.                                                 *)
LEMMA ExpireSafe ==
  ASSUME IInv, Disk, Safe, NEW t \in expired_tasks, ExpireApply(t)
  PROVE  Disk' /\ Safe'
<1>1. FailureCall(t.id, t.priority, t.retries, "Expired")
  BY ExpireCall
<1>2. expired_tasks' \subseteq expired_tasks /\ UNCHANGED <<entries, next_id, stranded, pushed, acked>>
  BY DEF ExpireApply, process
<1>3. t.id \in Live
  BY DEF Live
<1> QED
  BY <1>1, <1>2, <1>3, FailureSafe

\* The calls that append reports an error to.
LEMMA FailedCallMoves ==
  ASSUME IInv, Disk, PushFails \/ PopFails \/ AckOrNackFails \/ \E t \in expired_tasks : ExpireFails(t)
  PROVE  /\ Disk' /\ log' = log /\ mode = "up" /\ mode' = mode
         /\ expired_tasks' \subseteq expired_tasks
         /\ next_id' \in {next_id, next_id + 1}
         /\ UNCHANGED <<entries, leased, pushed, acked, dead, index>>
         /\ \/ UNCHANGED <<ready_queue, stranded>>
            \/ /\ HasTask(ready_queue) /\ ready_queue' = QueuePop(ready_queue)
               /\ stranded' = stranded \cup {QueueFront(ready_queue).id}
<1>1. /\ mode = "up" /\ mode' = mode /\ lock # "compact" /\ lock' # "compact"
      /\ WalAppendFails /\ UNCHANGED <<sides, temp, planned, mode, compaction>>
      /\ expired_tasks' \subseteq expired_tasks
      /\ next_id' \in {next_id, next_id + 1}
      /\ UNCHANGED <<entries, leased, pushed, acked, dead, index>>
      /\ \/ UNCHANGED <<ready_queue, stranded>>
         \/ /\ HasTask(ready_queue) /\ ready_queue' = QueuePop(ready_queue)
            /\ stranded' = stranded \cup {QueueFront(ready_queue).id}
  <2>1. CASE PushFails
    BY <2>1 DEF PushFails, CanLock, sideVars, threads, process, history
  <2>2. CASE PopFails
    BY <2>2 DEF PopFails, CanLock, sideVars, threads, process
  <2>3. CASE AckOrNackFails
    BY <2>3 DEF AckOrNackFails, CanLock, sideVars, threads, process, history, memVars
  <2>4. CASE \E t \in expired_tasks : ExpireFails(t)
    BY <2>4 DEF ExpireFails, sideVars, process, history, memVars
  <2> QED
    BY <2>1, <2>2, <2>3, <2>4
<1>2. Layout /\ SideFiles
  BY DEF IInv, RestOK, SideFiles
<1>3. Disk' /\ log' = log
  BY <1>1, <1>2, AppendFailsDisk
<1> QED
  BY <1>1, <1>3

(* Calls that fail: a task may be stranded, but is not lost.                 *)
LEMMA FailedCallSafe ==
  ASSUME IInv, Disk, Safe,
         PushFails \/ PopFails \/ AckOrNackFails \/ \E t \in expired_tasks : ExpireFails(t)
  PROVE  Disk' /\ Safe'
<1>1. /\ Disk' /\ log' = log /\ mode = "up" /\ mode' = mode
      /\ expired_tasks' \subseteq expired_tasks
      /\ next_id' \in {next_id, next_id + 1}
      /\ UNCHANGED <<entries, leased, pushed, acked, dead, index>>
      /\ \/ UNCHANGED <<ready_queue, stranded>>
         \/ /\ HasTask(ready_queue) /\ ready_queue' = QueuePop(ready_queue)
            /\ stranded' = stranded \cup {QueueFront(ready_queue).id}
  BY FailedCallMoves
<1>2. Kept'
  BY <1>1, QuietKept, ForgetsNothing DEF Safe
<1>3. ReadyIds' \subseteq ReadyIds /\ ReadyIds \cup stranded \subseteq (ReadyIds \cup stranded)'
  <2>1. CASE UNCHANGED <<ready_queue, stranded>>
    BY <2>1 DEF ReadyIds
  <2>2. CASE ~UNCHANGED <<ready_queue, stranded>>
    <3>1. /\ Queued(ready_queue)' \subseteq Queued(ready_queue)
          /\ Queued(ready_queue) \subseteq Queued(ready_queue)' \cup {QueueFront(ready_queue)}
      BY <2>2, <1>1, PopTakes DEF IInv, TasksOK, QueueOK
    <3> QED
      BY <3>1, <2>2, <1>1 DEF ReadyIds
  <2> QED
    BY <2>1, <2>2
<1>4. Live' \subseteq Live /\ Finished' = Finished
  BY <1>1, <1>3 DEF Live, Finished
<1>5. Live \subseteq Nat /\ next_id \in Nat
  BY KnownNat DEF Live, IInv, IndexOK, TasksOK, QueueOK, LeasesOK, TaskOK, ReadyIds
<1>6. \A v \in Tips(log) : v.id \in Nat
  BY SMTT(30), TipsFrame DEF IInv, Layout, IsLog, Frame
<1>7. /\ \A v \in Tips(log) : v.id < next_id
      /\ \A id \in Live : id < next_id
      /\ entries = {}
      /\ \A n \in DOMAIN pushed \ Finished : pushed[n] \in ReadyIds \cup DOMAIN leased \cup stranded
  BY <1>1 DEF Safe, Placed, Replayed
<1>8. (\A v \in Tips(log) : v.id < next_id') /\ (\A id \in Live' : id < next_id')
  BY <1>1, <1>4, <1>5, <1>6, <1>7
<1>9. \A n \in DOMAIN pushed \ Finished : pushed[n] \in (ReadyIds \cup DOMAIN leased \cup stranded)'
  BY <1>1, <1>3, <1>7
<1>10. Placed'
  BY <1>1, <1>4, <1>7, <1>8, <1>9 DEF Placed
<1>11. Blank'
  BY <1>1 DEF Safe, Blank, Replayed
<1> QED
  BY <1>1, <1>2, <1>10, <1>11 DEF Safe

\* What pops outside the lock, the clock and the two scans leave alone.
LEMMA QuietMoves ==
  ASSUME Reader \/ ClearPayloadCache \/ Tick \/ ExpireScan
  PROVE  /\ UNCHANGED <<log, torn, files, sides, temp, planned, active_segment_id, mode, compaction, lock>>
         /\ UNCHANGED <<index, next_id, ready_queue, leased, stranded, entries, pushed, acked, dead>>
         /\ ExpireScan \/ expired_tasks' = expired_tasks
<1>1. CASE Reader
  <2>1. UNCHANGED <<walVars, memVars, sideVars, lock, expired_tasks, compaction, process, history>>
    BY <1>1 DEF Reader, ReadFrame, ReadNothing, ReadNotFound, PopReturns, Answer
  <2> QED
    BY <2>1 DEF walVars, memVars, sideVars, process, history
<1>2. CASE ClearPayloadCache
  BY <1>2 DEF ClearPayloadCache, walVars, sideVars, threads, process, history
<1>3. CASE Tick
  BY <1>3 DEF Tick, dirVars, memVars, threads, process, history
<1>4. CASE ExpireScan
  BY <1>4 DEF ExpireScan, walVars, memVars, sideVars, process, history
<1> QED
  BY <1>1, <1>2, <1>3, <1>4

\* They lose no task.
LEMMA QuietSafe ==
  ASSUME Disk, Safe, Reader \/ ClearPayloadCache \/ Tick \/ ExpireScan
  PROVE  Disk' /\ Safe'
<1>1. /\ UNCHANGED <<log, torn, files, sides, temp, planned, active_segment_id, mode, compaction, lock>>
      /\ UNCHANGED <<index, next_id, ready_queue, leased, stranded, entries, pushed, acked, dead>>
  BY QuietMoves
<1>2. /\ {t.id : t \in expired_tasks'} \subseteq {t.id : t \in expired_tasks} \cup DOMAIN leased
      /\ expired_tasks' = expired_tasks \/ mode = "up"
  <2>1. CASE expired_tasks' = expired_tasks
    BY <2>1
  <2>2. CASE ExpireScan
    BY SMTT(30), <2>2 DEF ExpireScan, ExpiredIds, CanLock
  <2> QED
    BY <2>1, <2>2, QuietMoves
<1>3. Disk'
  BY <1>1, QuietDisk
<1>4. Forgets(Tips(log), Tips(log)')
  BY <1>1, ForgetsNothing
<1>5. Kept' /\ Placed'
  BY <1>1, <1>2, <1>4, QuietKept, QuietPlaced DEF Safe
<1>6. Blank'
  BY <1>1, <1>2 DEF Safe, Blank, Replayed
<1> QED
  BY <1>3, <1>5, <1>6 DEF Safe

HIDE DEF FailureSafe, NackCall, ExpireCall

-----------------------------------------------------------------------------
(* compact(), a kill, and open() lose no task.                             *)

\* The steps of compact() move no task.
LEMMA CompactionMoves ==
  ASSUME Compaction
  PROVE  /\ mode = "up"
         /\ UNCHANGED <<next_id, ready_queue, leased, stranded, entries, pushed, acked, dead, mode,
                        expired_tasks>>
<1>1. CASE plan_compaction
  BY <1>1 DEF plan_compaction, CanLock, memVars, process, history
<1>2. CASE CompactWriteTemp \/ CompactWritePlan \/ CompactFails
  BY <1>2 DEF CompactWriteTemp, CompactWritePlan, CompactFails, memVars, process, history
<1>3. CASE CompactRename \/ CompactUnlink
  BY <1>3 DEF CompactRename, CompactUnlink, CanLock, memVars, process, history
<1>4. CASE CompactFinish
  BY <1>4 DEF CompactFinish, process, history
<1> QED
  BY <1>1, <1>2, <1>3, <1>4 DEF Compaction

(* compact(): what is not finished survives.                                 *)
LEMMA CompactionSafe ==
  ASSUME IInv, IInv', Disk, Safe, Compaction
  PROVE  Disk' /\ Safe'
<1>1. /\ mode = "up"
      /\ UNCHANGED <<next_id, ready_queue, leased, stranded, entries, pushed, acked, dead, mode,
                     expired_tasks>>
  BY CompactionMoves
<1>2. Layout /\ Layout' /\ SideFiles
  BY DEF IInv, RestOK, SideFiles
<1>3. Disk' /\ Forgets(Tips(log), Tips(log)')
  BY <1>2, CompactionDisk
<1>4. Kept' /\ Placed'
  BY <1>1, <1>3, QuietKept, QuietPlaced DEF Safe
<1>5. Blank'
  BY <1>1 DEF Safe, Blank, Replayed
<1> QED
  BY <1>3, <1>4, <1>5 DEF Safe

(* A kill: the log stays, and memory starts again from nothing.              *)
LEMMA CrashSafe ==
  ASSUME IInv, Disk, Safe, Crash, Undisturbed
  PROVE  Disk' /\ Safe'
<1>1. Disk' /\ log' = log
  BY CrashDisk DEF IInv, RestOK, SideFiles
<1>2. /\ mode' = "down" /\ ready_queue' = EmptyQueue /\ leased' = EmptyMap /\ expired_tasks' = {}
      /\ UNCHANGED <<pushed, acked, dead>>
  BY DEF Crash
<1>3. Kept'
  BY <1>1, <1>2, QuietKept, ForgetsNothing DEF Safe
<1>4. Blank' /\ Placed'
  BY <1>2 DEF Blank, Placed, Replayed
<1> QED
  BY <1>1, <1>3, <1>4 DEF Safe

\* open() up to the end of the active segment.
OpenFiles == OpenDiscardTemp \/ OpenDiscardPlan \/ OpenUnlink \/ OpenUnlinked \/ OpenNoPlan \/ OpenScan

\* Until then no task moves, and memory is empty.
LEMMA OpenFilesMoves ==
  ASSUME OpenFiles
  PROVE  /\ mode \in {"down", "discard", "scan"} /\ mode' \in {"down", "discard", "scan", "index"}
         /\ UNCHANGED <<ready_queue, leased, expired_tasks, stranded, pushed, acked, dead>>
<1>1. CASE OpenDiscardTemp \/ OpenDiscardPlan \/ OpenUnlinked \/ OpenNoPlan
  BY <1>1 DEF OpenDiscardTemp, OpenDiscardPlan, OpenUnlinked, OpenNoPlan, Opening, memVars, threads, history
<1>2. CASE OpenUnlink
  BY <1>2 DEF OpenUnlink, Opening, memVars, threads, history
<1>3. CASE OpenScan
  BY <1>3 DEF OpenScan, memVars, threads, history
<1> QED
  BY <1>1, <1>2, <1>3 DEF OpenFiles

(* open(): what compaction left behind is cleared away without loss.         *)
LEMMA OpenFilesSafe ==
  ASSUME IInv, IInv', Disk, Safe, OpenFiles
  PROVE  Disk' /\ Safe'
<1>1. /\ mode \in {"down", "discard", "scan"} /\ mode' \in {"down", "discard", "scan", "index"}
      /\ UNCHANGED <<ready_queue, leased, expired_tasks, pushed, acked, dead>>
  BY OpenFilesMoves
<1>2. Disk' /\ Forgets(Tips(log), Tips(log)')
  BY OpenDisk DEF IInv, RestOK, SideFiles, Open, OpenFiles
<1>3. Kept'
  BY <1>1, <1>2, QuietKept DEF Safe
<1>4. Blank' /\ Placed'
  BY <1>1 DEF Safe, Blank, Placed, Replayed
<1> QED
  BY <1>2, <1>3, <1>4 DEF Safe

\* recover() gives no id out that the log has.
LEMMA IdAfterAbove ==
  ASSUME NEW L, L \subseteq Entry, IsFiniteSet(L)
  PROVE  \A id \in IdsIn(L) : id < IdAfter(L)
<1> SUFFICES ASSUME NEW id \in IdsIn(L) PROVE id < IdAfter(L)
  OBVIOUS
<1>1. IdsIn(L) \subseteq Nat /\ IsFiniteSet(IdsIn(L)) /\ L # {}
  BY IdsFinite DEF IdsIn
<1>2. \E m \in IdsIn(L) : \A j \in IdsIn(L) : j <= m
  BY <1>1, LargestExists
<1> QED
  BY <1>1, <1>2 DEF IdAfter

\* The first pass of recover().
LEMMA RecoverMoves ==
  ASSUME IInv, IInv', Disk, RecoverIndex
  PROVE  /\ Disk' /\ log' = log /\ mode = "index" /\ mode' = "replay"
         /\ next_id' = IdAfter(log) /\ index' = Locations(log) /\ entries' = IdsIn(log)
         /\ UNCHANGED <<ready_queue, leased, expired_tasks, stranded, pushed, acked, dead>>
<1>1. Readable(log, torn) = log
  BY AllReadable DEF IInv, Disk
<1>2. Disk' /\ (mode # "down" => log' = log)
  BY OpenDisk DEF IInv, RestOK, SideFiles, Open
<1> QED
  BY <1>1, <1>2 DEF RecoverIndex, Recovering, threads, history

(* The first pass of recover(): every task that is not finished is an entry   *)
(* to replay.                                                                *)
LEMMA RecoverSafe ==
  ASSUME IInv, IInv', Disk, Safe, RecoverIndex
  PROVE  Disk' /\ Safe'
<1>1. /\ Disk' /\ log' = log /\ mode = "index" /\ mode' = "replay"
      /\ next_id' = IdAfter(log) /\ index' = Locations(log) /\ entries' = IdsIn(log)
      /\ UNCHANGED <<ready_queue, leased, expired_tasks, stranded, pushed, acked, dead>>
  BY RecoverMoves
<1>2. log \subseteq Entry /\ IsFiniteSet(log) /\ Unique(log)
  BY DEF IInv, Layout, IsLog
<1>3. Kept'
  BY <1>1, QuietKept, ForgetsNothing DEF Safe
<1>4. ready_queue' = EmptyQueue /\ leased' = EmptyMap /\ expired_tasks' = {}
  BY <1>1 DEF Safe, Blank, Replayed
<1>5. ReadyIds' = {} /\ DOMAIN leased' = {}
  BY <1>4, EmptyHasNone DEF ReadyIds, EmptyMap
<1>6. Live' = IdsIn(log) /\ Finished' = Finished
  BY <1>1, <1>4, <1>5 DEF Live, Finished
<1>7. (\A v \in Tips(log) : v.id \in IdsIn(log)) /\ \A id \in IdsIn(log) : id < next_id'
  BY <1>1, <1>2, TipIsLast, IdAfterAbove
<1>8. \A id \in IdsIn(log) : \E e \in Heads(log) : e.frame.id = id /\ index'[id] = Loc(e)
  BY <1>1, <1>2, HeadExists DEF Locations
<1>9. \A n \in DOMAIN pushed \ Finished : pushed[n] \in IdsIn(log)
  BY <1>7 DEF Safe, Kept
<1>10. Placed'
  BY <1>1, <1>6, <1>7, <1>8, <1>9 DEF Placed
<1>11. Blank'
  BY <1>1, <1>4 DEF Blank, Replayed
<1> QED
  BY <1>1, <1>3, <1>10, <1>11 DEF Safe

\* recover() replays the latest record of a task.
LEMMA ReplaysTip ==
  ASSUME IInv, Placed, Replaying
  PROVE  /\ NextEntry \in entries /\ NextEntry \in DOMAIN index /\ NextEntry \in Nat
         /\ Latest(NextEntry) \in Frame /\ Latest(NextEntry).id = NextEntry
         /\ Strip(Latest(NextEntry)) \in Tips(log)
<1>1. /\ NextEntry \in entries /\ NextEntry \in DOMAIN index /\ NextEntry \in Nat
      /\ Latest(NextEntry) \in Frame
  BY NextEntryOK
<1>2. PICK e \in Heads(log) : e.frame.id = NextEntry /\ index[NextEntry] = Loc(e)
  BY <1>1 DEF Placed, Replayed, Replaying
<1>3. e \in log /\ Unique(log)
  BY DEF Heads, IInv, Layout, IsLog
<1>4. Latest(NextEntry) = e.frame
  <2>1. \A x \in log : Loc(x) = index[NextEntry] <=> x = e
    BY <1>2, <1>3 DEF Unique
  <2> QED
    BY <1>3, <2>1 DEF Latest
<1> QED
  BY <1>1, <1>2, <1>4 DEF Tips

\* What the steps of the second pass have in common.
LEMMA ReplayMoves ==
  ASSUME ReplayReady \/ ReplayLeased \/ ReplayTerminal
  PROVE  /\ Replaying /\ mode = "replay" /\ mode' = mode /\ entries' = entries \ {NextEntry}
         /\ UNCHANGED <<next_id, expired_tasks, stranded, pushed, acked, dead>>
         /\ \/ index' = index
            \/ Latest(NextEntry).op \in Terminal /\ index' = Drop(index, NextEntry)
<1>1. CASE ReplayReady \/ ReplayLeased
  <2>1. Replaying /\ \E r, l : ReplayAs(NextEntry, r, l)
    BY <1>1 DEF ReplayReady, ReplayLeased
  <2> QED
    BY <2>1 DEF Replaying, ReplayAs, Recovering, threads, history
<1>2. CASE ReplayTerminal
  BY <1>2 DEF Replaying, ReplayTerminal, Recovering, threads, history
<1> QED
  BY <1>1, <1>2

\* Where the task goes that is replayed.
LEMMA ReplayPlaces ==
  ASSUME IInv, Placed, ReplayReady \/ ReplayLeased \/ ReplayTerminal
  PROVE  /\ ReadyIds \cup DOMAIN leased \subseteq (ReadyIds \cup DOMAIN leased)'
         /\ (ReadyIds \cup DOMAIN leased)' \subseteq ReadyIds \cup DOMAIN leased \cup {NextEntry}
         /\ NextEntry \in (ReadyIds \cup DOMAIN leased)' \/ Latest(NextEntry).op \in Terminal
<1> DEFINE f == Latest(NextEntry)
           t == [id |-> NextEntry, priority |-> f.priority, retries |-> f.retries]
<1>1. Replaying
  BY ReplayMoves
<1>2. f \in Frame /\ NextEntry \in Nat
  BY <1>1, ReplaysTip
<1>3. CASE ReplayReady
  <2>1. ready_queue' = QueuePush(ready_queue, t) /\ leased' = leased
    BY <1>3 DEF ReplayReady, ReplayAs
  <2>2. t \in TaskRef /\ ready_queue \in Queue /\ t.id = NextEntry
    BY <1>2 DEF TaskRef, Frame, IInv, TasksOK, QueueOK
  <2> HIDE DEF t
  <2>3. Queued(ready_queue)' = Queued(ready_queue) \cup {t}
    BY <2>1, <2>2, QueuedPush
  <2> QED
    BY <2>1, <2>2, <2>3 DEF ReadyIds
<1>4. CASE ReplayLeased
  <2>1. PICK v : leased' = Put(leased, NextEntry, v) /\ ready_queue' = ready_queue
    BY <1>4 DEF ReplayLeased, ReplayAs
  <2> QED
    BY <2>1 DEF Put, ReadyIds
<1>5. CASE ReplayTerminal
  BY <1>5 DEF ReplayTerminal, ReadyIds
<1> QED
  BY <1>3, <1>4, <1>5

\* No task that is not finished is left out when another one is replayed.
LEMMA ReplayPlaced ==
  ASSUME IInv, Kept, Blank, Placed, log' = log, ReplayReady \/ ReplayLeased \/ ReplayTerminal
  PROVE  Placed'
<1> DEFINE id == NextEntry
           f == Latest(NextEntry)
<1>1. /\ Replaying /\ mode = "replay" /\ mode' = mode /\ entries' = entries \ {id}
      /\ UNCHANGED <<next_id, expired_tasks, stranded, pushed, acked, dead>>
      /\ index' = index \/ (f.op \in Terminal /\ index' = Drop(index, id))
  BY ReplayMoves
<1>2. /\ ReadyIds \cup DOMAIN leased \subseteq (ReadyIds \cup DOMAIN leased)'
      /\ (ReadyIds \cup DOMAIN leased)' \subseteq ReadyIds \cup DOMAIN leased \cup {id}
      /\ id \in (ReadyIds \cup DOMAIN leased)' \/ f.op \in Terminal
  BY ReplayPlaces
<1>3. id \in entries /\ f \in Frame /\ f.id = id /\ Strip(f) \in Tips(log)
  BY <1>1, ReplaysTip
<1>4. Strip(f).id = id /\ Strip(f).op = f.op
  BY <1>3, StripOK
<1> HIDE DEF id, f
<1>5. Live' \subseteq Live /\ Finished' = Finished
  BY <1>1, <1>2, <1>3 DEF Live, Finished
<1>6. \A j \in entries' : \E e \in Heads(log) : e.frame.id = j /\ index'[j] = Loc(e)
  <2>1. \A j \in entries' : j \in entries /\ j \in DOMAIN index /\ j # id
    BY <1>1 DEF IInv, IndexOK
  <2>2. \A j \in entries' : index'[j] = index[j]
    BY <1>1, <2>1 DEF Drop
  <2> QED
    BY SMTT(30), <2>1, <2>2, <1>1 DEF Placed, Replayed
<1>7. ASSUME NEW n \in DOMAIN pushed \ Finished
      PROVE  pushed[n] \in (entries \cup ReadyIds \cup DOMAIN leased \cup stranded)'
  <2>1. pushed[n] \in entries \cup ReadyIds \cup DOMAIN leased \cup stranded
    BY <1>1 DEF Placed, Replayed
  <2>2. CASE pushed[n] = id
    <3>1. PICK v \in Tips(log) : v.id = id /\ v.op \notin Terminal
      BY <2>2 DEF Kept
    <3>2. v = Strip(f)
      BY <3>1, <1>3, <1>4, TipUnique DEF IInv, Layout, IsLog
    <3> QED
      BY <2>2, <3>1, <3>2, <1>2, <1>4
  <2>3. CASE pushed[n] # id
    BY <2>1, <2>3, <1>1, <1>2
  <2> QED
    BY <2>2, <2>3
<1> QED
  BY <1>1, <1>5, <1>6, <1>7 DEF Placed, Replayed

(* The second pass of recover().                                             *)
LEMMA ReplaySafe ==
  ASSUME IInv, IInv', Disk, Safe, ReplayReady \/ ReplayLeased \/ ReplayTerminal \/ RecoverDone
  PROVE  Disk' /\ Safe'
<1>1. /\ mode = "replay" /\ mode' \in {"replay", "up"}
      /\ UNCHANGED <<expired_tasks, pushed, acked, dead>>
  <2>1. CASE RecoverDone
    BY <2>1 DEF RecoverDone, Recovering, threads, history
  <2> QED
    BY <2>1, ReplayMoves
<1>2. Disk' /\ log' = log
  BY <1>1, OpenDisk DEF IInv, RestOK, SideFiles, Open
<1>3. Kept'
  BY <1>1, <1>2, QuietKept, ForgetsNothing DEF Safe
<1>4. Blank'
  BY <1>1 DEF Safe, Blank, Replayed
<1>5. CASE RecoverDone
  <2>1. /\ entries = {} /\ mode' = "up"
        /\ UNCHANGED <<next_id, index, ready_queue, leased, entries, expired_tasks, stranded, pushed, acked, dead>>
    BY <1>5 DEF RecoverDone, Recovering, threads, history
  <2>2. Live' = Live /\ ReadyIds' = ReadyIds /\ Finished' = Finished
    BY <2>1 DEF Live, ReadyIds, Finished
  <2>3. Placed'
    BY <1>1, <1>2, <2>1, <2>2 DEF Safe, Placed, Replayed
  <2> QED
    BY <1>2, <1>3, <1>4, <2>3 DEF Safe
<1>6. CASE ~RecoverDone
  BY <1>2, <1>3, <1>4, <1>6, ReplayPlaced DEF Safe
<1> QED
  BY <1>5, <1>6

\* Before the first open() there is nothing to lose.
LEMMA InitSafe == Init => Disk /\ Safe
<1> SUFFICES ASSUME Init PROVE Disk /\ Safe
  OBVIOUS
<1>1. Disk
  BY DEF Init, Disk, TornOK, FilesStart, SidesOK, ClosedOK, TempMatches, SwapOK, Scanned, NoCompaction
<1>2. pushed = <<>> /\ ready_queue = EmptyQueue /\ leased = EmptyMap /\ mode = "down" /\ expired_tasks = {}
  BY DEF Init
<1>3. Kept
  BY <1>2 DEF Kept
<1> QED
  BY <1>1, <1>2, <1>3 DEF Safe, Blank, Placed, Replayed

(* One step of the engine.                                                   *)
LEMMA NextSafe ==
  ASSUME IInv, IInv', Disk, Safe, [Next]_vars, [Undisturbed]_vars
  PROVE  Disk' /\ Safe'
<1>1. CASE Client
  <2>1. ASSUME NEW p \in Priorities, Push(p) PROVE Disk' /\ Safe'
    BY <2>1, PushSafe, PushMoves
  <2>2. ASSUME NEW c \in Consumers, NEW ttl \in TTLs, PopAndLease(c, ttl) PROVE Disk' /\ Safe'
    BY <2>2, PopSafe, PopMoves
  <2>3. ASSUME NEW c \in Consumers, NEW id \in DOMAIN leased, Ack(c, id) PROVE Disk' /\ Safe'
    BY <2>3, AckSafe, AckMoves
  <2>4. ASSUME NEW c \in Consumers, NEW id \in DOMAIN leased, Nack(c, id) PROVE Disk' /\ Safe'
    BY <2>4, NackSafe
  <2> QED
    BY <1>1, <2>1, <2>2, <2>3, <2>4, FailedCallSafe, QuietSafe DEF Client
<1>2. CASE Expiration
  BY <1>2, ExpireSafe, FailedCallSafe, QuietSafe DEF Expiration
<1>3. CASE Reader \/ Tick
  BY <1>3, QuietSafe
<1>4. CASE Compaction
  BY <1>4, CompactionSafe
<1>5. CASE Open
  BY <1>5, OpenFilesSafe, RecoverSafe, ReplaySafe DEF Open, OpenFiles
<1>6. CASE Crash
  <2>1. Undisturbed
    <3>1. mode' # mode
      BY <1>6 DEF Crash
    <3> QED
      BY <3>1 DEF vars
  <2> QED
    BY <1>6, <2>1, CrashSafe
<1>7. CASE UNCHANGED vars
  <2>1. /\ UNCHANGED <<log, torn, files, sides, temp, planned, active_segment_id, mode, compaction, lock>>
        /\ UNCHANGED <<index, next_id, ready_queue, leased, stranded, entries, pushed, acked, dead>>
        /\ expired_tasks' = expired_tasks
    BY <1>7 DEF vars
  <2>2. Disk'
    BY <2>1, QuietDisk
  <2>3. Kept' /\ Placed'
    BY <2>1, QuietKept, QuietPlaced, ForgetsNothing DEF Safe
  <2>4. Blank'
    BY <2>1 DEF Safe, Blank, Replayed
  <2> QED
    BY <2>2, <2>3, <2>4 DEF Safe
<1> QED
  BY <1>1, <1>2, <1>3, <1>4, <1>5, <1>6, <1>7 DEF Next

\* No kill finds open() between the two deletions of an abandoned compaction.
OpenUndisturbed == [][Undisturbed]_vars

\* Disk and Safe hold of every state, if no kill comes between the two deletions.
LEMMA SafeInvariant == Spec /\ OpenUndisturbed => [](IInv /\ Disk /\ Safe)
<1>1. Spec => []IInv
  BY Inductive
<1>2. Init => Disk /\ Safe
  BY InitSafe
<1>3. IInv /\ IInv' /\ (Disk /\ Safe) /\ [Next]_vars /\ [Undisturbed]_vars => (Disk /\ Safe)'
  BY NextSafe
<1> QED
  BY <1>1, <1>2, <1>3, PTL DEF Spec, OpenUndisturbed

(* NoTaskLost, at-least-once delivery: whatever calls, failed appends,       *)
(* compactions, kills and restarts come, in any number and order, whenever   *)
(* the engine's lock is free a task that was pushed and neither acknowledged *)
(* nor dead-lettered waits, is leased, or was stranded by a pop whose append *)
(* failed.  The one exception is the kill between the two deletions of open() *)
(* that the run open_killed shows (wal.rs:147-148).                          *)
THEOREM NoTaskIsLost == Spec /\ OpenUndisturbed => []NoTaskLost
<1>1. IInv /\ Disk /\ Safe => NoTaskLost
  BY DEF Safe, Placed, Replayed, Finished, NoTaskLost, CanLock
<1> QED
  BY <1>1, SafeInvariant, PTL

(* push gives an id out a second time only when the task that had it is      *)
(* finished: the record that would tell recover() of a higher id can be gone, *)
(* but only a finished task's records go.  (engine.rs:605, wal.rs:434-478)   *)
THEOREM IdsReusedWhenFinished ==
  Spec /\ OpenUndisturbed =>
    [](\A m, n \in DOMAIN pushed : pushed[m] = pushed[n] /\ m < n => m \in acked \cup dead)
<1>1. IInv /\ Disk /\ Safe =>
        \A m, n \in DOMAIN pushed : pushed[m] = pushed[n] /\ m < n => m \in acked \cup dead
  <2>1. IInv => DOMAIN pushed \subseteq Nat
    BY DEF IInv, TasksOK
  <2> QED
    BY SMTT(30), <2>1 DEF Safe, Kept, Finished
<1> QED
  BY <1>1, SafeInvariant, PTL

HIDE DEF CompactionSafe, CrashSafe, OpenFilesSafe, IdAfterAbove,
         RecoverMoves, RecoverSafe, ReplaysTip, ReplayPlaces, ReplayPlaced,
         ReplaySafe, InitSafe, NextSafe, NoTaskIsLost, IdsReusedWhenFinished

-----------------------------------------------------------------------------
(* Runs without compaction: the log keeps every record.                    *)

\* Without a compaction there is nothing that one would leave behind.
Plain == compaction.pc = "idle" /\ sides = {} /\ unlinked = {} /\ mode # "discard"

\* Every push has its Created record, and no two pushes have one id.
Recorded ==
  /\ \A n \in DOMAIN pushed : \E e \in log :
       e.frame.op = "Created" /\ e.frame.id = pushed[n] /\ e.frame.data = n
  /\ \A e \in log : e.frame.op = "Created" =>
       e.frame.data \in DOMAIN pushed /\ pushed[e.frame.data] = e.frame.id
  /\ IdsUnique

\* A place where the Created record of a task is.
CreatedAt(id, loc) == \E e \in log : Loc(e) = loc /\ e.frame.op = "Created" /\ e.frame.id = id

\* n is a push that was given id.
PayloadOf(id, n) == n \in DOMAIN pushed /\ pushed[n] = id

\* Whatever waits or is leased has an entry in data_index.
Reachable == Replayed => ReadyIds \cup DOMAIN leased \subseteq DOMAIN data_index

\* A step without compaction leaves none of its files, and open() finds none.
LEMMA PlainStep ==
  ASSUME Plain, compactions = 0, compactions' = 0, [Next]_vars
  PROVE  Plain'
<1>1. CASE Client
  BY <1>1 DEF Plain, Client, Push, PushFails, Ack, Nack, AckOrNackFails, ClearPayloadCache, PopAndLease,
        PopFails, sideVars, threads, process
<1>2. CASE Reader
  BY <1>2 DEF Plain, Reader, ReadFrame, ReadNothing, ReadNotFound, PopReturns, Answer, sideVars, process
<1>3. CASE Expiration \/ Tick
  BY <1>3 DEF Plain, Expiration, ExpireScan, ExpireApply, ExpireFails, Tick, dirVars, sideVars, process,
        threads
<1>4. CASE Compaction
  BY <1>4 DEF Plain, Compaction, plan_compaction, CompactWriteTemp, CompactWritePlan, CompactFails, CompactRename,
       CompactUnlink, CompactFinish
<1>5. CASE Open
  <2>1. CASE OpenDiscardTemp \/ OpenDiscardPlan \/ OpenUnlink \/ OpenUnlinked \/ OpenNoPlan
    BY <2>1 DEF Plain, OpenDiscardTemp, OpenDiscardPlan, OpenUnlink, OpenUnlinked, OpenNoPlan, Opening, threads, sideVars
  <2>2. CASE OpenScan
    BY <2>2 DEF Plain, OpenScan, threads
  <2>3. CASE RecoverIndex \/ ReplayReady \/ ReplayLeased \/ ReplayTerminal \/ RecoverDone
    BY <2>3 DEF Plain, RecoverIndex, ReplayReady, ReplayLeased, ReplayTerminal, RecoverDone, ReplayAs,
         Recovering, threads, sideVars
  <2> QED
    BY <1>5, <2>1, <2>2, <2>3 DEF Open
<1>6. CASE Crash
  BY <1>6 DEF Plain, Crash, NoCompaction, sideVars
<1>7. CASE UNCHANGED vars
  BY <1>7 DEF Plain, vars
<1> QED
  BY <1>1, <1>2, <1>3, <1>4, <1>5, <1>6, <1>7 DEF Next

\* No compaction is ever started.
Uncompacted == [](compactions = 0)

\* In a run without compaction open() has nothing to discard, so that no kill can
\* come between two deletions.
LEMMA PlainInvariant == Spec /\ Uncompacted => []Plain /\ OpenUndisturbed
<1>1. Init => Plain
  BY SMTT(30) DEF Init, Plain, NoCompaction
<1>2. Plain /\ compactions = 0 /\ (compactions = 0)' /\ [Next]_vars => Plain'
  BY PlainStep
<1>3. Plain => [Undisturbed]_vars
  BY DEF Plain, Undisturbed
<1> QED
  BY <1>1, <1>2, <1>3, PTL DEF Spec, Uncompacted, OpenUndisturbed

\* Without compaction the log only grows, and only push writes Created records.
LEMMA LogGrows ==
  ASSUME IInv, IInv', Disk, Plain, [Next]_vars, ~\E p \in Priorities : Push(p)
  PROVE  /\ log \subseteq log' /\ pushed' = pushed
         /\ \A e \in log' : e \in log \/ e.frame.op # "Created"
<1>1. ASSUME NEW f, WalAppend(f), f.op # "Created"
      PROVE  log \subseteq log' /\ \A e \in log' : e \in log \/ e.frame.op # "Created"
  BY <1>1 DEF WalAppend
<1>2. ASSUME NEW id, NEW q, NEW r, NEW op, op \in {"Nacked", "Expired"}, process_task_failure(id, q, r, op)
      PROVE  log \subseteq log' /\ \A e \in log' : e \in log \/ e.frame.op # "Created"
  <2> DEFINE f == FailedFrame(id, IF Exhausted(r) THEN "DeadLettered" ELSE op, q, r + 1)
  <2>1. WalAppend(f)
    BY <1>2 DEF process_task_failure
  <2>2. f.op # "Created"
    BY <1>2 DEF FailedFrame
  <2> QED
    BY <1>1, <2>1, <2>2
<1>3. ASSUME NEW c \in Consumers, NEW id \in DOMAIN leased, Ack(c, id) \/ Nack(c, id)
      PROVE  /\ log \subseteq log' /\ pushed' = pushed /\ \A e \in log' : e \in log \/ e.frame.op # "Created"
  <2>1. AckedFrame(id, leased[id].priority).op # "Created"
    BY DEF AckedFrame
  <2> QED
    BY <1>1, <1>2, <1>3, <2>1 DEF Ack, Nack
<1>4. ASSUME NEW c \in Consumers, NEW ttl \in TTLs, PopAndLease(c, ttl)
      PROVE  /\ log \subseteq log' /\ pushed' = pushed /\ \A e \in log' : e \in log \/ e.frame.op # "Created"
  <2>1. PICK t : WalAppend(LeasedFrame(t, c, now + ttl)) /\ pushed' = pushed
    BY <1>4 DEF PopAndLease, history
  <2>2. LeasedFrame(t, c, now + ttl).op # "Created"
    BY DEF LeasedFrame
  <2> QED
    BY <1>1, <2>1, <2>2
<1>5. ASSUME NEW t \in expired_tasks, ExpireApply(t)
      PROVE  /\ log \subseteq log' /\ pushed' = pushed /\ \A e \in log' : e \in log \/ e.frame.op # "Created"
  BY <1>2, <1>5 DEF ExpireApply
<1>6. CASE log' = log /\ pushed' = pushed
  BY <1>6
<1>7. CASE Client \/ Expiration
  BY <1>3, <1>4, <1>5, <1>6, <1>7, FailedCallMoves, QuietMoves DEF Client, Expiration
<1>8. CASE Reader \/ Tick
  BY <1>6, <1>8, QuietMoves
<1>9. CASE Compaction
  <2>1. plan_compaction
    BY <1>9 DEF Plain, Compaction, CompactWriteTemp, CompactWritePlan, CompactFails, CompactRename, CompactUnlink,
         CompactFinish
  <2> QED
    BY <1>6, <2>1 DEF plan_compaction, walVars, history
<1>10. CASE Open
  <2>1. mode # "down" => log' = log
    BY <1>10, OpenDisk DEF IInv, RestOK, SideFiles
  <2>2. pushed' = pushed
    BY <1>10, OpenFilesMoves, ReplayMoves DEF Open, OpenFiles, RecoverIndex, RecoverDone, Recovering, history
  <2>3. CASE mode = "down"
    <3>1. OpenNoPlan
      BY <1>10, <2>3 DEF Plain, Open, OpenDiscardTemp, OpenDiscardPlan, OpenUnlink, OpenUnlinked, OpenScan, RecoverIndex,
           ReplayReady, ReplayLeased, ReplayTerminal, RecoverDone, Replaying
    <3> QED
      BY <1>6, <2>2, <3>1 DEF OpenNoPlan
  <2> QED
    BY <1>6, <2>1, <2>2, <2>3
<1>11. CASE Crash
  BY <1>6, <1>11 DEF Crash
<1>12. CASE UNCHANGED vars
  BY <1>6, <1>12 DEF vars
<1> QED
  BY <1>7, <1>8, <1>9, <1>10, <1>11, <1>12 DEF Next

\* What push writes.
LEMMA PushWrites ==
  ASSUME IInv, Disk, Safe, NEW p \in Priorities, Push(p)
  PROVE  LET n == Len(pushed) + 1
             x == [seg |-> NextSegment, off |-> NextOffset, frame |-> CreatedFrame(next_id, p, n)]
         IN  /\ n \in Nat /\ n >= 1 /\ log' = log \cup {x} /\ x.frame.op = "Created" /\ x.frame.id = next_id
             /\ x.frame.data = n /\ Loc(x) = NextLoc
             /\ DOMAIN pushed = 1..(n - 1) /\ DOMAIN pushed' = 1..n /\ pushed'[n] = next_id
             /\ \A m \in DOMAIN pushed : pushed'[m] = pushed[m]
<1>1. pushed' = Append(pushed, next_id) /\ WalAppend(CreatedFrame(next_id, p, Len(pushed) + 1))
  BY DEF Push
<1>2. pushed \in Seq(Nat) /\ next_id \in Nat
  BY DEF IInv, TasksOK, IndexOK
<1>3. /\ Len(pushed) \in Nat /\ DOMAIN pushed = 1..Len(pushed) /\ DOMAIN pushed' = 1..(Len(pushed) + 1)
      /\ pushed'[Len(pushed) + 1] = next_id /\ \A m \in 1..Len(pushed) : pushed'[m] = pushed[m]
  BY SMTT(30), <1>1, <1>2, AppendElements
<1> QED
  BY <1>1, <1>3 DEF WalAppend, CreatedFrame, Loc, NextLoc

\* The next id is new.
LEMMA NextIdNew ==
  ASSUME IInv, Safe, Recorded, mode = "up"
  PROVE  \A n \in DOMAIN pushed : pushed[n] # next_id
<1>1. \A v \in Tips(log) : v.id < next_id
  BY DEF Safe, Placed, Replayed
<1>2. next_id \in Nat /\ ~(next_id < next_id)
  BY DEF IInv, IndexOK
<1>3. \A e \in log : e.frame.id # next_id
  <2>1. \A e \in log : e.frame.id \in IdsIn(log)
    BY DEF IdsIn
  <2>2. IdsIn(log) = {v.id : v \in Tips(log)}
    BY TipIsLast DEF IInv, Layout, IsLog
  <2> QED
    BY <2>1, <2>2, <1>1, <1>2
<1> QED
  BY SMTT(30), <1>3 DEF Recorded

\* One step of the engine.
LEMMA RecordedStep ==
  ASSUME IInv, IInv', Disk, Safe, Plain, Recorded, [Next]_vars
  PROVE  Recorded'
<1>1. ASSUME NEW p \in Priorities, Push(p) PROVE Recorded'
  <2>1. PICK n, x : /\ n \in Nat /\ n >= 1 /\ log' = log \cup {x} /\ x.frame.op = "Created" /\ x.frame.id = next_id
                    /\ x.frame.data = n
                    /\ DOMAIN pushed = 1..(n - 1) /\ DOMAIN pushed' = 1..n /\ pushed'[n] = next_id
                    /\ \A m \in DOMAIN pushed : pushed'[m] = pushed[m]
    BY <1>1, PushWrites
  <2>2. DOMAIN pushed' = DOMAIN pushed \cup {n} /\ n \notin DOMAIN pushed
    <3>1. 1..n = 1..(n - 1) \cup {n} /\ n \notin 1..(n - 1)
      BY <2>1
    <3> QED
      BY <3>1, <2>1
  <2>3. \A m \in DOMAIN pushed : pushed[m] # next_id
    BY <1>1, NextIdNew DEF Push, CanLock
  <2>4. IdsUnique'
    BY SMTT(30), <2>1, <2>2, <2>3 DEF Recorded, IdsUnique
  <2> QED
    BY SMTT(30), <2>1, <2>2, <2>4 DEF Recorded
<1>2. CASE ~\E p \in Priorities : Push(p)
  <2>1. /\ log \subseteq log' /\ pushed' = pushed
        /\ \A e \in log' : e \in log \/ e.frame.op # "Created"
    BY <1>2, LogGrows
  <2> QED
    BY <2>1 DEF Recorded, IdsUnique
<1> QED
  BY <1>1, <1>2

\* Without compaction the log keeps the Created record of every push.
LEMMA RecordedInvariant == Spec /\ Uncompacted => [](IInv /\ Disk /\ Safe /\ Plain /\ Recorded)
<1>1. Init => Recorded
  BY SMTT(30) DEF Init, Recorded, IdsUnique
<1>2. (IInv /\ Disk /\ Safe) /\ (IInv /\ Disk /\ Safe)' /\ Plain /\ Recorded /\ [Next]_vars => Recorded'
  BY RecordedStep
<1> QED
  BY <1>1, <1>2, SafeInvariant, PlainInvariant, PTL DEF Spec

\* The process is never killed.
NeverKilled == [](crashes = 0)

\* In a process that was never killed, every id that was given out is below the next.
Rising == /\ mode # "up" => pushed = <<>>
          /\ \A n \in DOMAIN pushed : pushed[n] < next_id
          /\ IdsUnique

\* All but push and a kill: no push happens, and a running process goes on.
LEMMA IdsKept ==
  ASSUME IInv, [Next]_vars, ~Crash, ~\E p \in Priorities : Push(p)
  PROVE  /\ pushed' = pushed
         /\ mode = "up" => mode' = "up" /\ next_id' \in {next_id, next_id + 1}
<1>1. CASE Client
  BY <1>1 DEF Client, PushFails, Ack, Nack, AckOrNackFails, ClearPayloadCache, PopAndLease,
        PopFails, CanLock, memVars, process, history
<1>2. CASE Reader
  <2>1. UNCHANGED <<mode, next_id, pushed>>
    BY <1>2, QuietMoves
  <2> QED
    BY <2>1
<1>3. CASE Expiration \/ Tick
  BY <1>3 DEF Expiration, ExpireScan, ExpireApply, ExpireFails, CanLock, Tick, memVars, process, history
<1>4. CASE Compaction
  BY <1>4, CompactionMoves
<1>5. CASE Open
  <2>1. pushed' = pushed
    BY <1>5, OpenFilesMoves, ReplayMoves DEF Open, OpenFiles, RecoverIndex, RecoverDone, Recovering, history
  <2>2. mode # "up"
    BY <1>5, OpenFilesMoves, ReplayMoves DEF Open, OpenFiles, RecoverIndex, RecoverDone
  <2> QED
    BY <2>1, <2>2
<1>6. CASE UNCHANGED vars
  BY <1>6 DEF vars
<1> QED
  BY <1>1, <1>2, <1>3, <1>4, <1>5, <1>6 DEF Next

\* One step of an engine that is never killed.
LEMMA RisingStep ==
  ASSUME IInv, Rising, crashes = 0, crashes' = 0, [Next]_vars
  PROVE  Rising'
<1>1. pushed \in Seq(Nat) /\ next_id \in Nat /\ \A n \in DOMAIN pushed : pushed[n] \in Nat
  BY DEF IInv, TasksOK, IndexOK
<1>2. ASSUME NEW p \in Priorities, Push(p) PROVE Rising'
  <2>1. mode = "up" /\ mode' = mode /\ next_id' = next_id + 1 /\ pushed' = Append(pushed, next_id)
    BY <1>2 DEF Push, CanLock, process
  <2>2. PICK k : k = Len(pushed)
    OBVIOUS
  <2>3. /\ k \in Nat /\ DOMAIN pushed = 1..k /\ DOMAIN pushed' = 1..(k + 1)
        /\ pushed'[k + 1] = next_id /\ \A m \in 1..k : pushed'[m] = pushed[m]
    BY SMTT(30), <2>1, <2>2, <1>1, AppendElements
  <2>4. 1..(k + 1) = 1..k \cup {k + 1}
    BY SMTT(30), <2>3
  <2>5. \A n \in DOMAIN pushed' : pushed'[n] < next_id'
    BY <1>1, <2>1, <2>3, <2>4 DEF Rising
  <2>6. \A m \in 1..k : pushed'[m] # next_id
    BY <1>1, <2>3 DEF Rising
  <2>7. IdsUnique'
    BY SMTT(30), <2>3, <2>4, <2>6 DEF Rising, IdsUnique
  <2> QED
    BY <2>1, <2>5, <2>7 DEF Rising
<1>3. ~Crash
  BY DEF Crash
<1>4. CASE ~\E p \in Priorities : Push(p)
  <2>1. /\ pushed' = pushed
        /\ mode = "up" => mode' = "up" /\ next_id' \in {next_id, next_id + 1}
    BY <1>3, <1>4, IdsKept
  <2>2. CASE mode = "up"
    BY SMTT(30), <1>1, <2>1, <2>2 DEF Rising, IdsUnique
  <2>3. CASE mode # "up"
    BY SMTT(30), <2>1, <2>3 DEF Rising, IdsUnique
  <2> QED
    BY <2>2, <2>3
<1> QED
  BY <1>2, <1>4

(* IdsUnique: no two pushes are given one id, in an engine that never        *)
(* compacts, whatever kills come, and in one that is never killed, whatever  *)
(* compactions come.  With both, recover() can start from an id that compaction *)
(* has removed the records of (engine.rs:605).                               *)
THEOREM IdsNeverReused == Spec /\ (Uncompacted \/ NeverKilled) => []IdsUnique
<1>1. Spec /\ Uncompacted => []IdsUnique
  <2>1. Recorded => IdsUnique
    BY DEF Recorded
  <2> QED
    BY <2>1, RecordedInvariant, PTL
<1>2. Spec /\ NeverKilled => []IdsUnique
  <2>1. Init => Rising
    BY SMTT(30) DEF Init, Rising, IdsUnique
  <2>2. IInv /\ Rising /\ crashes = 0 /\ (crashes = 0)' /\ [Next]_vars => Rising'
    BY RisingStep
  <2>3. Rising => IdsUnique
    BY DEF Rising
  <2> QED
    BY <2>1, <2>2, <2>3, Inductive, PTL DEF Spec, NeverKilled
<1> QED
  BY <1>1, <1>2

=============================================================================
