-------------------------- MODULE EngineTaskProofs --------------------------
(***************************************************************************)
(* The tasks of the engine: memory and log agree on where each of them is, *)
(* a restart changes nothing, what is finished stays so, and the log       *)
(* implements the abstract TaskQueue.                                      *)
(***************************************************************************)
EXTENDS EngineSafeProofs

\* Every leaf is tried with Zenon first and, if that fails, with the SMT solver.
USE ZenonT(10), SMTT(30)

\* Facts of the extended modules that no proof below needs.
HIDE DEF NatInduction, DownwardNatInduction, GeneralNatInduction,
         SmallestNatural, RecursiveFcnOfNat, NatInductiveDef,
         RecursiveFcnOfNatType, NatInductiveDefType, RecursiveFcnOfNatUnique,
         NatInductiveUnique, FiniteNatInductiveDef,
         FiniteNatInductiveDefType, FiniteNatInductiveUnique,
         EmptyIsWellFounded, IsWellFoundedOnSubset,
         IsWellFoundedOnSubrelation, WFMin, MinWF, WellFoundedIsIrreflexive,
         WellFoundedIsAsymmetric, WFSetLessThanIrreflexive,
         SetLessTransitive, WFInduction, WFDefOnUnique, WFInductiveDefLemma,
         TransitiveClosureThm, TransitiveClosureMinimal, TCTCTC, TCRTC,
         RTCTC, TransitiveClosureChopLast, TransitiveClosureWF,
         WFInductiveDef, WFInductiveDefType, NatLessThanWellFounded,
         PreImageWellFounded, WFLexPairOrdering, WFLexProductOrdering,
         FS_NatSurjection, FS_NatBijection, FS_CountingElements,
         FS_SurjCardinalityBound, FS_CardinalityType, FS_Bijection,
         FS_SameCardinalityBij, FS_SurjSameCardinalityImpliesInj,
         FS_Surjection, FS_Image, FS_Injection, FS_PigeonHole, FS_EmptySet,
         FS_AddElement, FS_RemoveElement, FS_Singleton, FS_Subset,
         FS_Interval, FS_BoundedSetOfNaturals, FS_Induction,
         FS_FiniteSubsetsOfFinite, FS_StrictSubsetOrderingWellFounded,
         FS_WFInduction, FS_Union, FS_MajoritiesIntersect, FS_Intersection,
         FS_Difference, FS_UNION, FS_Product, FS_SUBSET, SetExtensionality,
         NoSetContainsEverything, NatMin, BitMax, WordAndBit, WordBitUnique,
         EmptyQueueOK, PushOK, TopOK, PopOK, QueuedDef, TailElements,
         PushBuckets, PopBuckets, CacheType, LocOrder, LocType,
         MaximalExists, LastOK, ImageFinite, SegmentCount, IdsFinite,
         SurvivorsOK, OffsetsOK, CompactedOK, SubsetUnique, WithoutSegment,
         CutSegment, ReplaceSegment, LargestExists, EarliestExists, PutHolds,
         CacheInsertHolds, HeadUnique, HeadExists, TipsAppend, CompactedTips,
         LocBySegment, TipsRename, TipsUnlink, InOrderKept, InOrderPush,
         InOrderPop, NextLocFree, AppendLayout, AppendFailsLayout,
         LayoutUnchanged, UnlinkLayout, CompactionLayout, CrashLayout,
         LastSegmentOK, ScanLayout, OpenLayout, CreatedFrameType,
         AckedFrameType, FailedFrameType, LeasedFrameType, QueueOKEmpty,
         QueueOKPush, LeasesOKEmpty, LeasesOKPut, LeasesOKDrop, IndexPut,
         IndexDrop, KnownNat, TasksUnchanged, TasksAppend, FailureOK,
         PushStep, AckStep, NackStep, PopStep, FailedCallStep, RestStep,
         ReaderStep, ClearOrTickStep, ExpirationStep, CompactionStep,
         CrashStep, OpenStep, LocationsOK, RecoverIndexStep, NextEntryFirst,
         NextEntryOK, ReplayStep, InitIInv, NextIInv, Inductive, TypeCorrect,
         RetriesAreBounded, NoFrameOverwritten, AllReadable, QuietDisk,
         AppendDisk, AppendFailsDisk, UnlinkTips, CrashDisk, PushOfLatest,
         QuietKept, QuietPlaced, AppendKept, AppendPlaced, PushSafe, AckSafe,
         FailureSafe, PopSafe, NackSafe, ExpireSafe, FailedCallSafe,
         QuietSafe, CompactionSafe, CrashSafe, OpenFilesSafe, IdAfterAbove,
         RecoverSafe, ReplayPlaces, ReplayPlaced, ReplaySafe, InitSafe,
         NextSafe, NoTaskIsLost, IdsReusedWhenFinished, PlainStep,
         PlainInvariant, LogGrows, PushWrites, NextIdNew, RecordedStep,
         RecordedInvariant, IdsKept, RisingStep, IdsNeverReused

-----------------------------------------------------------------------------
(* Memory agrees with the log.                                             *)

\* The snapshot of the expiration thread still says what the leases say.
SnapshotFresh ==
  \A t \in expired_tasks : /\ t.id \in DOMAIN leased
                           /\ leased[t.id].priority = t.priority /\ leased[t.id].retries = t.retries

\* The lease a Leased record tells of; a waiting task and a lease that the latest
\* record of the task tells of.
LeaseOf(f) == [consumer_id |-> f.consumer, expire_timestamp |-> f.expire, retries |-> f.retries,
               priority |-> f.priority]

Said(t) == \E v \in Tips(log) : /\ v.id = t.id /\ v.op \notin Terminal
                                /\ v.priority = t.priority /\ v.retries = t.retries

LeaseSaid(id) == \E v \in Tips(log) : v.id = id /\ v.op = "Leased" /\ leased[id] = LeaseOf(v)

\* Once recover() has got to a task, memory has it where its latest record says, and
\* nowhere else: waiting, leased, or stranded by a failed pop.
Agree == Replayed =>
  /\ Counted(ready_queue)
  /\ \A t \in Queued(ready_queue) : Said(t) /\ t.id \notin entries \cup DOMAIN leased \cup stranded
  /\ \A id \in DOMAIN leased : LeaseSaid(id) /\ id \notin entries \cup stranded
  /\ \A v \in Tips(log) : v.op \in Terminal \/ v.id \in entries \cup ReadyIds \cup DOMAIN leased \cup stranded

\* A restart finds the stranded tasks again.
Stranded == /\ mode # "up" => stranded = {}
            /\ \A id \in stranded : id < next_id

\* The latest record of a finished push says so, if it is still there and no later
\* push was given the id.
Final == /\ Finished \subseteq DOMAIN pushed
         /\ \A n \in Finished : \A v \in Tips(log) :
              v.id = pushed[n] => v.op \in Terminal \/ \E m \in DOMAIN pushed : m > n /\ pushed[m] = pushed[n]

\* What memory and log have in common in every state.
Agreed == Agree /\ Stranded /\ Final

\* Steps that leave the tasks where they are, and may drop the records of
\* finished ones.
LEMMA QuietAgree ==
  ASSUME Agree, Forgets(Tips(log), Tips(log)'),
         UNCHANGED <<ready_queue, leased, stranded, entries, mode>>
  PROVE  Agree'
<1> SUFFICES ASSUME Replayed PROVE Agree'
  BY DEF Agree, Replayed
<1>1. /\ Tips(log)' \subseteq Tips(log)
      /\ \A v \in Tips(log) : v.op \notin Terminal => v \in Tips(log)'
  BY DEF Forgets
<1>2. \A t \in Queued(ready_queue) : Said(t)'
  BY <1>1 DEF Agree, Said
<1>3. \A id \in DOMAIN leased : LeaseSaid(id)'
  BY <1>1 DEF Agree, LeaseSaid, Terminal
<1>4. ReadyIds' = ReadyIds
  BY DEF ReadyIds
<1> QED
  BY <1>1, <1>2, <1>3, <1>4 DEF Agree

\* Records that go do not bring a finished push back.
LEMMA QuietFinal ==
  ASSUME Final, Tips(log)' \subseteq Tips(log), UNCHANGED <<pushed, acked, dead>>
  PROVE  Final'
  BY DEF Final, Finished

\* What memory does when the record f is appended: the task of f goes where f
\* says, and no other task moves.
Follows(f) ==
  /\ Counted(ready_queue)'
  /\ \A t \in Queued(ready_queue') :
       \/ t \in Queued(ready_queue) /\ t.id # f.id
       \/ /\ t.id = f.id /\ f.op \notin Terminal /\ t.priority = f.priority /\ t.retries = f.retries
          /\ f.id \notin DOMAIN leased' \cup stranded
  /\ \A id \in DOMAIN leased' :
       \/ id \in DOMAIN leased /\ id # f.id /\ leased'[id] = leased[id]
       \/ id = f.id /\ f.op = "Leased" /\ leased'[id] = LeaseOf(f) /\ f.id \notin stranded
  /\ f.op \in Terminal \/ f.id \in (ReadyIds \cup DOMAIN leased)'
  /\ ReadyIds \cup DOMAIN leased \subseteq (ReadyIds \cup DOMAIN leased)' \cup {f.id}
  /\ stranded' = stranded

\* Then memory agrees with the log again.
LEMMA AppendAgree ==
  ASSUME mode = "up", entries = {}, Agree, NEW f \in Frame, Tips(log)' = Told(Tips(log), f),
         Follows(f), UNCHANGED <<mode, entries>>
  PROVE  Agree'
<1>1. /\ Strip(f) \in Tips(log)' /\ Strip(f).id = f.id /\ Strip(f).op = f.op
      /\ Strip(f).priority = f.priority /\ Strip(f).retries = f.retries
      /\ LeaseOf(Strip(f)) = LeaseOf(f)
  BY StripOK DEF Told, LeaseOf
<1>2. /\ \A v \in Tips(log) : v.id # f.id => v \in Tips(log)'
      /\ \A v \in Tips(log)' : v = Strip(f) \/ (v \in Tips(log) /\ v.id # f.id)
  BY DEF Told
<1>3. /\ \A t \in Queued(ready_queue) : Said(t) /\ t.id \notin DOMAIN leased \cup stranded
      /\ \A id \in DOMAIN leased : LeaseSaid(id) /\ id \notin stranded
      /\ \A v \in Tips(log) : v.op \in Terminal \/ v.id \in ReadyIds \cup DOMAIN leased \cup stranded
  BY DEF Agree, Replayed
<1>4. ASSUME NEW t \in Queued(ready_queue')
      PROVE  Said(t)' /\ t.id \notin (DOMAIN leased \cup stranded)'
  <2>1. CASE t \in Queued(ready_queue) /\ t.id # f.id
    <3>1. Said(t)'
      BY <2>1, <1>2, <1>3 DEF Said
    <3> QED
      BY <3>1, <2>1, <1>3 DEF Follows
  <2>2. CASE t.id = f.id
    BY <2>2, <1>1 DEF Said, Follows
  <2> QED
    BY <2>1, <2>2 DEF Follows
<1>5. ASSUME NEW id \in DOMAIN leased' PROVE LeaseSaid(id)' /\ id \notin stranded'
  <2>1. CASE id # f.id
    BY SMTT(30), <2>1, <1>2, <1>3 DEF LeaseSaid, Follows
  <2>2. CASE id = f.id
    BY <2>2, <1>1 DEF LeaseSaid, Follows
  <2> QED
    BY <2>1, <2>2
<1>6. ASSUME NEW v \in Tips(log)' PROVE v.op \in Terminal \/ v.id \in (ReadyIds \cup DOMAIN leased \cup stranded)'
  <2>1. CASE v = Strip(f)
    BY <2>1, <1>1 DEF Follows
  <2>2. CASE v \in Tips(log) /\ v.id # f.id
    BY <2>2, <1>3 DEF Follows
  <2> QED
    BY <2>1, <2>2, <1>2
<1> QED
  BY <1>4, <1>5, <1>6 DEF Agree, Follows

\* A finished push stays finished: only a task that is not finished, or was
\* pushed anew, gets another record that says it is not.
LEMMA AppendFinal ==
  ASSUME TasksOK, Final, NEW f \in Frame, f.id \in Known, Tips(log)' = Told(Tips(log), f), pushed' = pushed,
         Finished' \subseteq Finished \cup {PushOf(f.id)},
         f.op \notin Terminal => Finished' = Finished /\ \E w \in Tips(log) : w.id = f.id /\ w.op \notin Terminal
  PROVE  Final'
<1>1. PushOf(f.id) \in DOMAIN pushed /\ pushed[PushOf(f.id)] = f.id
  BY PushOfOK
<1>2. Strip(f).id = f.id /\ Strip(f).op = f.op
  BY StripOK
<1>3. ASSUME NEW n \in Finished', NEW v \in Tips(log)', v.id = pushed[n]
      PROVE  v.op \in Terminal \/ \E m \in DOMAIN pushed : m > n /\ pushed[m] = pushed[n]
  <2>1. CASE v = Strip(f)
    BY <2>1, <1>2, <1>3 DEF Final
  <2>2. CASE v \in Tips(log) /\ v.id # f.id
    BY <2>2, <1>1, <1>3 DEF Final
  <2> QED
    BY <2>1, <2>2 DEF Told
<1> QED
  BY <1>1, <1>3 DEF Final

-----------------------------------------------------------------------------
(* The calls of producers and consumers.                                   *)

(* push                                                                      *)
LEMMA PushAgree ==
  ASSUME IInv, Disk, Safe, Agreed, NEW p \in Priorities, Push(p)
  PROVE  Agreed'
<1> DEFINE f == CreatedFrame(next_id, p, Len(pushed) + 1)
           t == [id |-> next_id, priority |-> p, retries |-> 0]
<1>1. /\ f \in Frame /\ Tips(log)' = Told(Tips(log), f)
      /\ t \in TaskRef /\ ready_queue' = QueuePush(ready_queue, t)
      /\ Queued(ready_queue)' = Queued(ready_queue) \cup {t}
      /\ mode = "up" /\ next_id' = next_id + 1 /\ pushed' = Append(pushed, next_id)
      /\ UNCHANGED <<mode, entries, leased, expired_tasks, stranded, acked, dead>>
  BY PushMoves
<1>2. /\ f.id = next_id /\ f.op \notin Terminal /\ f.priority = p /\ f.retries = 0
      /\ t.id = next_id /\ t.priority = p /\ t.retries = 0
  BY DEF CreatedFrame, Terminal
<1> HIDE DEF f, t
<1>3. next_id \in Nat /\ pushed \in Seq(Nat) /\ ready_queue \in Queue /\ stranded \subseteq Nat
  BY DEF IInv, IndexOK, TasksOK, QueueOK, RestOK
<1>4. /\ \A id \in ReadyIds \cup DOMAIN leased : id < next_id
      /\ entries = {} /\ \A id \in stranded : id < next_id
      /\ Counted(ready_queue)
  BY <1>1 DEF Safe, Placed, Replayed, Live, Agreed, Agree, Stranded
<1>5. next_id \notin ReadyIds \cup DOMAIN leased \cup stranded
  BY <1>3, <1>4
<1>6. Counted(ready_queue)'
  BY <1>1, <1>2, <1>3, <1>4, <1>5, CountedPush DEF IdsOf, ReadyIds
<1>7. ReadyIds' = ReadyIds \cup {next_id} /\ \A u \in Queued(ready_queue) : u.id \in ReadyIds
  BY <1>1, <1>2 DEF ReadyIds
<1>8. Follows(f)
  BY <1>1, <1>2, <1>5, <1>6, <1>7 DEF Follows
<1>9. Agree'
  BY <1>1, <1>4, <1>8, AppendAgree DEF Agreed
<1>10. Stranded'
  BY <1>1, <1>3, <1>4 DEF Stranded
<1>11. /\ Len(pushed) \in Nat /\ DOMAIN pushed = 1..Len(pushed)
       /\ DOMAIN pushed' = 1..(Len(pushed) + 1)
       /\ \A n \in DOMAIN pushed : pushed'[n] = pushed[n]
       /\ pushed'[Len(pushed) + 1] = next_id
  BY SMTT(30), <1>1, <1>3, AppendElements
<1>12. Final'
  <2>1. Finished' = Finished /\ Finished \subseteq DOMAIN pushed
    BY <1>1 DEF Finished, Agreed, Final
  <2>2. ASSUME NEW n \in Finished, NEW v \in Tips(log)', v.id = pushed'[n]
        PROVE  v.op \in Terminal \/ \E m \in DOMAIN pushed' : m > n /\ pushed'[m] = pushed'[n]
    <3>1. n \in 1..Len(pushed) /\ pushed'[n] = pushed[n]
      BY <2>1, <1>11
    <3>2. CASE v.id = next_id
      BY <3>1, <3>2, <2>2, <1>11
    <3>3. CASE v.id # next_id
      <4>1. v \in Tips(log)
        BY <3>3, <1>1, <1>2, StripOK DEF Told
      <4>2. v.op \in Terminal \/ \E m \in DOMAIN pushed : m > n /\ pushed[m] = pushed[n]
        BY <4>1, <3>1, <2>2 DEF Agreed, Final
      <4> QED
        BY SMTT(30), <4>2, <3>1, <1>11
    <3> QED
      BY <3>2, <3>3
  <2> QED
    BY SMTT(30), <2>1, <2>2, <1>11 DEF Final
<1> QED
  BY <1>9, <1>10, <1>12 DEF Agreed

(* ack                                                                       *)
LEMMA AckAgree ==
  ASSUME IInv, Disk, Safe, Agreed, NEW c \in Consumers, NEW id \in DOMAIN leased, Ack(c, id)
  PROVE  Agreed'
<1> DEFINE f == AckedFrame(id, leased[id].priority)
<1>1. /\ f \in Frame /\ Tips(log)' = Told(Tips(log), f)
      /\ mode = "up" /\ leased' = Drop(leased, id) /\ acked' = acked \cup {PushOf(id)}
      /\ UNCHANGED <<mode, entries, next_id, ready_queue, expired_tasks, stranded, pushed, dead>>
  BY AckMoves
<1>2. f.id = id /\ f.op \in Terminal
  BY DEF AckedFrame, Terminal
<1> HIDE DEF f
<1>3. entries = {} /\ Counted(ready_queue) /\ \A t \in Queued(ready_queue) : t.id # id
  BY SMTT(30), <1>1 DEF Safe, Placed, Replayed, Agreed, Agree
<1>4. /\ DOMAIN leased' = DOMAIN leased \ {id} /\ \A j \in DOMAIN leased' : leased'[j] = leased[j]
      /\ ReadyIds' = ReadyIds
  BY <1>1 DEF Drop, ReadyIds
<1>5. Follows(f)
  BY <1>1, <1>2, <1>3, <1>4 DEF Follows
<1>6. Agree'
  BY <1>1, <1>3, <1>5, AppendAgree DEF Agreed
<1>7. f.id \in Known
  BY <1>2 DEF IInv, TasksOK, LeasesOK
<1>8. Finished' = Finished \cup {PushOf(f.id)}
  BY <1>1, <1>2 DEF Finished
<1>9. Final'
  BY <1>1, <1>2, <1>7, <1>8, AppendFinal DEF IInv, Agreed
<1>10. Stranded'
  BY <1>1 DEF Agreed, Stranded
<1> QED
  BY <1>6, <1>9, <1>10 DEF Agreed

(* nack, and expiry by a snapshot that is not stale.                         *)
LEMMA FailureAgree ==
  ASSUME IInv, Disk, Safe, Agreed, NEW id \in DOMAIN leased, NEW op,
         FailureCall(id, leased[id].priority, leased[id].retries, op),
         UNCHANGED <<entries, next_id, stranded, pushed, acked>>
  PROVE  Agreed'
<1> DEFINE p == leased[id].priority
           r == leased[id].retries
           f == FailureFrame(id, p, r, op)
           t == Retried(id, p, r)
<1>1. /\ f \in Frame /\ Tips(log)' = Told(Tips(log), f) /\ t \in TaskRef
      /\ leased' = Drop(leased, id)
      /\ Exhausted(r) => dead' = dead \cup {PushOf(id)} /\ ready_queue' = ready_queue
      /\ ~Exhausted(r) => /\ dead' = dead /\ ready_queue' = QueuePush(ready_queue, t)
                          /\ Queued(ready_queue)' = Queued(ready_queue) \cup {t}
  BY FailureMoves
<1>2. mode = "up" /\ mode' = mode /\ op \in {"Nacked", "Expired"}
  BY DEF FailureCall
<1>3. /\ f.id = id /\ f.priority = p /\ f.retries = r + 1 /\ (f.op \in Terminal <=> Exhausted(r))
      /\ t.id = id /\ t.priority = p /\ t.retries = r + 1
  BY <1>2 DEF FailureFrame, Retried, FailedFrame, Terminal
<1> HIDE DEF p, r, f, t
<1>4. /\ entries = {} /\ Counted(ready_queue) /\ \A u \in Queued(ready_queue) : u.id # id
      /\ id \notin stranded
  BY SMTT(30), <1>2 DEF Safe, Placed, Replayed, Agreed, Agree
<1>5. /\ DOMAIN leased' = DOMAIN leased \ {id} /\ \A j \in DOMAIN leased' : leased'[j] = leased[j]
      /\ Exhausted(r) => ReadyIds' = ReadyIds
      /\ ~Exhausted(r) => ReadyIds' = ReadyIds \cup {id}
  BY <1>1, <1>3 DEF Drop, ReadyIds
<1>6. Counted(ready_queue)'
  <2>1. ready_queue \in Queue /\ id \notin IdsOf(ready_queue)
    BY <1>4 DEF IInv, TasksOK, QueueOK, IdsOf
  <2> QED
    BY <2>1, <1>1, <1>3, <1>4, CountedPush
<1>7. \A u \in Queued(ready_queue') : u \in Queued(ready_queue) \/ (u = t /\ ~Exhausted(r))
  BY <1>1
<1>8. Follows(f)
  BY <1>3, <1>4, <1>5, <1>6, <1>7 DEF Follows
<1>9. Agree'
  BY <1>1, <1>2, <1>4, <1>8, AppendAgree DEF Agreed
<1>10. f.id \in Known
  BY <1>3 DEF IInv, TasksOK, LeasesOK
<1>11. \E w \in Tips(log) : w.id = id /\ w.op \notin Terminal
  BY <1>2 DEF Agreed, Agree, Replayed, LeaseSaid, Terminal
<1>12. /\ Finished' \subseteq Finished \cup {PushOf(f.id)}
       /\ f.op \notin Terminal => Finished' = Finished
  BY <1>1, <1>3 DEF Finished
<1>13. Final'
  BY <1>1, <1>3, <1>10, <1>11, <1>12, AppendFinal DEF IInv, Agreed
<1>14. Stranded'
  BY <1>2 DEF Agreed, Stranded
<1> QED
  BY <1>9, <1>13, <1>14 DEF Agreed

(* nack goes by the lease as it is.  (engine.rs:332-357)                     *)
LEMMA NackAgree ==
  ASSUME IInv, Disk, Safe, Agreed, NEW c \in Consumers, NEW id \in DOMAIN leased, Nack(c, id)
  PROVE  Agreed'
<1>1. FailureCall(id, leased[id].priority, leased[id].retries, "Nacked")
  BY NackCall
<1>2. UNCHANGED <<entries, next_id, stranded, pushed, acked>>
  BY DEF Nack, process
<1> QED
  BY <1>1, <1>2, FailureAgree

(* The expiration thread goes by its snapshot, which is the lease as it is as *)
(* long as the snapshot is fresh.  (engine.rs:424-436)                       *)
LEMMA ExpireAgree ==
  ASSUME IInv, Disk, Safe, Agreed, SnapshotFresh, NEW t \in expired_tasks, ExpireApply(t)
  PROVE  Agreed'
<1>1. FailureCall(t.id, t.priority, t.retries, "Expired")
  BY ExpireCall
<1>2. t.id \in DOMAIN leased /\ t.priority = leased[t.id].priority /\ t.retries = leased[t.id].retries
  BY DEF SnapshotFresh
<1>3. UNCHANGED <<entries, next_id, stranded, pushed, acked>>
  BY DEF ExpireApply, process
<1> QED
  BY <1>1, <1>2, <1>3, FailureAgree

(* pop_and_lease                                                             *)
LEMMA PopAgree ==
  ASSUME IInv, Disk, Safe, Agreed, NEW c \in Consumers, NEW ttl \in TTLs, PopAndLease(c, ttl)
  PROVE  Agreed'
<1> DEFINE t == QueueFront(ready_queue)
           f == LeasedFrame(t, c, now + ttl)
           l == [consumer_id |-> c, expire_timestamp |-> now + ttl, retries |-> t.retries,
                 priority |-> t.priority]
<1>1. /\ f \in Frame /\ Tips(log)' = Told(Tips(log), f)
      /\ mode = "up" /\ HasTask(ready_queue) /\ t \in Queued(ready_queue)
      /\ ready_queue' = QueuePop(ready_queue) /\ leased' = Put(leased, t.id, l)
      /\ UNCHANGED <<mode, entries, next_id, expired_tasks, stranded, pushed, acked, dead>>
  BY PopMoves
<1>2. f.id = t.id /\ f.op = "Leased" /\ LeaseOf(f) = l
  BY DEF LeasedFrame, LeaseOf
<1>3. ready_queue \in Queue /\ BitmapMatches(ready_queue) /\ t.id \in Known
  BY <1>1, QueueOKPop DEF IInv, TasksOK, QueueOK, TaskOK
<1> HIDE DEF f, t, l
<1>4. /\ entries = {} /\ Counted(ready_queue) /\ t.id \notin DOMAIN leased \cup stranded /\ Said(t)
  BY <1>1 DEF Safe, Placed, Replayed, Agreed, Agree
<1>5. Counted(ready_queue)' /\ \A u \in Queued(ready_queue') : u.id # t.id
  BY <1>1, <1>3, <1>4, CountedPop DEF t
<1>6. Queued(ready_queue') \subseteq Queued(ready_queue)
      /\ Queued(ready_queue) \subseteq Queued(ready_queue') \cup {t}
  BY <1>1, <1>3, PopTakes DEF t
<1>7. /\ DOMAIN leased' = DOMAIN leased \cup {t.id} /\ leased'[t.id] = l
      /\ \A j \in DOMAIN leased : j # t.id => leased'[j] = leased[j]
      /\ ReadyIds \subseteq ReadyIds' \cup {t.id}
  BY <1>1, <1>6 DEF Put, ReadyIds
<1>8. Follows(f)
  BY <1>1, <1>2, <1>4, <1>5, <1>6, <1>7 DEF Follows
<1>9. Agree'
  BY <1>1, <1>4, <1>8, AppendAgree DEF Agreed
<1>10. Finished' = Finished
  BY <1>1 DEF Finished
<1>11. \E w \in Tips(log) : w.id = f.id /\ w.op \notin Terminal
  BY <1>2, <1>4 DEF Said
<1>12. Final'
  BY <1>1, <1>2, <1>3, <1>10, <1>11, AppendFinal DEF IInv, Agreed
<1>13. Stranded'
  BY <1>1 DEF Agreed, Stranded
<1> QED
  BY <1>9, <1>12, <1>13 DEF Agreed

HIDE DEF FailureAgree

-----------------------------------------------------------------------------
(* The other threads, a kill, and open().                                  *)

(* Calls that fail.                                                          *)
LEMMA FailedCallAgree ==
  ASSUME IInv, Disk, Safe, Agreed,
         PushFails \/ PopFails \/ AckOrNackFails \/ \E t \in expired_tasks : ExpireFails(t)
  PROVE  Agreed'
<1>1. /\ log' = log /\ mode = "up" /\ mode' = mode
      /\ next_id' \in {next_id, next_id + 1}
      /\ UNCHANGED <<entries, leased, pushed, acked, dead>>
      /\ \/ UNCHANGED <<ready_queue, stranded>>
         \/ /\ HasTask(ready_queue) /\ ready_queue' = QueuePop(ready_queue)
            /\ stranded' = stranded \cup {QueueFront(ready_queue).id}
  BY FailedCallMoves
<1>2. Final'
  BY <1>1, QuietFinal DEF Agreed
<1>3. next_id \in Nat /\ stranded \subseteq Nat /\ ready_queue \in Queue /\ BitmapMatches(ready_queue)
  BY DEF IInv, IndexOK, RestOK, TasksOK, QueueOK
<1>4. CASE UNCHANGED <<ready_queue, stranded>>
  <2>1. Agree'
    BY <1>1, <1>4, QuietAgree, ForgetsNothing DEF Agreed
  <2>2. Stranded'
    BY <1>1, <1>3, <1>4 DEF Agreed, Stranded
  <2> QED
    BY <1>2, <2>1, <2>2 DEF Agreed
<1>5. CASE ~UNCHANGED <<ready_queue, stranded>>
  <2> DEFINE t == QueueFront(ready_queue)
  <2>1. /\ HasTask(ready_queue) /\ ready_queue' = QueuePop(ready_queue)
        /\ stranded' = stranded \cup {t.id}
    BY <1>1, <1>5
  <2>2. /\ t \in Queued(ready_queue) /\ Queued(ready_queue') \subseteq Queued(ready_queue)
        /\ Queued(ready_queue) \subseteq Queued(ready_queue') \cup {t}
    BY <2>1, <1>3, PopTakes
  <2>3. /\ Counted(ready_queue)
        /\ \A u \in Queued(ready_queue) : Said(u) /\ u.id \notin entries \cup DOMAIN leased \cup stranded
        /\ \A id \in DOMAIN leased : LeaseSaid(id) /\ id \notin entries \cup stranded
        /\ \A v \in Tips(log) : v.op \in Terminal \/ v.id \in entries \cup ReadyIds \cup DOMAIN leased \cup stranded
    BY <1>1 DEF Agreed, Agree, Replayed
  <2>4. Counted(ready_queue') /\ \A u \in Queued(ready_queue') : u.id # t.id
    BY <2>1, <2>3, <1>3, CountedPop
  <2>5. t.id \in ReadyIds /\ t.id \in Nat /\ t.id < next_id
    <3>1. t.id \in ReadyIds
      BY <2>2 DEF ReadyIds
    <3>2. t.id < next_id
      BY <3>1, <1>1 DEF Safe, Placed, Replayed, Live
    <3> QED
      BY <3>1, <3>2, <2>1, QueueOKPop DEF IInv, TasksOK, TaskOK, TaskRef
  <2> HIDE DEF t
  <2>6. ReadyIds \subseteq ReadyIds' \cup {t.id}
    BY <2>2 DEF ReadyIds
  <2>7. (\A u \in Queued(ready_queue') : Said(u)') /\ (\A id \in DOMAIN leased : LeaseSaid(id)')
    BY <1>1, <2>2, <2>3 DEF Said, LeaseSaid
  <2>8. t.id \notin DOMAIN leased
    BY <2>2, <2>3
  <2>9. Agree'
    BY <1>1, <2>1, <2>2, <2>3, <2>4, <2>6, <2>7, <2>8 DEF Agree
  <2>10. Stranded'
    BY <1>1, <1>3, <2>1, <2>5 DEF Agreed, Stranded
  <2> QED
    BY <1>2, <2>9, <2>10 DEF Agreed
<1> QED
  BY <1>4, <1>5

(* Steps that leave log and tasks alone.                                     *)
LEMMA QuietAgreed ==
  ASSUME Agreed, UNCHANGED <<log, next_id, ready_queue, leased, stranded, entries, mode, pushed, acked, dead>>
  PROVE  Agreed'
<1>1. Agree'
  BY QuietAgree, ForgetsNothing DEF Agreed
<1>2. Final'
  BY QuietFinal DEF Agreed
<1>3. Stranded'
  BY DEF Agreed, Stranded
<1> QED
  BY <1>1, <1>2, <1>3 DEF Agreed

(* compact()                                                                 *)
LEMMA CompactionAgree ==
  ASSUME IInv, IInv', Disk, Agreed, Compaction
  PROVE  Agreed'
<1>1. /\ mode = "up"
      /\ UNCHANGED <<next_id, ready_queue, leased, stranded, entries, pushed, acked, dead, mode>>
  BY CompactionMoves
<1>2. Forgets(Tips(log), Tips(log)')
  BY CompactionDisk DEF IInv, RestOK, SideFiles
<1>3. Agree'
  BY <1>1, <1>2, QuietAgree DEF Agreed
<1>4. Final'
  BY <1>1, <1>2, QuietFinal DEF Agreed, Forgets
<1>5. Stranded'
  BY <1>1 DEF Agreed, Stranded
<1> QED
  BY <1>3, <1>4, <1>5 DEF Agreed

(* A kill.                                                                   *)
LEMMA CrashAgree ==
  ASSUME Agreed, Crash
  PROVE  Agreed'
<1>1. mode' = "down" /\ stranded' = {} /\ log' = log /\ UNCHANGED <<pushed, acked, dead>>
  BY DEF Crash
<1>2. Final'
  BY <1>1, QuietFinal DEF Agreed
<1> QED
  BY <1>1, <1>2 DEF Agreed, Agree, Stranded, Replayed

(* open()                                                                    *)
LEMMA OpenFilesAgree ==
  ASSUME IInv, IInv', Disk, Agreed, OpenFiles
  PROVE  Agreed'
<1>1. /\ mode \in {"down", "discard", "scan"} /\ mode' \in {"down", "discard", "scan", "index"}
      /\ UNCHANGED <<stranded, pushed, acked, dead>>
  BY OpenFilesMoves
<1>2. Tips(log)' \subseteq Tips(log)
  BY OpenDisk DEF IInv, RestOK, SideFiles, Open, OpenFiles, Forgets
<1>3. Final'
  BY <1>1, <1>2, QuietFinal DEF Agreed
<1>4. Agree' /\ Stranded'
  BY <1>1 DEF Agreed, Agree, Stranded, Replayed
<1> QED
  BY <1>3, <1>4 DEF Agreed

(* The first pass of recover(): all tasks of the log are still to be         *)
(* replayed, and memory says nothing yet.                                    *)
LEMMA RecoverAgree ==
  ASSUME IInv, IInv', Disk, Safe, Agreed, RecoverIndex
  PROVE  Agreed'
<1>1. /\ log' = log /\ mode = "index" /\ mode' = "replay" /\ entries' = IdsIn(log)
      /\ UNCHANGED <<ready_queue, leased, stranded, pushed, acked, dead>>
  BY RecoverMoves
<1>2. ready_queue' = EmptyQueue /\ leased' = EmptyMap /\ stranded' = {}
  BY <1>1 DEF Safe, Blank, Replayed, Agreed, Stranded
<1>3. Queued(ready_queue') = {} /\ DOMAIN leased' = {} /\ Counted(ready_queue')
  BY <1>2, EmptyHasNone, CountedEmpty DEF EmptyMap
<1>4. \A v \in Tips(log) : v.id \in IdsIn(log)
  BY TipIsLast DEF IInv, Layout, IsLog
<1>5. Agree' /\ Stranded'
  BY <1>1, <1>2, <1>3, <1>4 DEF Agree, Stranded
<1>6. Final'
  BY <1>1, QuietFinal DEF Agreed
<1> QED
  BY <1>5, <1>6 DEF Agreed

(* The second pass of recover(): every task goes where its latest record     *)
(* says.                                                                     *)
LEMMA ReplayAgree ==
  ASSUME IInv, Safe, Agree, stranded = {}, log' = log, ReplayReady \/ ReplayLeased \/ ReplayTerminal
  PROVE  Agree'
<1> SUFFICES ASSUME NEW id, id = NextEntry, NEW f, f = Latest(NextEntry)
             PROVE  Agree'
  OBVIOUS
<1>1. /\ Replaying /\ mode = "replay" /\ mode' = mode /\ entries' = entries \ {id} /\ stranded' = {}
  BY ReplayMoves
<1>2. id \in entries /\ f \in Frame /\ f.id = id /\ Strip(f) \in Tips(log) /\ id \in Nat
  BY <1>1, ReplaysTip DEF Safe
<1>3. /\ Strip(f).id = id /\ Strip(f).op = f.op /\ LeaseOf(Strip(f)) = LeaseOf(f)
      /\ Strip(f).priority = f.priority /\ Strip(f).retries = f.retries
  BY <1>2, StripOK DEF LeaseOf
<1>4. /\ Counted(ready_queue)
      /\ \A t \in Queued(ready_queue) : Said(t) /\ t.id \notin entries \cup DOMAIN leased
      /\ \A j \in DOMAIN leased : LeaseSaid(j) /\ j \notin entries
      /\ \A v \in Tips(log) : v.op \in Terminal \/ v.id \in entries \cup ReadyIds \cup DOMAIN leased
  BY <1>1 DEF Agree, Replayed
<1>5. \A t \in Queued(ready_queue) : Said(t)'
  BY <1>4 DEF Said
<1>6. \A v \in Tips(log) : v.id = id => v.op = f.op
  <2>1. \A v \in Tips(log) : v.id = id => v = Strip(f)
    BY <1>2, <1>3, TipUnique DEF IInv, Layout, IsLog
  <2> QED
    BY <2>1, <1>3
<1>7. CASE ReplayReady
  <2>0. PICK t : t = [id |-> id, priority |-> f.priority, retries |-> f.retries]
    OBVIOUS
  <2>1. /\ ready_queue' = QueuePush(ready_queue, t) /\ leased' = leased
        /\ f.op \in {"Created", "Nacked", "Expired", "Leased"}
    BY <1>7, <2>0 DEF ReplayReady, ReplayAs
  <2>2. /\ t \in TaskRef /\ ready_queue \in Queue /\ t.id = id
        /\ t.priority = f.priority /\ t.retries = f.retries
    BY <1>2, <2>0 DEF TaskRef, Frame, IInv, TasksOK, QueueOK
  <2>3. f.op \notin Terminal
    BY <2>1 DEF Terminal
  <2>4. Queued(ready_queue') = Queued(ready_queue) \cup {t}
    BY <2>1, <2>2, QueuedPush
  <2>5. Counted(ready_queue')
    <3>1. id \notin IdsOf(ready_queue)
      BY <1>2, <1>4 DEF IdsOf
    <3> QED
      BY <3>1, <2>1, <2>2, <1>4, CountedPush
  <2>6. Said(t)'
    BY <2>2, <2>3, <1>2, <1>3 DEF Said
  <2>7. ReadyIds' = ReadyIds \cup {id}
    BY <2>2, <2>4 DEF ReadyIds
  <2>8. \A j \in DOMAIN leased : LeaseSaid(j)'
    BY <1>4, <2>1 DEF LeaseSaid
  <2>9. id \notin DOMAIN leased
    BY <1>2, <1>4
  <2> QED
    BY <1>1, <1>4, <1>5, <2>1, <2>2, <2>4, <2>5, <2>6, <2>7, <2>8, <2>9 DEF Agree
<1>8. CASE ReplayLeased
  <2>1. leased' = Put(leased, id, LeaseOf(f)) /\ ready_queue' = ready_queue /\ f.op = "Leased"
    BY <1>8 DEF ReplayLeased, ReplayAs, LeaseOf
  <2>2. /\ DOMAIN leased' = DOMAIN leased \cup {id} /\ leased'[id] = LeaseOf(f)
        /\ \A j \in DOMAIN leased : j # id => leased'[j] = leased[j]
        /\ ReadyIds' = ReadyIds
    BY <2>1 DEF Put, ReadyIds
  <2>3. LeaseSaid(id)'
    BY <2>1, <2>2, <1>2, <1>3 DEF LeaseSaid
  <2>4. \A j \in DOMAIN leased' : LeaseSaid(j)'
    BY SMTT(30), <1>4, <2>2, <2>3 DEF LeaseSaid
  <2>5. \A t \in Queued(ready_queue) : t.id # id
    BY <1>2, <1>4
  <2> QED
    BY <1>1, <1>4, <1>5, <2>1, <2>2, <2>4, <2>5 DEF Agree
<1>9. CASE ReplayTerminal
  <2>1. f.op \in Terminal /\ UNCHANGED <<ready_queue, leased>>
    BY <1>9 DEF ReplayTerminal
  <2>2. ReadyIds' = ReadyIds /\ \A j \in DOMAIN leased : LeaseSaid(j)'
    BY <2>1, <1>4 DEF ReadyIds, LeaseSaid
  <2> QED
    BY <1>1, <1>4, <1>5, <1>6, <2>1, <2>2 DEF Agree
<1> QED
  BY <1>7, <1>8, <1>9

(* The second pass as a whole; when it is done every task has its place.     *)
LEMMA ReplayAgreed ==
  ASSUME IInv, IInv', Disk, Safe, Agreed, ReplayReady \/ ReplayLeased \/ ReplayTerminal \/ RecoverDone
  PROVE  Agreed'
<1>1. /\ mode = "replay" /\ UNCHANGED <<next_id, stranded, pushed, acked, dead>>
  <2>1. CASE RecoverDone
    BY <2>1 DEF RecoverDone, Recovering, history
  <2> QED
    BY <2>1, ReplayMoves
<1>2. log' = log /\ stranded = {}
  BY <1>1, OpenDisk DEF IInv, RestOK, SideFiles, Open, Agreed, Stranded
<1>3. Final' /\ Stranded'
  BY <1>1, <1>2, QuietFinal DEF Agreed, Stranded
<1>4. CASE RecoverDone
  <2>1. mode' = "up" /\ UNCHANGED <<entries, ready_queue, leased>>
    BY <1>4 DEF RecoverDone
  <2>2. ReadyIds' = ReadyIds
    BY <2>1 DEF ReadyIds
  <2>3. /\ \A t \in Queued(ready_queue) : Said(t)' <=> Said(t)
        /\ \A j \in DOMAIN leased : LeaseSaid(j)' <=> LeaseSaid(j)
    BY <1>2, <2>1 DEF Said, LeaseSaid
  <2>4. Agree'
    BY <1>1, <1>2, <2>1, <2>2, <2>3 DEF Agreed, Agree, Replayed
  <2> QED
    BY <1>3, <2>4 DEF Agreed
<1>5. CASE ~RecoverDone
  BY <1>2, <1>3, <1>5, ReplayAgree DEF Agreed
<1> QED
  BY <1>4, <1>5

\* Before the first open() neither log nor memory says anything.
LEMMA InitAgreed == Init => Agreed
<1> SUFFICES ASSUME Init PROVE Agreed
  OBVIOUS
<1>1. mode = "down" /\ stranded = {} /\ acked = {} /\ dead = {}
  BY DEF Init
<1> QED
  BY <1>1 DEF Agreed, Agree, Stranded, Final, Finished, Replayed

(* One step of the engine.                                                   *)
LEMMA NextAgreed ==
  ASSUME IInv, IInv', Disk, Safe, Agreed, SnapshotFresh, [Next]_vars
  PROVE  Agreed'
<1>1. CASE Client \/ Reader \/ Tick \/ Expiration
  <2>1. ASSUME NEW p \in Priorities, Push(p) PROVE Agreed'
    BY <2>1, PushAgree
  <2>2. ASSUME NEW c \in Consumers, NEW ttl \in TTLs, PopAndLease(c, ttl) PROVE Agreed'
    BY <2>2, PopAgree
  <2>3. ASSUME NEW c \in Consumers, NEW id \in DOMAIN leased, Ack(c, id) PROVE Agreed'
    BY <2>3, AckAgree
  <2>4. ASSUME NEW c \in Consumers, NEW id \in DOMAIN leased, Nack(c, id) PROVE Agreed'
    BY <2>4, NackAgree
  <2>5. ASSUME NEW t \in expired_tasks, ExpireApply(t) PROVE Agreed'
    BY <2>5, ExpireAgree
  <2>6. ASSUME Reader \/ ClearPayloadCache \/ Tick \/ ExpireScan PROVE Agreed'
    BY <2>6, QuietMoves, QuietAgreed
  <2> QED
    BY <1>1, <2>1, <2>2, <2>3, <2>4, <2>5, <2>6, FailedCallAgree DEF Client, Expiration
<1>2. CASE Compaction
  BY <1>2, CompactionAgree
<1>3. CASE Open
  BY <1>3, OpenFilesAgree, RecoverAgree, ReplayAgreed DEF Open, OpenFiles
<1>4. CASE Crash
  BY <1>4, CrashAgree
<1>5. CASE UNCHANGED vars
  BY <1>5, QuietAgreed DEF vars
<1> QED
  BY <1>1, <1>2, <1>3, <1>4, <1>5 DEF Next

\* Memory and log agree in every state, if no kill comes between the two deletions
\* of open() and no snapshot of the expiration thread goes stale.
LEMMA AgreedInvariant == Spec /\ OpenUndisturbed /\ []SnapshotFresh => [](IInv /\ Safe /\ Agreed)
<1>1. Init => Agreed
  BY InitAgreed
<1>2. (IInv /\ Disk /\ Safe) /\ (IInv /\ Disk /\ Safe)' /\ Agreed /\ SnapshotFresh /\ [Next]_vars => Agreed'
  BY NextAgreed
<1> QED
  BY <1>1, <1>2, SafeInvariant, PTL DEF Spec

HIDE DEF FailedCallAgree, QuietAgreed, CompactionAgree, CrashAgree,
         OpenFilesAgree, RecoverAgree, ReplayAgree, ReplayAgreed, InitAgreed,
         NextAgreed

-----------------------------------------------------------------------------
(* Theorems.                                                               *)

(* OnePlace: whenever the engine's lock is free, the length of ready_queue is *)
(* the number of different tasks in it, and none of them is leased, unless   *)
(* the expiration thread applies a stale snapshot (engine.rs:424-436; the run *)
(* resurrection shows what then happens).                                    *)
THEOREM TaskHasOnePlace == Spec /\ OpenUndisturbed /\ []SnapshotFresh => []OnePlace
<1>1. IInv /\ Safe /\ Agreed => OnePlace
  <2> SUFFICES ASSUME Agreed, CanLock
               PROVE  /\ ready_queue.len = Cardinality(ReadyIds) /\ ReadyIds \cap DOMAIN leased = {}
    BY DEF OnePlace
  <2>1. Counted(ready_queue) /\ \A t \in Queued(ready_queue) : t.id \notin DOMAIN leased
    BY DEF Agreed, Agree, Replayed, CanLock
  <2>2. ReadyIds = IdsOf(ready_queue)
    BY DEF ReadyIds, IdsOf
  <2>3. ready_queue.len = Cardinality(ReadyIds)
    BY <2>1, <2>2 DEF Counted
  <2> QED
    BY <2>1, <2>3 DEF ReadyIds
<1> QED
  BY <1>1, AgreedInvariant, PTL

\* The latest record of a task, as the log has it and as the tips have it.
LEMMA LastOfTip ==
  ASSUME IInv, NEW v \in Tips(log)
  PROVE  LET f == Last(Of(log, v.id)).frame
         IN  /\ v.id \in IdsIn(log) /\ f.op = v.op /\ f.priority = v.priority /\ f.retries = v.retries
             /\ LeaseOf(f) = LeaseOf(v)
<1> DEFINE f == Last(Of(log, v.id)).frame
<1>1. v.id \in IdsIn(log) /\ f \in Frame /\ v = Strip(f)
  BY TipIsLast DEF IInv, Layout, IsLog
<1> HIDE DEF f
<1>2. /\ f.op = v.op /\ f.priority = v.priority /\ f.retries = v.retries
      /\ f.consumer = v.consumer /\ f.expire = v.expire
  BY <1>1, StripOK
<1> QED
  BY <1>1, <1>2 DEF f, LeaseOf

(* RestartIsTransparent: memory has at every moment what recover() would make *)
(* of the log, for the tasks that wait and those that are leased, but for the *)
(* tasks a failed call has stranded (engine.rs:601-669).                      *)
THEOREM RestartChangesNothing == Spec /\ OpenUndisturbed /\ []SnapshotFresh => []RestartIsTransparent
<1>1. IInv /\ Safe /\ Agreed => RestartIsTransparent
  <2> SUFFICES ASSUME IInv, Agreed, CanLock, Safe,
                      NEW id \in IdsIn(log) \cup ReadyIds \cup DOMAIN leased,
                      NEW f, f = Last(Of(log, id)).frame
               PROVE  /\ id \in IdsIn(log)
                      /\ id \in ReadyIds => [id |-> id, priority |-> f.priority, retries |-> f.retries]
                                              \in Queued(ready_queue)
                      /\ id \in DOMAIN leased => f.op = "Leased" /\ leased[id] = LeaseOf(f)
                      /\ id \notin ReadyIds \cup DOMAIN leased \cup stranded => f.op \in Terminal
    BY DEF RestartIsTransparent, LeaseOf
  <2>1. /\ \A t \in Queued(ready_queue) : Said(t)
        /\ \A j \in DOMAIN leased : LeaseSaid(j)
        /\ \A v \in Tips(log) : v.op \in Terminal \/ v.id \in ReadyIds \cup DOMAIN leased \cup stranded
    BY DEF Agreed, Agree, Safe, Placed, Replayed, CanLock
  <2>2. \A v \in Tips(log) : v.id = id =>
          /\ id \in IdsIn(log) /\ f.op = v.op /\ f.priority = v.priority /\ f.retries = v.retries
          /\ LeaseOf(f) = LeaseOf(v)
    BY LastOfTip
  <2>3. ASSUME id \in ReadyIds
        PROVE  /\ id \in IdsIn(log)
               /\ [id |-> id, priority |-> f.priority, retries |-> f.retries] \in Queued(ready_queue)
    <3>1. PICK t \in Queued(ready_queue) : t.id = id
      BY <2>3 DEF ReadyIds
    <3>2. PICK v \in Tips(log) : v.id = id /\ v.priority = t.priority /\ v.retries = t.retries
      BY <2>1, <3>1 DEF Said
    <3>3. t \in TaskRef
      BY DEF IInv, TasksOK, QueueOK, TaskOK
    <3>4. t = [id |-> id, priority |-> f.priority, retries |-> f.retries]
      BY <3>1, <3>2, <3>3, <2>2 DEF TaskRef
    <3> QED
      BY <3>2, <3>4, <2>2
  <2>4. ASSUME id \in DOMAIN leased PROVE id \in IdsIn(log) /\ f.op = "Leased" /\ leased[id] = LeaseOf(f)
    BY <2>1, <2>2, <2>4 DEF LeaseSaid
  <2>5. ASSUME id \in IdsIn(log) \ (ReadyIds \cup DOMAIN leased \cup stranded) PROVE f.op \in Terminal
    <3>1. PICK v \in Tips(log) : v.id = id
      BY SMTT(30), <2>5, TipIsLast DEF IInv, Layout, IsLog
    <3> QED
      BY <3>1, <2>1, <2>2, <2>5
  <2> QED
    BY <2>3, <2>4, <2>5
<1> QED
  BY <1>1, AgreedInvariant, PTL

(* TerminalIsFinal: no later call, compaction or restart brings a task back  *)
(* that was acknowledged or dead-lettered, unless the expiration thread      *)
(* applies a stale snapshot.                                                 *)
THEOREM FinishedStaysFinished == Spec /\ OpenUndisturbed /\ []SnapshotFresh => []TerminalIsFinal
<1>1. IInv /\ Safe /\ Agreed => TerminalIsFinal
  <2> SUFFICES ASSUME IInv, Agreed, CanLock, NEW n \in Finished, PushOf(pushed[n]) = n,
                      pushed[n] \in ReadyIds \cup DOMAIN leased
               PROVE  FALSE
    BY DEF TerminalIsFinal, Finished
  <2>1. n \in DOMAIN pushed /\ pushed[n] \in Known
    BY DEF Agreed, Final, Known
  <2>2. n \in Nat /\ DOMAIN pushed \subseteq Nat /\ \A m \in DOMAIN pushed : pushed[m] = pushed[n] => m <= n
    BY SMTT(30), <2>1, PushOfOK DEF IInv, TasksOK
  <2>3. PICK v \in Tips(log) : v.id = pushed[n] /\ v.op \notin Terminal
    BY SMTT(30) DEF Agreed, Agree, Replayed, CanLock, Said, LeaseSaid, ReadyIds, Terminal
  <2>4. PICK m \in DOMAIN pushed : m > n /\ pushed[m] = pushed[n]
    BY <2>3 DEF Agreed, Final
  <2> QED
    BY <2>2, <2>4
<1> QED
  BY <1>1, AgreedInvariant, PTL

HIDE DEF TaskHasOnePlace, LastOfTip, RestartChangesNothing,
         FinishedStaysFinished

-----------------------------------------------------------------------------
(* The engine implements TaskQueue, step by step.                          *)

\* The abstract queue's tasks.
Tasks == [n \in DOMAIN pushed |-> TaskOf(n)]

\* The task that a record tells of.
StateOf(v) == [state |-> IF v.op = "Leased" THEN "leased" ELSE "waiting", retries |-> v.retries]
Done == [state |-> "done", retries |-> 0]

\* u is the task with id among records V, if latest says that no later push has the id.
IsTask(u, V, id, latest) ==
  /\ \A v \in V : latest /\ v.id = id /\ v.op \notin Terminal => u = StateOf(v)
  /\ ~latest \/ (\A v \in V : v.id = id => v.op \in Terminal) => u = Done

\* The records of a task and its tip.
LEMMA RecordsAndTips ==
  ASSUME NEW L, IsLog(L), NEW id
  PROVE  /\ \A v \in Tips(L) : v.id = id => /\ Of(L, id) # {}
                                            /\ Last(Of(L, id)).frame.op = v.op
                                            /\ Last(Of(L, id)).frame.retries = v.retries
         /\ Of(L, id) # {} => \E v \in Tips(L) : v.id = id
<1>1. L \subseteq Entry /\ IsFiniteSet(L) /\ Unique(L)
  BY DEF IsLog
<1>2. Of(L, id) # {} <=> id \in IdsIn(L)
  BY DEF Of, IdsIn
<1>3. ASSUME NEW v \in Tips(L), v.id = id
      PROVE  Last(Of(L, id)).frame.op = v.op /\ Last(Of(L, id)).frame.retries = v.retries /\ id \in IdsIn(L)
  <2>1. /\ id \in IdsIn(L) /\ Last(Of(L, id)).frame \in Frame /\ v = Strip(Last(Of(L, id)).frame)
    BY SMTT(30), <1>1, <1>3, TipIsLast
  <2> QED
    BY <2>1, StripOK
<1>4. id \in IdsIn(L) => \E v \in Tips(L) : v.id = id
  BY SMTT(30), <1>1, TipIsLast
<1> QED
  BY <1>2, <1>3, <1>4

\* TaskOf is what the tips tell.
LEMMA TaskFromTips ==
  ASSUME NEW L, IsLog(L), NEW id, NEW latest \in BOOLEAN, NEW u,
         u = IF Of(L, id) = {} \/ ~latest \/ Last(Of(L, id)).frame.op \in Terminal
             THEN [state |-> "done", retries |-> 0]
             ELSE [state   |-> IF Last(Of(L, id)).frame.op = "Leased" THEN "leased" ELSE "waiting",
                   retries |-> Last(Of(L, id)).frame.retries]
  PROVE  IsTask(u, Tips(L), id, latest)
<1>1. \A v \in Tips(L) : v.id = id => /\ Of(L, id) # {}
                                      /\ Last(Of(L, id)).frame.op = v.op
                                      /\ Last(Of(L, id)).frame.retries = v.retries
  BY Zenon, RecordsAndTips
<1>2. Of(L, id) # {} => \E v \in Tips(L) : v.id = id
  BY Zenon, RecordsAndTips
<1>3. ASSUME NEW v \in Tips(L), latest, v.id = id, v.op \notin Terminal PROVE u = StateOf(v)
  BY Zenon, <1>1, <1>3 DEF StateOf
<1>4. ASSUME ~latest \/ \A v \in Tips(L) : v.id = id => v.op \in Terminal PROVE u = Done
  BY Zenon, <1>1, <1>2, <1>4 DEF Done
<1> QED
  BY Zenon, <1>3, <1>4 DEF IsTask

\* TaskOf, which the refinement mapping is made of, in terms of the tips.
LEMMA TaskNow ==
  ASSUME IInv, NEW n
  PROVE  IsTask(TaskOf(n), Tips(log), pushed[n], PushOf(pushed[n]) = n)
<1>1. IsLog(log)
  BY Zenon DEF IInv, Layout
<1> QED
  BY ZenonT(30), <1>1, TaskFromTips DEF TaskOf

\* The same of the next state.
LEMMA TaskNext ==
  ASSUME IInv', NEW n
  PROVE  IsTask(TaskOf(n)', Tips(log)', pushed'[n], PushOf(pushed[n])' = n)
<1>1. IsLog(log')
  BY Zenon DEF IInv, Layout
<1> QED
  BY ZenonT(30), <1>1, TaskFromTips DEF TaskOf

\* Before and after a step that is not a push.
LEMMA TaskNowNext ==
  ASSUME IInv, IInv', NEW n, pushed' = pushed
  PROVE  /\ IsTask(TaskOf(n), Tips(log), pushed[n], PushOf(pushed[n]) = n)
         /\ IsTask(TaskOf(n)', Tips(log)', pushed[n], PushOf(pushed[n]) = n)
<1>1. PushOf(pushed[n])' = PushOf(pushed[n])
  BY DEF PushOf
<1> QED
  BY <1>1, TaskNow, TaskNext

\* Steps that forget nothing but finished tasks.
LEMMA QuietTasks ==
  ASSUME IInv, IInv', Forgets(Tips(log), Tips(log)'), pushed' = pushed
  PROVE  Tasks' = Tasks
<1>1. ASSUME NEW n \in DOMAIN pushed PROVE TaskOf(n)' = TaskOf(n)
  <2>1. /\ IsTask(TaskOf(n), Tips(log), pushed[n], PushOf(pushed[n]) = n)
        /\ IsTask(TaskOf(n)', Tips(log)', pushed[n], PushOf(pushed[n]) = n)
    BY TaskNowNext
  <2> QED
    BY <2>1 DEF IsTask, Forgets
<1> QED
  BY <1>1 DEF Tasks

\* The append of a record of a task that is not finished.
LEMMA AppendTasks ==
  ASSUME IInv, IInv', pushed' = pushed, NEW f \in Frame, f.id \in Known, Tips(log)' = Told(Tips(log), f),
         NEW v \in Tips(log), v.id = f.id, v.op \notin Terminal
  PROVE  /\ PushOf(f.id) \in DOMAIN pushed
         /\ \A n \in DOMAIN pushed : n # PushOf(f.id) => TaskOf(n)' = TaskOf(n)
         /\ TaskOf(PushOf(f.id)) = StateOf(v)
         /\ \A k : k = PushOf(f.id) => TaskOf(k)' = IF f.op \in Terminal THEN Done ELSE StateOf(f)
<1>1. PushOf(f.id) \in DOMAIN pushed /\ pushed[PushOf(f.id)] = f.id
  BY PushOfOK DEF IInv
<1>2. /\ Strip(f) \in Tips(log)' /\ Strip(f).id = f.id /\ Strip(f).op = f.op
      /\ StateOf(Strip(f)) = StateOf(f)
  BY StripOK DEF Told, StateOf
<1>3. /\ \A w \in Tips(log) : w.id # f.id => w \in Tips(log)'
      /\ \A w \in Tips(log)' : w = Strip(f) \/ (w \in Tips(log) /\ w.id # f.id)
  BY DEF Told
<1>4. ASSUME NEW n \in DOMAIN pushed, n # PushOf(f.id) PROVE TaskOf(n)' = TaskOf(n)
  <2>1. /\ IsTask(TaskOf(n), Tips(log), pushed[n], PushOf(pushed[n]) = n)
        /\ IsTask(TaskOf(n)', Tips(log)', pushed[n], PushOf(pushed[n]) = n)
    BY TaskNowNext
  <2>2. CASE pushed[n] = f.id
    BY <1>4, <2>1, <2>2 DEF IsTask
  <2>3. CASE pushed[n] # f.id
    BY <1>2, <1>3, <2>1, <2>3 DEF IsTask
  <2> QED
    BY <2>2, <2>3
<1>5. ASSUME NEW k, k = PushOf(f.id)
      PROVE  /\ TaskOf(k) = StateOf(v)
             /\ TaskOf(k)' = IF f.op \in Terminal THEN Done ELSE StateOf(f)
  <2>1. /\ IsTask(TaskOf(k), Tips(log), f.id, TRUE)
        /\ IsTask(TaskOf(k)', Tips(log)', f.id, TRUE)
    <3>1. pushed[k] = f.id /\ (PushOf(pushed[k]) = k) = TRUE
      BY <1>1, <1>5
    <3> QED
      BY <3>1, TaskNowNext
  <2>2. TaskOf(k) = StateOf(v)
    BY <2>1 DEF IsTask
  <2>3. CASE f.op \in Terminal
    BY <2>1, <2>2, <2>3, <1>2, <1>3 DEF IsTask
  <2>4. CASE f.op \notin Terminal
    BY <2>1, <2>2, <2>4, <1>2 DEF IsTask
  <2> QED
    BY <2>2, <2>3, <2>4
<1> QED
  BY <1>1, <1>4, <1>5

\* One task takes a step of the abstract queue.
LEMMA TaskSteps ==
  ASSUME pushed' = pushed, NEW k \in DOMAIN pushed,
         \A n \in DOMAIN pushed : n # k => TaskOf(n)' = TaskOf(n),
         \/ Promise!Lease(TaskOf(k), TaskOf(k)')
         \/ Promise!GiveBack(TaskOf(k), TaskOf(k)')
         \/ Promise!Finish(TaskOf(k), TaskOf(k)')
  PROVE  Promise!Next
<1> DEFINE before == [n \in DOMAIN pushed |-> TaskOf(n)]
           after == [n \in DOMAIN pushed |-> TaskOf(n)]'
<1>1. /\ after = [before EXCEPT ![k] = after[k]] /\ DOMAIN before = DOMAIN pushed
      /\ before[k] = TaskOf(k) /\ after[k] = TaskOf(k)'
  OBVIOUS
<1> QED
  BY <1>1 DEF Promise!Next

(* push adds a waiting task, and no other task changes, not even one that    *)
(* had the id before.                                                        *)
LEMMA PushPromise ==
  ASSUME IInv, IInv', Disk, Safe, NEW p \in Priorities, Push(p)
  PROVE  Promise!Next
<1>1. PICK id, f : id = next_id /\ f = CreatedFrame(next_id, p, Len(pushed) + 1)
  OBVIOUS
<1>2. /\ f \in Frame /\ Tips(log)' = Told(Tips(log), f)
      /\ mode = "up" /\ pushed' = Append(pushed, id)
  BY <1>1, PushMoves
<1>3. /\ f.id = id /\ f.op = "Created" /\ f.op \notin Terminal /\ f.retries = 0
  BY <1>1 DEF CreatedFrame, Terminal
<1>4. id \in Nat /\ pushed \in Seq(Nat) /\ pushed' \in Seq(Nat) /\ \A v \in Tips(log) : v.id # id
  <2>1. \A v \in Tips(log) : v.id < id /\ v.id \in Nat
    <3>1. log \subseteq Entry
      BY Zenon DEF IInv, Layout, IsLog
    <3>2. \A v \in Tips(log) : v.id \in Nat
      BY SMTT(30), <3>1, TipsFrame DEF Frame
    <3>3. \A v \in Tips(log) : v.id < id
      BY Zenon, <1>1, <1>2 DEF Safe, Placed, Replayed
    <3> QED
      BY Zenon, <3>2, <3>3
  <2> QED
    BY <2>1, <1>1 DEF IInv, IndexOK, TasksOK
<1>5. PICK k : k = Len(pushed)
  OBVIOUS
<1>6. /\ k \in Nat /\ DOMAIN pushed = 1..k /\ DOMAIN pushed' = 1..(k + 1)
      /\ \A n \in 1..k : pushed'[n] = pushed[n]
      /\ pushed'[k + 1] = id
  BY SMTT(30), <1>2, <1>4, <1>5, AppendElements
<1>7. /\ Strip(f) \in Tips(log)' /\ Strip(f).id = id /\ Strip(f).op = "Created" /\ Strip(f).retries = 0
      /\ \A w \in Tips(log) : w \in Tips(log)'
      /\ \A w \in Tips(log)' : w = Strip(f) \/ w \in Tips(log)
  BY <1>2, <1>3, <1>4, StripOK DEF Told
<1>8. ASSUME NEW j, \E n \in DOMAIN pushed' : pushed'[n] = j
      PROVE  /\ PushOf(j)' \in DOMAIN pushed' /\ pushed'[PushOf(j)'] = j
             /\ \A m \in DOMAIN pushed' : pushed'[m] = j => m <= PushOf(j)'
  <2>1. \E n \in DOMAIN pushed' : pushed'[n] = j /\ \A m \in DOMAIN pushed' : pushed'[m] = j => m <= n
    BY <1>4, <1>8, LatestPush
  <2> QED
    BY <2>1 DEF PushOf
<1>9. PushOf(id)' = k + 1
  BY <1>6, <1>8
<1>10. TaskOf(k + 1)' = Promise!Task("waiting", 0)
  <2>1. PICK n : n = k + 1
    OBVIOUS
  <2>2. IsTask(TaskOf(n)', Tips(log)', id, PushOf(id)' = n)
    <3>1. pushed'[n] = id
      BY <2>1, <1>6
    <3>2. IsTask(TaskOf(n)', Tips(log)', pushed'[n], PushOf(pushed[n])' = n)
      BY TaskNext
    <3>3. PushOf(pushed[n])' = PushOf(id)'
      BY <3>1 DEF PushOf
    <3> QED
      BY <3>1, <3>2, <3>3
  <2>3. TaskOf(n)' = StateOf(Strip(f))
    BY <2>1, <2>2, <1>7, <1>9 DEF IsTask, Terminal
  <2>4. TaskOf(n)' = Promise!Task("waiting", 0)
    BY <2>3, <1>7 DEF StateOf, Promise!Task
  <2> QED
    BY <2>1, <2>4
<1>11. ASSUME NEW n \in 1..k PROVE TaskOf(n)' = TaskOf(n)
  <2>1. /\ IsTask(TaskOf(n), Tips(log), pushed[n], PushOf(pushed[n]) = n)
        /\ IsTask(TaskOf(n)', Tips(log)', pushed'[n], PushOf(pushed[n])' = n)
    BY TaskNow, TaskNext
  <2>2. pushed'[n] = pushed[n]
    BY <1>6
  <2>3. PICK j : j = pushed[n]
    OBVIOUS
  <2>4. PushOf(pushed[n])' = PushOf(j)'
    BY <2>2, <2>3 DEF PushOf
  <2>5. CASE j = id
    <3>1. PushOf(pushed[n])' # n
      BY <2>4, <2>5, <1>6, <1>9
    <3>2. TaskOf(n)' = Done
      BY <2>1, <3>1 DEF IsTask
    <3>3. TaskOf(n) = Done
      BY <2>1, <2>3, <2>5, <1>4 DEF IsTask
    <3> QED
      BY <3>2, <3>3
  <2>6. CASE j # id
    <3>1. /\ PushOf(j) \in DOMAIN pushed /\ pushed[PushOf(j)] = j
          /\ \A m \in DOMAIN pushed : pushed[m] = j => m <= PushOf(j)
      BY <2>3, <1>6, PushOfOK DEF IInv, Known
    <3>2. /\ PushOf(j)' \in DOMAIN pushed' /\ pushed'[PushOf(j)'] = j
          /\ \A m \in DOMAIN pushed' : pushed'[m] = j => m <= PushOf(j)'
      BY SMTT(30), <2>2, <2>3, <1>6, <1>8
    <3>3. PushOf(j)' = PushOf(j)
      <4>1. PushOf(j)' \in 1..k /\ pushed[PushOf(j)'] = j
        BY <3>2, <2>6, <1>6
      <4>2. PushOf(j)' <= PushOf(j) /\ PushOf(j) <= PushOf(j)'
        BY <4>1, <3>1, <3>2, <1>6
      <4> QED
        BY <4>1, <4>2, <3>1, <1>6
    <3>4. IsTask(TaskOf(n)', Tips(log)', j, PushOf(j) = n)
      BY <2>1, <2>2, <2>3, <2>4, <3>3
    <3> QED
      BY <2>1, <2>3, <2>6, <3>4, <1>7 DEF IsTask
  <2> QED
    BY <2>5, <2>6
<1>12. [n \in DOMAIN pushed |-> TaskOf(n)]' = Append([n \in DOMAIN pushed |-> TaskOf(n)], Promise!Task("waiting", 0))
  <2>1. PICK s : s = [n \in DOMAIN pushed |-> TaskOf(n)]
    OBVIOUS
  <2>2. PICK t : t = [n \in DOMAIN pushed |-> TaskOf(n)]'
    OBVIOUS
  <2>3. PICK x : x = Promise!Task("waiting", 0)
    OBVIOUS
  <2>4. PICK S : S = {s[n] : n \in 1..k} \cup {x}
    OBVIOUS
  <2>5. s \in Seq(S) /\ Len(s) = k /\ x \in S
    BY <2>1, <2>4, <1>6
  <2>6. t[k + 1] = x /\ \A n \in 1..k : t[n] = s[n]
    BY SMTT(30), <2>1, <2>2, <2>3, <1>6, <1>10, <1>11
  <2>7. t \in [1..(k + 1) -> S]
    <3>1. \A n \in 1..(k + 1) : t[n] \in S
      BY SMTT(30), <2>4, <2>6, <1>6
    <3> QED
      BY <3>1, <2>2, <1>6
  <2>8. t = Append(s, x)
    BY <2>5, <2>6, <2>7, AppendIs
  <2> QED
    BY <2>1, <2>2, <2>3, <2>8
<1> QED
  BY <1>12 DEF Promise!Next

(* ack finishes a leased task.                                               *)
LEMMA AckPromise ==
  ASSUME IInv, IInv', Disk, Safe, Agreed, NEW c \in Consumers, NEW id \in DOMAIN leased, Ack(c, id)
  PROVE  Promise!Next
<1>1. PICK f : f = AckedFrame(id, leased[id].priority)
  OBVIOUS
<1>2. f \in Frame /\ Tips(log)' = Told(Tips(log), f) /\ mode = "up" /\ pushed' = pushed
  BY <1>1, AckMoves
<1>3. f.id = id /\ f.op \in Terminal /\ id \in Known
  BY <1>1 DEF AckedFrame, Terminal, IInv, TasksOK, LeasesOK
<1>4. PICK v \in Tips(log) : v.id = id /\ v.op = "Leased" /\ v.op \notin Terminal
  BY <1>2 DEF Agreed, Agree, Replayed, LeaseSaid, Terminal
<1>5. PICK k : k = PushOf(id)
  OBVIOUS
<1>6. /\ k \in DOMAIN pushed /\ \A n \in DOMAIN pushed : n # k => TaskOf(n)' = TaskOf(n)
      /\ TaskOf(k) = StateOf(v) /\ TaskOf(k)' = Done
  BY <1>2, <1>3, <1>4, <1>5, AppendTasks
<1>7. Promise!Finish(TaskOf(k), TaskOf(k)')
  BY <1>4, <1>6 DEF Promise!Finish, Promise!Task, StateOf, Done
<1> QED
  BY <1>2, <1>6, <1>7, TaskSteps

(* nack and expiry give a leased task back, or finish it when its retries    *)
(* are used up.                                                              *)
LEMMA FailurePromise ==
  ASSUME IInv, IInv', Disk, Safe, Agreed, NEW id \in DOMAIN leased, NEW op,
         FailureCall(id, leased[id].priority, leased[id].retries, op), pushed' = pushed
  PROVE  Promise!Next
<1>1. PICK p, r : p = leased[id].priority /\ r = leased[id].retries
  OBVIOUS
<1>2. PICK f : f = FailureFrame(id, p, r, op)
  OBVIOUS
<1>3. f \in Frame /\ Tips(log)' = Told(Tips(log), f)
  BY <1>1, <1>2, FailureMoves
<1>4. mode = "up" /\ op \in {"Nacked", "Expired"} /\ r \in Nat
  BY <1>1 DEF FailureCall
<1>5. /\ f.id = id /\ f.retries = r + 1 /\ f.op # "Leased" /\ (f.op \in Terminal <=> Exhausted(r))
  BY <1>2, <1>4 DEF FailureFrame, FailedFrame, Terminal
<1>6. id \in Known
  BY DEF IInv, TasksOK, LeasesOK
<1>7. PICK v \in Tips(log) : v.id = id /\ v.op = "Leased" /\ v.op \notin Terminal /\ v.retries = r
  BY SMTT(30), <1>1, <1>4 DEF Agreed, Agree, Replayed, LeaseSaid, LeaseOf, Terminal
<1>8. PICK k : k = PushOf(id)
  OBVIOUS
<1>9. /\ k \in DOMAIN pushed /\ \A n \in DOMAIN pushed : n # k => TaskOf(n)' = TaskOf(n)
      /\ TaskOf(k) = StateOf(v) /\ TaskOf(k)' = IF f.op \in Terminal THEN Done ELSE StateOf(f)
  BY <1>3, <1>5, <1>6, <1>7, <1>8, AppendTasks
<1>10. CASE Exhausted(r)
  <2>1. Promise!Finish(TaskOf(k), TaskOf(k)')
    BY <1>5, <1>7, <1>9, <1>10 DEF Promise!Finish, Promise!Task, StateOf, Done
  <2> QED
    BY <2>1, <1>9, TaskSteps
<1>11. CASE ~Exhausted(r)
  <2>1. r + 1 < MAX_RETRIES
    BY <1>4, <1>11, Bounds DEF Exhausted
  <2>2. Promise!GiveBack(TaskOf(k), TaskOf(k)')
    BY <2>1, <1>5, <1>7, <1>9, <1>11 DEF Promise!GiveBack, Promise!Task, StateOf
  <2> QED
    BY <2>2, <1>9, TaskSteps
<1> QED
  BY <1>10, <1>11

\* A lease that ran out while the process was down is leased again: for the
\* abstract queue it was leased all the time.
LEMMA PopPromise ==
  ASSUME IInv, IInv', Disk, Safe, Agreed, NEW c \in Consumers, NEW ttl \in TTLs, PopAndLease(c, ttl)
  PROVE  Promise!Next \/ Tasks' = Tasks
<1>1. PICK t : t = QueueFront(ready_queue)
  OBVIOUS
<1>2. PICK f : f = LeasedFrame(t, c, now + ttl)
  OBVIOUS
<1>3. /\ f \in Frame /\ Tips(log)' = Told(Tips(log), f) /\ mode = "up"
      /\ t \in Queued(ready_queue) /\ pushed' = pushed
  BY <1>1, <1>2, PopMoves
<1>4. f.id = t.id /\ f.op = "Leased" /\ f.op \notin Terminal /\ f.retries = t.retries
  BY <1>2 DEF LeasedFrame, Terminal
<1>5. t.id \in Known
  BY <1>3 DEF IInv, TasksOK, QueueOK, TaskOK
<1>6. PICK v \in Tips(log) : v.id = t.id /\ v.op \notin Terminal /\ v.retries = t.retries
  BY <1>3 DEF Agreed, Agree, Replayed, Said
<1>7. PICK k : k = PushOf(t.id)
  OBVIOUS
<1>8. /\ k \in DOMAIN pushed /\ \A n \in DOMAIN pushed : n # k => TaskOf(n)' = TaskOf(n)
      /\ TaskOf(k) = StateOf(v) /\ TaskOf(k)' = StateOf(f)
  BY <1>3, <1>4, <1>5, <1>6, <1>7, AppendTasks
<1>9. CASE v.op = "Leased"
  <2>1. StateOf(f) = StateOf(v)
    BY <1>4, <1>6, <1>9 DEF StateOf
  <2>2. \A n \in DOMAIN pushed : TaskOf(n)' = TaskOf(n)
    BY <1>8, <2>1
  <2> QED
    BY <2>2, <1>3 DEF Tasks
<1>10. CASE v.op # "Leased"
  <2>1. Promise!Lease(TaskOf(k), TaskOf(k)')
    BY <1>4, <1>6, <1>8, <1>10 DEF Promise!Lease, Promise!Task, StateOf
  <2> QED
    BY <2>1, <1>3, <1>8, TaskSteps
<1> QED
  BY <1>9, <1>10

\* Everything else changes no task.
LEMMA OtherPromise ==
  ASSUME IInv, IInv', Disk, Reader \/ ClearPayloadCache \/ Tick \/ ExpireScan \/ Compaction \/ Open \/ Crash
  PROVE  Tasks' = Tasks
<1>1. CASE Reader \/ ClearPayloadCache \/ Tick \/ ExpireScan
  BY <1>1, QuietMoves, QuietTasks, ForgetsNothing
<1>2. CASE Compaction
  <2>1. Forgets(Tips(log), Tips(log)')
    BY <1>2, CompactionDisk DEF IInv, RestOK, SideFiles
  <2> QED
    BY <1>2, <2>1, CompactionMoves, QuietTasks
<1>3. CASE Open
  <2>1. Forgets(Tips(log), Tips(log)')
    BY <1>3, OpenDisk DEF IInv, RestOK, SideFiles
  <2>2. CASE RecoverIndex \/ RecoverDone
    <3>1. pushed' = pushed
      BY <2>2 DEF RecoverIndex, RecoverDone, Recovering, history
    <3> QED
      BY <2>1, <3>1, QuietTasks
  <2>3. pushed' = pushed
    BY <1>3, <2>2, OpenFilesMoves, ReplayMoves DEF Open, OpenFiles, RecoverIndex, RecoverDone, Recovering, history
  <2> QED
    BY <2>1, <2>3, QuietTasks
<1>4. CASE Crash
  <2>1. log' = log /\ pushed' = pushed
    BY <1>4 DEF Crash
  <2> QED
    BY <2>1, QuietTasks, ForgetsNothing
<1> QED
  BY <1>1, <1>2, <1>3, <1>4

(* One step of the engine is a step of the abstract queue, or changes none   *)
(* of its tasks.                                                             *)
LEMMA PromiseStep ==
  ASSUME IInv, IInv', Disk, Safe, Agreed, SnapshotFresh, [Next]_vars
  PROVE  Promise!Next \/ Tasks' = Tasks
<1>1. CASE Client \/ Expiration
  <2>1. ASSUME NEW c \in Consumers, NEW id \in DOMAIN leased, Nack(c, id) PROVE Promise!Next
    <3>1. FailureCall(id, leased[id].priority, leased[id].retries, "Nacked") /\ pushed' = pushed
      BY <2>1, NackCall DEF Nack
    <3> QED
      BY <3>1, FailurePromise
  <2>2. ASSUME NEW t \in expired_tasks, ExpireApply(t) PROVE Promise!Next
    <3>1. FailureCall(t.id, t.priority, t.retries, "Expired") /\ pushed' = pushed
      BY <2>2, ExpireCall DEF ExpireApply
    <3>2. t.id \in DOMAIN leased /\ t.priority = leased[t.id].priority /\ t.retries = leased[t.id].retries
      BY DEF SnapshotFresh
    <3> QED
      BY <3>1, <3>2, FailurePromise
  <2>3. ASSUME PushFails \/ PopFails \/ AckOrNackFails \/ \E t \in expired_tasks : ExpireFails(t)
        PROVE  Tasks' = Tasks
    <3>1. log' = log /\ pushed' = pushed
      BY <2>3, FailedCallMoves
    <3> QED
      BY <3>1, QuietTasks, ForgetsNothing
  <2> QED
    BY <1>1, <2>1, <2>2, <2>3, PushPromise, PopPromise, AckPromise, OtherPromise
       DEF Client, Expiration
<1>2. CASE Reader \/ Compaction \/ Open \/ Crash \/ Tick
  BY <1>2, OtherPromise
<1>3. CASE UNCHANGED vars
  <2>1. log' = log /\ pushed' = pushed
    BY <1>3 DEF vars
  <2> QED
    BY <2>1, QuietTasks, ForgetsNothing
<1> QED
  BY <1>1, <1>2, <1>3 DEF Next

(* ImplementsTaskQueue: through the refinement mapping of Engine, which reads *)
(* the state of a task off its latest record, every step of the engine is a  *)
(* step of the abstract TaskQueue or changes no task.  In particular a kill, a *)
(* restart and a compaction, step by step, are invisible in it.              *)
THEOREM LogImplementsTaskQueue == Spec /\ OpenUndisturbed /\ []SnapshotFresh => ImplementsTaskQueue
<1>1. Init => Promise!Init
  BY SMTT(30) DEF Init, Promise!Init
<1>2. /\ IInv /\ Disk /\ Safe /\ Agreed /\ SnapshotFresh /\ IInv' /\ [Next]_vars
      => [Promise!Next]_[n \in DOMAIN pushed |-> TaskOf(n)]
  BY PromiseStep DEF Tasks
<1> QED
  BY <1>1, <1>2, SafeInvariant, AgreedInvariant, PTL DEF Spec, ImplementsTaskQueue, Promise!Spec

=============================================================================
