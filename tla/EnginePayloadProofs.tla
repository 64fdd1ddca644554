------------------------ MODULE EnginePayloadProofs -------------------------
(***************************************************************************)
(* What a pop returns, in runs without compaction: the payload that was    *)
(* pushed with the id, which is always found, and the tasks of a priority  *)
(* in the order of the log.                                                *)
(***************************************************************************)
EXTENDS EngineTaskProofs

\* Every leaf is tried with Zenon first and, if that fails, with the SMT solver.
USE ZenonT(10), SMTT(30)

\* Facts of the extended modules that no proof below needs.
HIDE DEF NatInduction, DownwardNatInduction, GeneralNatInduction,
         SmallestNatural, RecursiveFcnOfNat, NatInductiveDef,
         RecursiveFcnOfNatType, NatInductiveDefType, RecursiveFcnOfNatUnique,
         NatInductiveUnique, FiniteNatInductiveDef,
         FiniteNatInductiveDefType, FiniteNatInductiveUnique,
         EmptyIsWellFounded, IsWellFoundedOnSubset,
         IsWellFoundedOnSubrelation, WFMin, MinWF, WellFoundedIsIrreflexive,
         WellFoundedIsAsymmetric, WFSetLessThanIrreflexive,
         SetLessTransitive, WFInduction, WFDefOnUnique, WFInductiveDefLemma,
         TransitiveClosureThm, TransitiveClosureMinimal, TCTCTC, TCRTC,
         RTCTC, TransitiveClosureChopLast, TransitiveClosureWF,
         WFInductiveDef, WFInductiveDefType, NatLessThanWellFounded,
         PreImageWellFounded, WFLexPairOrdering, WFLexProductOrdering,
         FS_NatSurjection, FS_NatBijection, FS_CountingElements,
         FS_SurjCardinalityBound, FS_CardinalityType, FS_Bijection,
         FS_SameCardinalityBij, FS_SurjSameCardinalityImpliesInj,
         FS_Surjection, FS_Image, FS_Injection, FS_PigeonHole, FS_EmptySet,
         FS_AddElement, FS_RemoveElement, FS_Singleton, FS_Interval,
         FS_BoundedSetOfNaturals, FS_Induction, FS_FiniteSubsetsOfFinite,
         FS_StrictSubsetOrderingWellFounded, FS_WFInduction, FS_Union,
         FS_MajoritiesIntersect, FS_Intersection, FS_Difference, FS_UNION,
         FS_Product, FS_SUBSET, SetExtensionality, NoSetContainsEverything,
         NatMin, BitMax, WordAndBit, WordBitUnique, EmptyQueueOK, PushOK,
         TopOK, PopOK, AppendElements, AppendIs, TailElements, PushBuckets,
         PopBuckets, CountedEmpty, CountedPush, CacheType, MaximalExists,
         LastOK, ImageFinite, SegmentCount, IdsFinite, SurvivorsOK,
         OffsetsOK, CompactedOK, SubsetUnique, WithoutSegment, CutSegment,
         ReplaceSegment, LargestExists, EarliestExists, StripOK, TipsFrame,
         TipUnique, TipIsLast, CompactedTips, LocBySegment, TipsRename,
         TipsUnlink, Bounds, AppendLayout, AppendFailsLayout,
         LayoutUnchanged, UnlinkLayout, CompactionLayout, CrashLayout,
         LastSegmentOK, ScanLayout, OpenLayout, CreatedFrameType,
         AckedFrameType, FailedFrameType, LeasedFrameType, QueueOKEmpty,
         QueueOKPush, QueueOKPop, LeasesOKEmpty, LeasesOKPut, LeasesOKDrop,
         IndexPut, IndexDrop, KnownNat, LatestPush, PushOfOK, TasksUnchanged,
         TasksAppend, FailureOK, PushStep, AckStep, NackStep, PopStep,
         FailedCallStep, RestStep, ReaderStep, ClearOrTickStep,
         ExpirationStep, CompactionStep, CrashStep, OpenStep, LocationsOK,
         RecoverIndexStep, NextEntryOK, ReplayStep, InitIInv, NextIInv,
         Inductive, TypeCorrect, RetriesAreBounded, NoFrameOverwritten,
         ForgetsNothing, QuietDisk, AppendDisk, AppendFailsDisk, UnlinkTips,
         CompactionDisk, CrashDisk, QuietKept, QuietPlaced, AppendKept,
         AppendPlaced, PushSafe, AckSafe, FailureSafe, PopSafe, NackSafe,
         ExpireSafe, FailedCallSafe, QuietSafe, CompactionMoves,
         CompactionSafe, CrashSafe, OpenFilesSafe, IdAfterAbove, RecoverSafe,
         ReplayPlaced, ReplaySafe, InitSafe, NextSafe, SafeInvariant,
         NoTaskIsLost, IdsReusedWhenFinished, PlainStep, NextIdNew,
         RecordedStep, IdsKept, RisingStep, IdsNeverReused, QuietAgree,
         QuietFinal, AppendAgree, AppendFinal, PushAgree, AckAgree,
         FailureAgree, NackAgree, ExpireAgree, PopAgree, FailedCallAgree,
         QuietAgreed, CompactionAgree, CrashAgree, OpenFilesAgree,
         RecoverAgree, ReplayAgree, ReplayAgreed, InitAgreed, NextAgreed,
         TaskHasOnePlace, RestartChangesNothing, FinishedStaysFinished,
         RecordsAndTips, TaskNow, TaskNext, TaskNowNext, QuietTasks,
         AppendTasks, TaskSteps, PushPromise, AckPromise, FailurePromise,
         PopPromise, OtherPromise, PromiseStep, LogImplementsTaskQueue

-----------------------------------------------------------------------------
(* Everything that leads to a payload leads to the right one.              *)

\* Records stay where they are, and pushes what they were.
LEMMA RecordsStay ==
  ASSUME IInv, IInv', Disk, Safe, Plain, [Next]_vars
  PROVE  /\ \A id, l : CreatedAt(id, l) => CreatedAt(id, l)'
         /\ \A id, n : PayloadOf(id, n) => PayloadOf(id, n)'
<1>1. log \subseteq log' /\ \A n \in DOMAIN pushed : n \in DOMAIN pushed' /\ pushed'[n] = pushed[n]
  <2>1. ASSUME NEW p \in Priorities, Push(p)
        PROVE  log \subseteq log' /\ \A n \in DOMAIN pushed : n \in DOMAIN pushed' /\ pushed'[n] = pushed[n]
    <3>1. PICK n, x : /\ n \in Nat /\ n >= 1 /\ log' = log \cup {x}
                      /\ DOMAIN pushed = 1..(n - 1) /\ DOMAIN pushed' = 1..n
                      /\ \A m \in DOMAIN pushed : pushed'[m] = pushed[m]
      BY <2>1, PushWrites
    <3>2. 1..(n - 1) \subseteq 1..n
      BY <3>1
    <3> QED
      BY <3>1, <3>2
  <2> QED
    BY <2>1, LogGrows
<1> QED
  BY <1>1 DEF CreatedAt, PayloadOf

\* data_index leads to the Created records, and has one of each task that is still
\* to be replayed; the cache has the payload of the push with that id; a pop under
\* way reads at the right place, and returns the right payload.
DataFound == /\ Replayed => \A id \in DOMAIN data_index : CreatedAt(id, data_index[id])
             /\ mode = "replay" => entries \subseteq DOMAIN data_index

CacheRight == \A id \in DOMAIN payload_cache.entries : PayloadOf(id, payload_cache.entries[id])

PopRight(p) == /\ p.pc = "reading" => CreatedAt(p.id, p.loc)
               /\ p.pc = "ok" => PayloadOf(p.id, p.data)

PopsRight == \A c \in Consumers : PopRight(pops[c])

\* What a step does to data_index, outside recover().
DataMoves(ix) == \A id \in DOMAIN ix : id \in DOMAIN data_index /\ ix[id] = data_index[id]

\* It loses an entry or none.
LEMMA DropMoves ==
  ASSUME NEW id
  PROVE  DataMoves(Drop(data_index, id)) /\ DataMoves(data_index)
  BY DEF DataMoves, Drop

\* Then it still leads to Created records, which stay where they are.
LEMMA DataKept ==
  ASSUME DataFound, DataMoves(data_index'), Replayed' => Replayed,
         \A id, l : CreatedAt(id, l) => CreatedAt(id, l)',
         mode' = "replay" => entries' \subseteq DOMAIN data_index'
  PROVE  DataFound'
<1> SUFFICES ASSUME Replayed', NEW id, NEW l, id \in DOMAIN data_index', l = data_index'[id]
             PROVE  CreatedAt(id, l)'
  BY SMTT(30) DEF DataFound, CreatedAt
<1>1. id \in DOMAIN data_index /\ l = data_index[id] /\ CreatedAt(id, l)
  BY DEF DataMoves, DataFound
<1> QED
  BY <1>1

\* A cache that loses entries stays right.
LEMMA CacheKept ==
  ASSUME CacheRight, \A id, n : PayloadOf(id, n) => PayloadOf(id, n)',
         \A id \in DOMAIN payload_cache'.entries :
           /\ id \in DOMAIN payload_cache.entries
           /\ payload_cache'.entries[id] = payload_cache.entries[id]
  PROVE  CacheRight'
<1> SUFFICES ASSUME NEW id, NEW n, id \in DOMAIN payload_cache'.entries, n = payload_cache'.entries[id]
             PROVE  PayloadOf(id, n)'
  BY DEF CacheRight, PayloadOf
<1> QED
  BY DEF CacheRight

\* So do the pops, if those that take a step do so rightly.
LEMMA PopsKept ==
  ASSUME PopsRight, \A id, l : CreatedAt(id, l) => CreatedAt(id, l)',
         \A id, n : PayloadOf(id, n) => PayloadOf(id, n)',
         \A c \in Consumers : pops'[c] = pops[c] \/ \E p : p = pops'[c] /\ PopRight(p)'
  PROVE  PopsRight'
<1> SUFFICES ASSUME NEW c \in Consumers, NEW p, p = pops'[c] PROVE PopRight(p)'
  BY SMTT(30) DEF PopsRight, PopRight, CreatedAt, PayloadOf
<1>1. CASE pops'[c] = pops[c]
  <2>1. PopRight(p)
    BY <1>1 DEF PopsRight
  <2> QED
    BY <2>1 DEF PopRight
<1> QED
  BY <1>1

-----------------------------------------------------------------------------
(* The calls, the reads outside the lock, and a kill.                      *)

\* What a step without compaction keeps.
Stays == /\ \A id, l : CreatedAt(id, l) => CreatedAt(id, l)'
         /\ \A id, n : PayloadOf(id, n) => PayloadOf(id, n)'

\* All that leads to a payload leads to the right one.
Rights == DataFound /\ CacheRight /\ PopsRight

\* A step that hands out no payload and finds no record.
LEMMA QuietRights ==
  ASSUME IsCache(payload_cache), Rights, Stays, DataMoves(data_index'),
         \/ payload_cache' \in {payload_cache, EmptyCache}
         \/ \E id : payload_cache' = CacheRemove(payload_cache, id),
         pops' = pops, UNCHANGED <<mode, entries>>, mode = "replay" => data_index' = data_index
  PROVE  Rights'
<1>1. DataFound'
  <2>1. Replayed' => Replayed
    BY DEF Replayed
  <2>2. mode' = "replay" => entries' \subseteq DOMAIN data_index'
    BY DEF Rights, DataFound
  <2> QED
    BY <2>1, <2>2, DataKept DEF Rights, Stays
<1>2. CacheRight'
  <2>1. \A id \in DOMAIN payload_cache'.entries :
           /\ id \in DOMAIN payload_cache.entries
           /\ payload_cache'.entries[id] = payload_cache.entries[id]
    <3>1. ASSUME NEW k, payload_cache' = CacheRemove(payload_cache, k)
          PROVE  payload_cache'.entries = Drop(payload_cache.entries, k)
      BY <3>1 DEF CacheRemove, IsCache
    <3>2. payload_cache' = EmptyCache => DOMAIN payload_cache'.entries = {}
      BY DEF EmptyCache, EmptyMap
    <3>3. \A k : \A id \in DOMAIN Drop(payload_cache.entries, k) :
            /\ id \in DOMAIN payload_cache.entries
            /\ Drop(payload_cache.entries, k)[id] = payload_cache.entries[id]
      BY DEF Drop
    <3> QED
      BY <3>1, <3>2, <3>3
  <2> QED
    BY <2>1, CacheKept DEF Rights, Stays
<1>3. PopsRight'
  BY PopsKept DEF Rights, Stays
<1> QED
  BY <1>1, <1>2, <1>3 DEF Rights

(* push puts the new record into data_index and its payload into the cache.  *)
(* (engine.rs:165-188)                                                       *)
LEMMA PushRights ==
  ASSUME IInv, Disk, Safe, Rights, Stays, NEW p \in Priorities, Push(p)
  PROVE  Rights'
<1>1. PICK n, x : /\ n = Len(pushed) + 1 /\ n \in Nat /\ n >= 1 /\ log' = log \cup {x} /\ x.frame.op = "Created"
                  /\ x.frame.id = next_id /\ Loc(x) = NextLoc
                  /\ DOMAIN pushed' = 1..n /\ pushed'[n] = next_id
  BY PushWrites
<1>2. PICK id, l : id = next_id /\ l = NextLoc
  OBVIOUS
<1>3. /\ mode = "up" /\ mode' = mode /\ data_index' = Put(data_index, id, l) /\ pops' = pops
      /\ payload_cache' = CacheInsert(payload_cache, id, n)
  BY <1>1, <1>2 DEF Push, CanLock, process, threads
<1>4. CreatedAt(id, l)' /\ PayloadOf(id, n)'
  <2>1. n \in 1..n
    BY <1>1
  <2> QED
    BY <1>1, <1>2, <2>1 DEF CreatedAt, PayloadOf
<1>5. DataFound'
  <2> SUFFICES ASSUME NEW j, NEW k, j \in DOMAIN data_index', k = data_index'[j] PROVE CreatedAt(j, k)'
    BY <1>3 DEF DataFound, CreatedAt
  <2>1. (j = id /\ k = l) \/ (j \in DOMAIN data_index /\ k = data_index[j])
    <3>1. j \in DOMAIN Put(data_index, id, l) /\ k = Put(data_index, id, l)[j]
      BY <1>3
    <3> QED
      BY SMTT(30), <3>1, PutHolds
  <2> QED
    BY <1>3, <1>4, <2>1 DEF Rights, DataFound, Stays, Replayed
<1>6. CacheRight'
  <2> SUFFICES ASSUME NEW j, NEW k, j \in DOMAIN payload_cache'.entries, k = payload_cache'.entries[j]
               PROVE  PayloadOf(j, k)'
    BY DEF CacheRight, PayloadOf
  <2>1. IsCache(payload_cache) /\ id \in Nat
    BY <1>2 DEF IInv, RestOK, IndexOK
  <2>2. (j = id /\ k = n) \/ (j \in DOMAIN payload_cache.entries /\ k = payload_cache.entries[j])
    <3>1. /\ j \in DOMAIN CacheInsert(payload_cache, id, n).entries
          /\ k = CacheInsert(payload_cache, id, n).entries[j]
      BY <1>3
    <3> QED
      BY SMTT(30), <3>1, <1>1, <2>1, CacheInsertHolds
  <2> QED
    BY <1>4, <2>2 DEF Rights, CacheRight, Stays
<1>7. PopsRight'
  BY <1>3, PopsKept DEF Rights, Stays
<1> QED
  BY <1>5, <1>6, <1>7 DEF Rights

\* A step of one pop.
LEMMA OnePopRights ==
  ASSUME IInv, Rights, Stays, NEW c \in Consumers, NEW p, pops' = [pops EXCEPT ![c] = p], PopRight(p),
         UNCHANGED <<mode, entries, data_index, payload_cache>>
  PROVE  Rights'
<1>1. PopRight(p)'
  BY DEF PopRight, Stays
<1>2. pops \in [Consumers -> Pop]
  BY DEF IInv, RestOK
<1>3. \A d \in Consumers : pops'[d] = pops[d] \/ \E u : u = pops'[d] /\ PopRight(u)'
  BY <1>1, <1>2
<1>4. PopsRight'
  BY <1>3, PopsKept DEF Rights, Stays
<1>5. DataFound'
  <2>1. Replayed' => Replayed
    BY DEF Replayed
  <2>2. DataMoves(data_index')
    BY DEF DataMoves
  <2>3. mode' = "replay" => entries' \subseteq DOMAIN data_index'
    BY DEF Rights, DataFound
  <2> QED
    BY <2>1, <2>2, <2>3, DataKept DEF Rights, Stays
<1>6. CacheRight'
  BY CacheKept DEF Rights, Stays
<1> QED
  BY <1>4, <1>5, <1>6 DEF Rights

(* pop_and_lease takes the payload from the cache, or the place to read from *)
(* out of data_index.  (engine.rs:190-309)                                   *)
LEMMA PopRights ==
  ASSUME IInv, Rights, Stays, NEW c \in Consumers, NEW ttl \in TTLs, PopAndLease(c, ttl)
  PROVE  Rights'
<1>1. PICK t : t = QueueFront(ready_queue)
  OBVIOUS
<1> DEFINE known == t.id \in DOMAIN data_index
           hit == t.id \in DOMAIN payload_cache.entries
           q == [pc    |-> IF ~known THEN "err" ELSE IF hit THEN "ok" ELSE "reading",
                 id    |-> t.id,
                 loc   |-> IF known /\ ~hit THEN data_index[t.id] ELSE <<0, 0>>,
                 tries |-> 0,
                 data  |-> IF known /\ hit THEN payload_cache.entries[t.id] ELSE NoData]
<1>2. /\ mode = "up" /\ UNCHANGED <<mode, entries, data_index, payload_cache>>
      /\ pops' = [pops EXCEPT ![c] = q]
  BY <1>1 DEF PopAndLease, CanLock, process
<1>3. PICK p : p = q
  OBVIOUS
<1>4. PopRight(p)
  <2>1. p.pc = "reading" => p.id \in DOMAIN data_index /\ p.loc = data_index[p.id]
    BY <1>3
  <2>2. p.pc = "ok" => p.id \in DOMAIN payload_cache.entries /\ p.data = payload_cache.entries[p.id]
    BY <1>3
  <2> QED
    BY <1>2, <2>1, <2>2 DEF PopRight, Rights, DataFound, CacheRight, Replayed
<1>5. pops' = [pops EXCEPT ![c] = p]
  BY <1>2, <1>3
<1> HIDE DEF q
<1> QED
  BY <1>2, <1>4, <1>5, OnePopRights

\* The read finds the Created record, which has the payload of the push.
LEMMA FramePayload ==
  ASSUME IInv, Recorded, NEW id, NEW l, CreatedAt(id, l), NEW e \in log, Loc(e) = l
  PROVE  PayloadOf(id, UserPayload(e.frame))
<1>1. PICK d \in log : Loc(d) = l /\ d.frame.op = "Created" /\ d.frame.id = id
  BY DEF CreatedAt
<1>2. d = e
  BY <1>1 DEF IInv, Layout, IsLog, Unique
<1>3. UserPayload(e.frame) = e.frame.data
  BY <1>1, <1>2 DEF UserPayload
<1> QED
  BY <1>1, <1>2, <1>3 DEF Recorded, PayloadOf

(* The reads outside the lock: the record is where it was when the lock was  *)
(* released.                                                                 *)
LEMMA ReaderRights ==
  ASSUME IInv, Plain, Recorded, Rights, Stays, Reader
  PROVE  Rights'
<1>1. pops \in [Consumers -> Pop]
  BY DEF IInv, RestOK
<1>2. ASSUME NEW c \in Consumers, NEW pc \in {"ok", "err"}, NEW data, Answer(c, pc, data),
             pc = "ok" => PayloadOf(pops[c].id, data)
      PROVE  Rights'
  <2>1. PICK p : p = [pc |-> pc, id |-> pops[c].id, loc |-> <<0, 0>>, tries |-> 0, data |-> data]
    OBVIOUS
  <2>2. /\ pops' = [pops EXCEPT ![c] = p] /\ UNCHANGED <<mode, entries, data_index, payload_cache>>
    BY <1>1, <1>2, <2>1 DEF Answer, memVars, process
  <2>3. PopRight(p)
    BY <1>2, <2>1 DEF PopRight
  <2> QED
    BY <2>2, <2>3, OnePopRights
<1>3. ASSUME NEW c \in Consumers, ReadFrame(c) PROVE Rights'
  <2>1. PICK e \in log \cup unlinked : Loc(e) = pops[c].loc /\ Answer(c, "ok", UserPayload(e.frame))
    BY <1>3 DEF ReadFrame
  <2>2. PICK id, l : id = pops[c].id /\ l = pops[c].loc
    OBVIOUS
  <2>3. e \in log /\ CreatedAt(id, l) /\ Loc(e) = l
    BY <1>3, <2>1, <2>2 DEF Plain, ReadFrame, Rights, PopsRight, PopRight
  <2>4. PayloadOf(pops[c].id, UserPayload(e.frame))
    BY <2>2, <2>3, FramePayload
  <2> QED
    BY <1>2, <2>1, <2>4
<1>4. ASSUME NEW c \in Consumers, Answer(c, "err", NoData) PROVE Rights'
  BY <1>2, <1>4
<1>5. ASSUME NEW c \in Consumers, ReadNotFound(c) PROVE Rights'
  <2>1. CASE Answer(c, "err", NoData)
    BY <1>4, <2>1
  <2>2. CASE ~Answer(c, "err", NoData)
    <3>1. /\ mode = "up" /\ pops[c].id \in DOMAIN data_index
          /\ pops' = [pops EXCEPT ![c].loc = data_index[pops[c].id], ![c].tries = @ + 1]
          /\ pops[c].pc = "reading"
          /\ UNCHANGED <<mode, entries, data_index, payload_cache>>
      BY <1>5, <2>2 DEF ReadNotFound, CanLock, memVars, process
    <3>2. PICK p : p = [pops[c] EXCEPT !.loc = data_index[pops[c].id], !.tries = @ + 1]
      OBVIOUS
    <3>3. p.pc = "reading" /\ p.id = pops[c].id /\ p.loc = data_index[pops[c].id]
      BY <1>1, <3>1, <3>2 DEF Pop
    <3>4. PopRight(p)
      BY <3>1, <3>3 DEF PopRight, Rights, DataFound, Replayed
    <3>5. pops' = [pops EXCEPT ![c] = p]
      BY <1>1, <3>1, <3>2
    <3> QED
      BY <3>1, <3>4, <3>5, OnePopRights
  <2> QED
    BY <2>1, <2>2
<1>6. ASSUME NEW c \in Consumers, PopReturns(c) PROVE Rights'
  <2>1. /\ pops' = [pops EXCEPT ![c] = NoPop] /\ UNCHANGED <<mode, entries, data_index, payload_cache>>
    BY <1>6 DEF PopReturns, memVars, process
  <2>2. PopRight(NoPop)
    BY DEF PopRight, NoPop
  <2> QED
    BY <2>1, <2>2, OnePopRights
<1> QED
  BY <1>3, <1>4, <1>5, <1>6 DEF Reader, ReadNothing

\* A kill leaves no cache, no index and no pop.
LEMMA CrashRights ==
  ASSUME Crash PROVE Rights'
<1>1. /\ mode' = "down" /\ payload_cache' = EmptyCache /\ pops' = [c \in Consumers |-> NoPop]
  BY DEF Crash
<1>2. DataFound'
  BY <1>1 DEF DataFound, Replayed
<1>3. CacheRight'
  BY <1>1 DEF CacheRight, EmptyCache, EmptyMap
<1>4. PopsRight'
  BY <1>1 DEF PopsRight, PopRight, NoPop
<1> QED
  BY <1>2, <1>3, <1>4 DEF Rights

HIDE DEF OnePopRights

-----------------------------------------------------------------------------
(* open(), and the theorem.                                                *)

\* Pass 1 of recover() finds the Created record of every task.
LEMMA RecoverRights ==
  ASSUME IInv, IInv', Disk, Recorded, Rights, RecoverIndex
  PROVE  DataFound'
<1>1. Readable(log, torn) = log
  BY AllReadable DEF IInv, Disk
<1>2. PICK C : C = CreatedIn(log)
  OBVIOUS
<1>3. /\ data_index' = Locations(C) /\ entries' = IdsIn(log) /\ log' = log
  BY <1>1, <1>2 DEF RecoverIndex, Recovering, walVars
<1>4. C \subseteq log /\ C \subseteq Entry /\ IsFiniteSet(C) /\ \A e \in C : e.frame.op = "Created"
  BY <1>2, FS_Subset DEF IInv, Layout, IsLog, CreatedIn
<1>5. DOMAIN data_index' = IdsIn(C) /\ \A id \in IdsIn(C) : data_index'[id] = Loc(Last(Of(C, id)))
  BY <1>3 DEF Locations
<1>6. IdsIn(log) \subseteq IdsIn(C)
  <2> SUFFICES ASSUME NEW e \in log PROVE e.frame.id \in IdsIn(C)
    BY DEF IdsIn
  <2>1. PICK n \in DOMAIN pushed : pushed[n] = e.frame.id
    BY DEF IInv, TasksOK, FrameOK, Known
  <2>2. PICK d \in log : d.frame.op = "Created" /\ d.frame.id = pushed[n]
    BY DEF Recorded
  <2> QED
    BY <1>2, <2>1, <2>2 DEF CreatedIn, IdsIn
<1>7. ASSUME NEW id, NEW l, id \in DOMAIN data_index', l = data_index'[id] PROVE CreatedAt(id, l)'
  <2>1. PICK e : e = Last(Of(C, id))
    OBVIOUS
  <2>2. e \in Heads(C) /\ e.frame.id = id
    BY <1>4, <1>5, <1>7, <2>1, HeadExists
  <2>3. e \in C /\ Loc(e) = l
    BY <1>5, <1>7, <2>1, <2>2 DEF Heads
  <2> QED
    BY <1>3, <1>4, <2>2, <2>3 DEF CreatedAt
<1> QED
  BY SMTT(30), <1>3, <1>5, <1>6, <1>7 DEF DataFound, CreatedAt

\* Pass 2 drops what is done.
LEMMA ReplayRights ==
  ASSUME IInv, Placed, Rights, Stays, ReplayReady \/ ReplayLeased \/ ReplayTerminal
  PROVE  DataFound'
<1>1. /\ Replaying /\ mode = "replay" /\ mode' = mode /\ entries' = entries \ {NextEntry}
  BY ReplayMoves
<1>2. PICK id : id = NextEntry
  OBVIOUS
<1>3. id \in entries /\ id \in DOMAIN data_index /\ entries \subseteq DOMAIN data_index
  BY <1>1, <1>2, ReplaysTip DEF Rights, DataFound
<1>4. data_index' \in {data_index, Drop(data_index, id)}
  BY <1>2, <1>3 DEF ReplayReady, ReplayLeased, ReplayTerminal, ReplayAs
<1>5. DataMoves(data_index')
  BY <1>4, DropMoves
<1>6. DOMAIN Drop(data_index, id) = DOMAIN data_index \ {id}
  BY DEF Drop
<1>7. entries' \subseteq DOMAIN data_index'
  BY <1>1, <1>2, <1>3, <1>4, <1>6
<1> QED
  BY <1>1, <1>5, <1>7, DataKept DEF Rights, Stays, Replayed

(* open() builds data_index from the log.                                    *)
LEMMA OpenRights ==
  ASSUME IInv, IInv', Disk, Safe, Recorded, Rights, Stays, Open
  PROVE  Rights'
<1>1. UNCHANGED <<pops, payload_cache>>
  <2>1. CASE OpenDiscardTemp \/ OpenDiscardPlan \/ OpenUnlink \/ OpenUnlinked \/ OpenNoPlan \/ OpenScan
    BY <2>1 DEF OpenDiscardTemp, OpenDiscardPlan, OpenUnlink, OpenUnlinked, OpenNoPlan, OpenScan, Opening, threads, memVars
  <2>2. CASE ~(OpenDiscardTemp \/ OpenDiscardPlan \/ OpenUnlink \/ OpenUnlinked \/ OpenNoPlan \/ OpenScan)
    BY <2>2 DEF Open, RecoverIndex, ReplayReady, ReplayLeased, ReplayTerminal, RecoverDone, ReplayAs, Recovering, threads
  <2> QED
    BY <2>1, <2>2
<1>2. CacheRight' /\ PopsRight'
  BY <1>1, CacheKept, PopsKept DEF Rights, Stays
<1>3. CASE OpenFiles
  <2>1. ~Replayed'
    BY <1>3, OpenFilesMoves DEF Replayed
  <2> QED
    BY <1>2, <2>1 DEF Rights, DataFound, Replayed
<1>4. CASE RecoverDone
  <2>1. mode = "replay" /\ mode' = "up" /\ data_index' = data_index
    BY <1>4 DEF RecoverDone
  <2>2. DataMoves(data_index')
    BY <2>1 DEF DataMoves
  <2>3. DataFound'
    BY <2>1, <2>2, DataKept DEF Rights, Stays, Replayed
  <2> QED
    BY <1>2, <2>3 DEF Rights
<1> QED
  BY <1>2, <1>3, <1>4, RecoverRights, ReplayRights DEF Open, OpenFiles, Rights, Safe

(* One step of the engine.                                                   *)
LEMMA NextRights ==
  ASSUME IInv, IInv', Disk, Safe, Plain, Recorded, Rights, [Next]_vars
  PROVE  Rights'
<1>1. Stays
  BY RecordsStay DEF Stays
<1>2. IsCache(payload_cache)
  BY DEF IInv, RestOK
<1>3. ASSUME NEW id, NEW p, NEW r, NEW op, process_task_failure(id, p, r, op), mode = "up", UNCHANGED <<mode, entries, pops>>
      PROVE  Rights'
  <2>1. /\ data_index' \in {data_index, Drop(data_index, id)}
        /\ payload_cache' = payload_cache \/ payload_cache' = CacheRemove(payload_cache, id)
    BY <1>3 DEF process_task_failure
  <2>2. DataMoves(data_index')
    BY <2>1, DropMoves
  <2> QED
    BY <1>1, <1>2, <1>3, <2>1, <2>2, QuietRights
<1>4. ASSUME NEW c \in Consumers, NEW id \in DOMAIN leased, Ack(c, id) PROVE Rights'
  <2>1. /\ data_index' = Drop(data_index, id) /\ payload_cache' = CacheRemove(payload_cache, id)
        /\ mode = "up" /\ UNCHANGED <<mode, entries, pops>>
    BY <1>4 DEF Ack, CanLock, process, threads
  <2>2. DataMoves(data_index')
    BY <2>1, DropMoves
  <2> QED
    BY <1>1, <1>2, <2>1, <2>2, QuietRights
<1>5. ASSUME NEW c \in Consumers, NEW id \in DOMAIN leased, Nack(c, id) PROVE Rights'
  BY <1>3, <1>5 DEF Nack, CanLock, process, threads
<1>6. ASSUME NEW t \in expired_tasks, ExpireApply(t) PROVE Rights'
  BY <1>3, <1>6 DEF ExpireApply, process
<1>7. CASE /\ UNCHANGED <<data_index, mode, entries, pops>> /\ payload_cache' \in {payload_cache, EmptyCache}
  <2>1. DataMoves(data_index')
    BY <1>7 DEF DataMoves
  <2> QED
    BY <1>1, <1>2, <1>7, <2>1, QuietRights
<1>8. CASE \/ PushFails \/ PopFails \/ AckOrNackFails \/ \E t \in expired_tasks : ExpireFails(t)
           \/ ClearPayloadCache \/ ExpireScan \/ Tick \/ UNCHANGED vars
  <2>1. UNCHANGED <<data_index, mode, entries, pops>> /\ payload_cache' \in {payload_cache, EmptyCache}
    BY <1>8 DEF PushFails, PopFails, AckOrNackFails, ExpireFails, ClearPayloadCache, ExpireScan, Tick, vars, memVars,
         process, threads
  <2> QED
    BY <1>7, <2>1
<1>9. CASE Compaction
  <2>1. plan_compaction
    BY <1>9 DEF Plain, Compaction, CompactWriteTemp, CompactWritePlan, CompactFails, CompactRename, CompactUnlink,
         CompactFinish
  <2> QED
    BY <1>7, <2>1 DEF plan_compaction, memVars, process
<1>10. CASE Client \/ Expiration
  BY <1>1, <1>4, <1>5, <1>6, <1>8, <1>10, PushRights, PopRights DEF Client, Expiration
<1> QED
  BY <1>1, <1>8, <1>9, <1>10, ReaderRights, OpenRights, CrashRights DEF Next

\* Every payload is the right one in every state of a run without compaction.
LEMMA RightsInvariant == Spec /\ Uncompacted => [](IInv /\ Recorded /\ Rights)
<1>1. Init => Rights
  BY SMTT(30) DEF Init, Rights, DataFound, CacheRight, PopsRight, PopRight, Replayed, NoPop, EmptyCache, EmptyMap
<1>2. /\ IInv /\ Disk /\ Safe /\ Plain /\ Recorded /\ (IInv /\ Disk /\ Safe /\ Plain /\ Recorded)'
      /\ Rights /\ [Next]_vars
      => Rights'
  BY NextRights
<1> QED
  BY <1>1, <1>2, RecordedInvariant, PTL DEF Spec

\* No other push has the id of the n-th one.
LEMMA OnlyPush ==
  ASSUME IInv, Recorded, NEW n \in DOMAIN pushed
  PROVE  PushOf(pushed[n]) = n
<1>1. \A m \in DOMAIN pushed : pushed[m] = pushed[n] => m <= n
  <2>1. n \in Nat
    BY DEF IInv, TasksOK
  <2> QED
    BY SMTT(30), <2>1 DEF Recorded, IdsUnique
<1> QED
  BY <1>1, PushOfLatest DEF IInv

(* RightPayload: a pop returns the payload that was pushed with the id it     *)
(* returns, whether it comes from the cache, from the log or, after a restart, *)
(* through the data_index that recover() has rebuilt; the read happens outside *)
(* the lock, and other calls and kills may come between                      *)
(* (engine.rs:244-298).  Compaction is excluded: the runs stale_read and     *)
(* reboot_payload show what it does to a read.                               *)
THEOREM PopsAreRight == Spec /\ Uncompacted => []RightPayload
<1>1. IInv /\ Recorded /\ Rights => RightPayload
  <2> SUFFICES ASSUME IInv, Recorded, Rights, NEW c \in Consumers, pops[c].pc = "ok"
               PROVE  pops[c].data = PushOf(pops[c].id)
    BY DEF RightPayload
  <2>1. PICK n : n = pops[c].data
    OBVIOUS
  <2>2. n \in DOMAIN pushed /\ pushed[n] = pops[c].id
    BY <2>1 DEF Rights, PopsRight, PopRight, PayloadOf
  <2>3. PushOf(pushed[n]) = n
    BY <2>2, OnlyPush
  <2> QED
    BY <2>1, <2>2, <2>3
<1> QED
  BY <1>1, RightsInvariant, PTL

HIDE DEF RecoverRights, ReplayRights, OpenRights, NextRights, PopsAreRight

-----------------------------------------------------------------------------
(* Every payload is found.                                                 *)

\* The task that a step finishes does not wait and is not leased any more.
LEMMA ReachableDrop ==
  ASSUME Reachable, NEW id, data_index' = Drop(data_index, id), Replayed' => Replayed,
         (ReadyIds \cup DOMAIN leased)' \subseteq (ReadyIds \cup DOMAIN leased) \ {id}
  PROVE  Reachable'
<1>1. DOMAIN data_index' = DOMAIN data_index \ {id}
  BY DEF Drop
<1> QED
  BY <1>1 DEF Reachable

(* A failed task that is dead-lettered leaves data_index, one that waits     *)
(* again stays in it.  (engine.rs:359-383)                                   *)
LEMMA FailureReachable ==
  ASSUME IInv, Disk, Agreed, Reachable, NEW id \in DOMAIN leased, NEW p, NEW r, NEW op,
         FailureCall(id, p, r, op), mode' = mode
  PROVE  Reachable'
<1>1. /\ leased' = Drop(leased, id) /\ Retried(id, p, r) \in TaskRef
      /\ Exhausted(r) => ready_queue' = ready_queue
      /\ ~Exhausted(r) => Queued(ready_queue)' = Queued(ready_queue) \cup {Retried(id, p, r)}
  BY FailureMoves
<1>2. /\ mode = "up" /\ Exhausted(r) => data_index' = Drop(data_index, id)
      /\ ~Exhausted(r) => data_index' = data_index
  BY DEF FailureCall, process_task_failure
<1>3. DOMAIN leased' = DOMAIN leased \ {id} /\ Retried(id, p, r).id = id
  BY <1>1 DEF Drop, Retried
<1>4. mode = "up" /\ Replayed /\ Replayed'
  BY DEF FailureCall, Replayed
<1>5. CASE Exhausted(r)
  <2>1. ReadyIds' = ReadyIds /\ id \notin ReadyIds
    BY <1>1, <1>4, <1>5 DEF ReadyIds, Agreed, Agree
  <2> QED
    BY <1>2, <1>3, <1>4, <1>5, <2>1, ReachableDrop
<1>6. CASE ~Exhausted(r)
  <2>1. ReadyIds' = ReadyIds \cup {id}
    BY SMTT(30), <1>1, <1>3, <1>6 DEF ReadyIds
  <2> QED
    BY <1>2, <1>3, <1>4, <1>6, <2>1 DEF Reachable
<1> QED
  BY <1>5, <1>6

(* recover() replays only tasks that data_index has.                         *)
LEMMA OpenReachable ==
  ASSUME IInv, IInv', Disk, Safe, Rights, Agreed, Reachable, Open
  PROVE  Reachable'
<1>1. CASE OpenFiles
  BY <1>1, OpenFilesMoves DEF Reachable, Replayed
<1>2. CASE RecoverIndex
  <2>1. mode = "index" /\ UNCHANGED <<ready_queue, leased>>
    BY <1>2, RecoverMoves
  <2>2. ready_queue = EmptyQueue /\ leased = EmptyMap
    BY <2>1 DEF Safe, Blank, Replayed
  <2>3. ReadyIds' = {} /\ DOMAIN leased' = {}
    BY <2>1, <2>2, EmptyHasNone DEF ReadyIds, EmptyMap
  <2> QED
    BY <2>3 DEF Reachable
<1>3. CASE RecoverDone
  <2>1. mode = "replay" /\ UNCHANGED <<ready_queue, leased, data_index>>
    BY <1>3 DEF RecoverDone
  <2>2. ReadyIds' = ReadyIds
    BY <2>1 DEF ReadyIds
  <2> QED
    BY <2>1, <2>2 DEF Reachable, Replayed
<1>4. CASE ReplayReady \/ ReplayLeased \/ ReplayTerminal
  <2>1. PICK id : id = NextEntry
    OBVIOUS
  <2>2. Replaying /\ mode = "replay" /\ mode' = mode /\ Replayed /\ Replayed'
    BY <1>4, ReplayMoves DEF Replayed
  <2>3. id \in entries /\ id \in DOMAIN data_index
    BY <2>1, <2>2, ReplaysTip DEF Rights, DataFound, Safe
  <2>4. CASE ReplayTerminal
    <3>1. UNCHANGED <<ready_queue, leased>> /\ data_index' = Drop(data_index, id)
      BY <2>1, <2>4 DEF ReplayTerminal
    <3>2. id \notin ReadyIds \cup DOMAIN leased /\ ReadyIds' = ReadyIds
      BY <2>2, <2>3, <3>1 DEF Agreed, Agree, ReadyIds
    <3> QED
      BY <2>2, <3>1, <3>2, ReachableDrop
  <2>5. CASE ReplayReady \/ ReplayLeased
    <3>1. data_index' = data_index
      BY <2>1, <2>3, <2>5 DEF ReplayReady, ReplayLeased, ReplayAs
    <3>2. (ReadyIds \cup DOMAIN leased)' \subseteq ReadyIds \cup DOMAIN leased \cup {id}
      BY <1>4, <2>1, ReplayPlaces DEF Safe
    <3> QED
      BY <2>2, <2>3, <3>1, <3>2 DEF Reachable
  <2> QED
    BY <1>4, <2>4, <2>5
<1> QED
  BY <1>1, <1>2, <1>3, <1>4 DEF Open, OpenFiles

(* One step of the engine.                                                   *)
LEMMA NextReachable ==
  ASSUME IInv, IInv', Disk, Safe, Plain, Rights, Agreed, SnapshotFresh, Reachable, [Next]_vars
  PROVE  Reachable'
<1>1. ASSUME NEW p \in Priorities, Push(p) PROVE Reachable'
  <2>0. PICK t : t = [id |-> next_id, priority |-> p, retries |-> 0]
    OBVIOUS
  <2>1. t.id = next_id /\ Queued(ready_queue)' = Queued(ready_queue) \cup {t} /\ mode = "up" /\ leased' = leased
    BY <1>1, <2>0, PushMoves
  <2>2. DOMAIN data_index' = DOMAIN data_index \cup {next_id}
    BY <1>1 DEF Push, Put
  <2>3. ReadyIds' = ReadyIds \cup {next_id}
    BY <2>1 DEF ReadyIds
  <2> QED
    BY <2>1, <2>2, <2>3 DEF Reachable, Replayed
<1>2. ASSUME NEW c \in Consumers, NEW ttl \in TTLs, PopAndLease(c, ttl) PROVE Reachable'
  <2>1. PICK t : /\ t = QueueFront(ready_queue) /\ t \in Queued(ready_queue) /\ HasTask(ready_queue)
                 /\ ready_queue' = QueuePop(ready_queue) /\ mode = "up"
                 /\ \E l : leased' = Put(leased, t.id, l)
    BY <1>2, PopMoves
  <2>2. Queued(ready_queue)' \subseteq Queued(ready_queue)
    BY <2>1, PopTakes DEF IInv, TasksOK, QueueOK
  <2>3. ReadyIds' \subseteq ReadyIds /\ t.id \in ReadyIds
    BY <2>1, <2>2 DEF ReadyIds
  <2>4. DOMAIN leased' = DOMAIN leased \cup {t.id}
    BY <2>1 DEF Put
  <2>5. data_index' = data_index
    BY <1>2 DEF PopAndLease
  <2> QED
    BY <2>1, <2>3, <2>4, <2>5 DEF Reachable, Replayed
<1>3. ASSUME NEW c \in Consumers, NEW id \in DOMAIN leased, Ack(c, id) PROVE Reachable'
  <2>1. mode = "up" /\ mode' = mode /\ leased' = Drop(leased, id) /\ ready_queue' = ready_queue
    BY <1>3, AckMoves
  <2>2. data_index' = Drop(data_index, id)
    BY <1>3 DEF Ack
  <2>3. ReadyIds' = ReadyIds /\ id \notin ReadyIds /\ DOMAIN leased' = DOMAIN leased \ {id}
    BY <2>1 DEF ReadyIds, Drop, Agreed, Agree, Replayed
  <2> QED
    BY <2>1, <2>2, <2>3, ReachableDrop DEF Replayed
<1>4. ASSUME NEW c \in Consumers, NEW id \in DOMAIN leased, Nack(c, id) PROVE Reachable'
  <2>1. FailureCall(id, leased[id].priority, leased[id].retries, "Nacked") /\ mode' = mode
    BY <1>4, NackCall DEF Nack, process
  <2> QED
    BY <2>1, FailureReachable
<1>5. ASSUME NEW t \in expired_tasks, ExpireApply(t) PROVE Reachable'
  <2>1. FailureCall(t.id, t.priority, t.retries, "Expired") /\ mode' = mode /\ t.id \in DOMAIN leased
    BY <1>5, ExpireCall DEF ExpireApply, process, SnapshotFresh
  <2> QED
    BY <2>1, FailureReachable
<1>6. ASSUME UNCHANGED <<mode, leased, data_index>>, Queued(ready_queue)' \subseteq Queued(ready_queue) PROVE Reachable'
  BY <1>6 DEF Reachable, Replayed, ReadyIds
<1>7. ASSUME PushFails \/ PopFails \/ AckOrNackFails \/ \E t \in expired_tasks : ExpireFails(t) PROVE Reachable'
  <2>1. UNCHANGED <<mode, leased>>
    BY <1>7, FailedCallMoves
  <2>2. \/ ready_queue' = ready_queue
        \/ HasTask(ready_queue) /\ ready_queue' = QueuePop(ready_queue)
    BY <1>7, FailedCallMoves
  <2>3. data_index' = data_index
    BY <1>7 DEF PushFails, PopFails, AckOrNackFails, ExpireFails, memVars
  <2>4. Queued(ready_queue)' \subseteq Queued(ready_queue)
    BY <2>2, PopTakes DEF IInv, TasksOK, QueueOK
  <2> QED
    BY <1>6, <2>1, <2>3, <2>4
<1>8. CASE Reader \/ ClearPayloadCache \/ Tick \/ ExpireScan
  <2>1. data_index' = data_index
    BY <1>8 DEF Reader, ReadFrame, ReadNothing, ReadNotFound, PopReturns, Answer, ClearPayloadCache, Tick, ExpireScan,
          memVars
  <2> QED
    BY <1>6, <1>8, <2>1, QuietMoves
<1>9. CASE Compaction
  <2>1. plan_compaction
    BY <1>9 DEF Plain, Compaction, CompactWriteTemp, CompactWritePlan, CompactFails, CompactRename, CompactUnlink,
         CompactFinish
  <2> QED
    BY <1>6, <2>1 DEF plan_compaction, memVars, process
<1>10. CASE Crash
  BY <1>10 DEF Crash, Reachable, Replayed
<1>11. CASE UNCHANGED vars
  BY <1>6, <1>11 DEF vars
<1>12. CASE Client \/ Expiration
  BY <1>1, <1>2, <1>3, <1>4, <1>5, <1>7, <1>8, <1>12 DEF Client, Expiration
<1> QED
  BY <1>8, <1>9, <1>10, <1>11, <1>12, OpenReachable DEF Next

(* PayloadReachable: whatever waits or is leased has a place in data_index,  *)
(* so that a pop finds its payload, and so will every pop after a restart.   *)
THEOREM PayloadsAreFound == Spec /\ Uncompacted /\ []SnapshotFresh => []PayloadReachable
<1>1. Init => Reachable
  BY DEF Init, Reachable, Replayed
<1>2. /\ IInv /\ Disk /\ Safe /\ Plain /\ Rights /\ Agreed /\ SnapshotFresh /\ IInv'
      /\ Reachable /\ [Next]_vars
      => Reachable'
  BY NextReachable
<1>3. IInv /\ Recorded /\ Rights /\ Reachable => PayloadReachable
  <2> SUFFICES ASSUME IInv, Recorded, Rights, Reachable, CanLock, NEW id \in ReadyIds \cup DOMAIN leased
               PROVE  /\ id \in DOMAIN data_index
                      /\ \E e \in log : Loc(e) = data_index[id] /\ e.frame.id = id /\ UserPayload(e.frame) = PushOf(id)
    BY DEF PayloadReachable
  <2>1. id \in DOMAIN data_index
    BY DEF Reachable, Replayed, CanLock
  <2>2. PICK l : l = data_index[id]
    OBVIOUS
  <2>3. CreatedAt(id, l)
    BY <2>1, <2>2 DEF Rights, DataFound, Replayed, CanLock
  <2>4. PICK e \in log : Loc(e) = l /\ e.frame.id = id
    BY <2>3 DEF CreatedAt
  <2>5. PICK n : n = UserPayload(e.frame)
    OBVIOUS
  <2>6. n \in DOMAIN pushed /\ pushed[n] = id
    BY <2>3, <2>4, <2>5, FramePayload DEF PayloadOf
  <2>7. PushOf(pushed[n]) = n
    BY <2>6, OnlyPush
  <2> QED
    BY <2>1, <2>2, <2>4, <2>5, <2>6, <2>7
<1> QED
  BY <1>1, <1>2, <1>3, RecordedInvariant, RightsInvariant, PlainInvariant, AgreedInvariant, PTL DEF Spec

HIDE DEF ReachableDrop, FailureReachable, OpenReachable, NextReachable,
         PayloadsAreFound

-----------------------------------------------------------------------------
(* The tasks of a priority wait in the order of their latest records.      *)

\* What append does to the latest records: the new one is behind all others.
LEMMA AppendAhead ==
  ASSUME Layout, mode = "up", NEW f \in Frame, WalAppend(f)
  PROVE  \A i, j : i # f.id /\ (j = f.id \/ Ahead(Heads(log), i, j)) => Ahead(Heads(log'), i, j)
<1>1. PICK x : x = [seg |-> NextSegment, off |-> NextOffset, frame |-> f]
  OBVIOUS
<1>2. /\ NextSegment \in Nat /\ NextOffset \in Nat /\ \A s \in files : s <= NextSegment
      /\ \A e \in log : e.seg = NextSegment => e.off < NextOffset
  BY NextLocFree
<1>3. log' = log \cup {x} /\ x \in Entry /\ x.seg = NextSegment /\ x.off = NextOffset /\ x.frame = f
  BY <1>1, <1>2 DEF WalAppend, Entry
<1>4. log \subseteq Entry /\ \A e \in log : e.seg \in files
  BY DEF Layout, IsLog, FilesOK
<1>5. \A e \in log : LocLess(Loc(e), Loc(x))
  <2> SUFFICES ASSUME NEW e \in log PROVE LocLess(Loc(e), Loc(x))
    OBVIOUS
  <2>1. e \in Entry /\ e.seg <= NextSegment /\ (e.seg = NextSegment => e.off < NextOffset)
    BY <1>2, <1>4
  <2> QED
    BY <2>1, <1>2, <1>3, LocType DEF LocLess
<1>6. Heads(log') = {e \in Heads(log) : e.frame.id # f.id} \cup {x}
  BY SMTT(30), <1>3, <1>4, <1>5, TipsAppend
<1>7. Heads(log) \subseteq log
  BY DEF Heads
<1> QED
  BY <1>3, <1>5, <1>6, <1>7 DEF Ahead

\* ready_queue is in order, and whatever recover() has still to replay goes behind it.
QueueInOrder ==
  Replayed => /\ InOrder(ready_queue, Heads(log))
              /\ \A t \in Queued(ready_queue), id \in entries : Ahead(Heads(log), t.id, id)

\* A record is appended for a task that does not wait.
LEMMA AppendOrder ==
  ASSUME IInv, mode = "up", NEW f \in Frame, WalAppend(f), NEW q, InOrder(q, Heads(log)),
         \A u \in Queued(q) : u.id # f.id
  PROVE  InOrder(q, Heads(log')) /\ \A u \in Queued(q) : Ahead(Heads(log'), u.id, f.id)
<1>1. \A i, j : i # f.id /\ (j = f.id \/ Ahead(Heads(log), i, j)) => Ahead(Heads(log'), i, j)
  BY AppendAhead DEF IInv
<1>2. \A u, v \in Queued(q) : Ahead(Heads(log), u.id, v.id) => Ahead(Heads(log'), u.id, v.id)
  BY <1>1
<1>3. InOrder(q, Heads(log'))
  BY <1>2, InOrderKept
<1>4. \A u \in Queued(q) : Ahead(Heads(log'), u.id, f.id)
  BY <1>1
<1> QED
  BY <1>3, <1>4

\* In a process that is up there is nothing left to replay.
LEMMA UpInOrder ==
  ASSUME Safe', mode' = "up", InOrder(ready_queue', Heads(log'))
  PROVE  QueueInOrder'
<1>1. entries' = {}
  BY DEF Safe, Placed, Replayed
<1> QED
  BY <1>1 DEF QueueInOrder

\* The latest record is that of a task which waits again, behind all others.
LEMMA RequeueOrder ==
  ASSUME IInv, Safe', mode = "up", mode' = "up", QueueInOrder, NEW f \in Frame, WalAppend(f),
         NEW t \in TaskRef, t.id = f.id, t.id \notin ReadyIds, ready_queue' = QueuePush(ready_queue, t)
  PROVE  QueueInOrder'
<1>1. InOrder(ready_queue, Heads(log)) /\ ready_queue \in Queue
  BY DEF QueueInOrder, Replayed, IInv, TasksOK, QueueOK
<1>2. \A u \in Queued(ready_queue) : u.id # f.id
  BY DEF ReadyIds
<1>3. PICK q, G : q = ready_queue /\ G = Heads(log')
  OBVIOUS
<1>4. InOrder(q, G) /\ \A u \in Queued(q) : Ahead(G, u.id, t.id)
  BY <1>1, <1>2, <1>3, AppendOrder
<1>5. InOrder(QueuePush(q, t), G)
  BY <1>1, <1>3, <1>4, InOrderPush
<1> QED
  BY <1>3, <1>5, UpInOrder

(* A task that failed waits behind all others, and its record is the latest. *)
LEMMA FailureOrder ==
  ASSUME IInv, Disk, Safe', Agreed, QueueInOrder, NEW id \in DOMAIN leased, NEW p, NEW r, NEW op,
         FailureCall(id, p, r, op), mode' = mode
  PROVE  QueueInOrder'
<1>1. PICK f, t : f = FailureFrame(id, p, r, op) /\ t = Retried(id, p, r)
  OBVIOUS
<1>2. /\ f \in Frame /\ t \in TaskRef
      /\ Exhausted(r) => ready_queue' = ready_queue
      /\ ~Exhausted(r) => ready_queue' = QueuePush(ready_queue, t)
  BY <1>1, FailureMoves
<1>3. f.id = id /\ t.id = id
  BY <1>1 DEF FailureFrame, FailedFrame, Retried
<1>4. mode = "up" /\ WalAppend(f)
  BY <1>1 DEF FailureCall, process_task_failure, FailureFrame
<1>5. id \notin ReadyIds
  BY <1>4 DEF Agreed, Agree, Replayed, ReadyIds
<1>6. CASE Exhausted(r)
  <2>1. InOrder(ready_queue, Heads(log)) /\ \A u \in Queued(ready_queue) : u.id # f.id
    BY <1>3, <1>4, <1>5 DEF QueueInOrder, Replayed, ReadyIds
  <2>2. InOrder(ready_queue, Heads(log'))
    BY <1>2, <1>4, <2>1, AppendOrder
  <2> QED
    BY <1>2, <1>4, <1>6, <2>2, UpInOrder
<1>7. CASE ~Exhausted(r)
  BY <1>2, <1>3, <1>4, <1>5, <1>7, RequeueOrder
<1> QED
  BY <1>6, <1>7

(* push, ack and pop_and_lease.                                              *)
LEMMA ClientOrder ==
  ASSUME IInv, Disk, Safe, Safe', Agreed, QueueInOrder
  PROVE  /\ \A p \in Priorities : Push(p) => QueueInOrder'
         /\ \A c \in Consumers, id \in DOMAIN leased : Ack(c, id) => QueueInOrder'
         /\ \A c \in Consumers, ttl \in TTLs : PopAndLease(c, ttl) => QueueInOrder'
<1>1. ASSUME NEW p \in Priorities, Push(p) PROVE QueueInOrder'
  <2>1. PICK f, t : /\ f = CreatedFrame(next_id, p, Len(pushed) + 1)
                    /\ t = [id |-> next_id, priority |-> p, retries |-> 0]
    OBVIOUS
  <2>2. /\ f \in Frame /\ t \in TaskRef /\ ready_queue' = QueuePush(ready_queue, t)
        /\ mode = "up" /\ mode' = mode
    BY <1>1, <2>1, PushMoves
  <2>3. WalAppend(f) /\ f.id = next_id /\ t.id = next_id
    BY <1>1, <2>1 DEF Push, CreatedFrame
  <2>4. next_id \notin ReadyIds
    <3>1. next_id \in Nat /\ \A id \in ReadyIds : id < next_id
      BY <2>2 DEF Safe, Placed, Replayed, Live, IInv, IndexOK
    <3> QED
      BY <3>1
  <2> QED
    BY <2>2, <2>3, <2>4, RequeueOrder
<1>2. ASSUME NEW c \in Consumers, NEW id \in DOMAIN leased, Ack(c, id) PROVE QueueInOrder'
  <2>1. PICK f : f = AckedFrame(id, leased[id].priority)
    OBVIOUS
  <2>2. f \in Frame /\ mode = "up" /\ mode' = mode /\ ready_queue' = ready_queue
    BY <1>2, <2>1, AckMoves
  <2>3. WalAppend(f) /\ f.id = id
    BY <1>2, <2>1 DEF Ack, AckedFrame
  <2>4. InOrder(ready_queue, Heads(log)) /\ \A u \in Queued(ready_queue) : u.id # f.id
    BY <2>2, <2>3 DEF QueueInOrder, Replayed, Agreed, Agree
  <2>5. InOrder(ready_queue, Heads(log'))
    BY <2>2, <2>3, <2>4, AppendOrder
  <2> QED
    BY <2>2, <2>5, UpInOrder
<1>3. ASSUME NEW c \in Consumers, NEW ttl \in TTLs, PopAndLease(c, ttl) PROVE QueueInOrder'
  <2>1. PICK t, f, q : /\ t = QueueFront(ready_queue) /\ f = LeasedFrame(t, c, now + ttl)
                       /\ q = QueuePop(ready_queue)
    OBVIOUS
  <2>2. f \in Frame /\ mode = "up" /\ mode' = mode /\ HasTask(ready_queue) /\ ready_queue' = q
    BY <1>3, <2>1, PopMoves
  <2>3. WalAppend(f) /\ f.id = t.id
    BY <1>3, <2>1 DEF PopAndLease, LeasedFrame
  <2>4. /\ InOrder(ready_queue, Heads(log)) /\ Counted(ready_queue)
        /\ ready_queue \in Queue /\ BitmapMatches(ready_queue)
    BY <2>2 DEF QueueInOrder, Replayed, IInv, TasksOK, QueueOK, Agreed, Agree
  <2>5. InOrder(q, Heads(log)) /\ \A u \in Queued(q) : u.id # f.id
    BY <2>1, <2>2, <2>3, <2>4, InOrderPop, CountedPop
  <2>6. InOrder(q, Heads(log'))
    BY <2>2, <2>3, <2>5, AppendOrder
  <2> QED
    BY <2>2, <2>6, UpInOrder
<1> QED
  BY <1>1, <1>2, <1>3

HIDE DEF AppendAhead, AppendOrder, RequeueOrder

-----------------------------------------------------------------------------
(* open(), and the theorem.                                                *)

\* recover() takes the tasks in the order of their latest records.
LEMMA NextIsAhead ==
  ASSUME IInv, Placed, Replaying, NEW id \in entries, id # NextEntry
  PROVE  Ahead(Heads(log), NextEntry, id)
<1>1. PICK n : n = NextEntry
  OBVIOUS
<1>2. n \in entries /\ ~LocLess(index[id], index[n])
  BY <1>1, NextEntryFirst
<1>3. /\ \E e \in Heads(log) : e.frame.id = n /\ index[n] = Loc(e)
      /\ \E e \in Heads(log) : e.frame.id = id /\ index[id] = Loc(e)
  BY <1>2 DEF Placed, Replayed, Replaying
<1>4. log \subseteq Entry /\ Unique(log) /\ Heads(log) \subseteq log
  BY DEF IInv, Layout, IsLog, Heads
<1> SUFFICES ASSUME NEW d \in Heads(log), NEW e \in Heads(log), d.frame.id = n, e.frame.id = id
             PROVE  LocLess(Loc(d), Loc(e))
  BY <1>1 DEF Ahead
<1>5. index[n] = Loc(d) /\ index[id] = Loc(e)
  BY <1>3, <1>4, HeadUnique
<1>6. Loc(d) # Loc(e)
  BY <1>1, <1>4 DEF Unique
<1>7. d \in Entry /\ e \in Entry /\ ~LocLess(Loc(e), Loc(d))
  BY <1>2, <1>4, <1>5
<1> QED
  BY <1>6, <1>7, LocType, LocOrder

(* The second pass of recover() refills the buckets in the order of the log. *)
LEMMA ReplayOrder ==
  ASSUME IInv, Placed, QueueInOrder, log' = log, ReplayReady \/ ReplayLeased \/ ReplayTerminal
  PROVE  QueueInOrder'
<1>1. /\ Replaying /\ mode = "replay" /\ mode' = mode /\ entries' = entries \ {NextEntry}
  BY ReplayMoves
<1>2. PICK n, H, q : n = NextEntry /\ H = Heads(log) /\ q = ready_queue
  OBVIOUS
<1>3. /\ n \in entries /\ q \in Queue /\ Latest(n) \in Frame /\ n \in Nat
      /\ InOrder(q, H) /\ \A t \in Queued(q), id \in entries : Ahead(H, t.id, id)
  BY <1>1, <1>2, ReplaysTip DEF QueueInOrder, Replayed, IInv, TasksOK, QueueOK
<1>4. \A id \in entries : id # n => Ahead(H, n, id)
  BY <1>1, <1>2, NextIsAhead
<1>5. CASE ReplayReady
  <2>1. PICK t : t = [id |-> n, priority |-> Latest(n).priority, retries |-> Latest(n).retries]
    OBVIOUS
  <2>2. t \in TaskRef /\ t.id = n
    BY <1>3, <2>1 DEF TaskRef, Frame
  <2>3. ready_queue' = QueuePush(q, t)
    BY <1>2, <1>5, <2>1 DEF ReplayReady, ReplayAs
  <2>4. InOrder(QueuePush(q, t), H)
    BY <1>3, <2>2, InOrderPush
  <2>5. Queued(QueuePush(q, t)) = Queued(q) \cup {t}
    BY <1>3, <2>2, QueuedPush
  <2>6. \A u \in Queued(q) \cup {t}, id \in entries \ {n} : Ahead(H, u.id, id)
    BY <1>3, <1>4, <2>2
  <2> QED
    BY <1>1, <1>2, <2>3, <2>4, <2>5, <2>6 DEF QueueInOrder
<1>6. CASE ~ReplayReady
  <2>1. ready_queue' = ready_queue
    BY <1>6 DEF ReplayLeased, ReplayTerminal, ReplayAs
  <2> QED
    BY <1>1, <1>2, <1>3, <2>1 DEF QueueInOrder
<1> QED
  BY <1>5, <1>6

(* open() as a whole.                                                        *)
LEMMA OpenOrder ==
  ASSUME IInv, IInv', Disk, Safe, QueueInOrder, Open
  PROVE  QueueInOrder'
<1>1. mode # "down" => log' = log
  BY OpenDisk DEF IInv, RestOK, SideFiles
<1>2. CASE OpenFiles
  BY <1>2, OpenFilesMoves DEF QueueInOrder, Replayed
<1>3. CASE RecoverIndex
  <2>1. mode = "index" /\ ready_queue' = ready_queue
    BY <1>3, RecoverMoves
  <2>2. ready_queue' = EmptyQueue
    BY <2>1 DEF Safe, Blank, Replayed
  <2>3. \A H : InOrder(EmptyQueue, H)
    BY DEF InOrder, EmptyQueue
  <2> QED
    BY <2>2, <2>3, EmptyHasNone DEF QueueInOrder
<1>4. CASE RecoverDone
  <2>1. mode = "replay" /\ UNCHANGED <<ready_queue, entries>>
    BY <1>4 DEF RecoverDone
  <2> QED
    BY <1>1, <2>1 DEF QueueInOrder, Replayed
<1>5. CASE ReplayReady \/ ReplayLeased \/ ReplayTerminal
  <2>1. mode = "replay"
    BY <1>5, ReplayMoves
  <2> QED
    BY <1>1, <1>5, <2>1, ReplayOrder DEF Safe
<1> QED
  BY <1>2, <1>3, <1>4, <1>5 DEF Open, OpenFiles

(* One step of the engine.                                                   *)
LEMMA NextOrder ==
  ASSUME IInv, IInv', Disk, Safe, Safe', Plain, Agreed, SnapshotFresh, QueueInOrder, [Next]_vars
  PROVE  QueueInOrder'
<1>1. ASSUME UNCHANGED <<log, mode, entries, ready_queue>> PROVE QueueInOrder'
  BY <1>1 DEF QueueInOrder, Replayed
<1>2. ASSUME PushFails \/ PopFails \/ AckOrNackFails \/ \E t \in expired_tasks : ExpireFails(t) PROVE QueueInOrder'
  <2>1. UNCHANGED <<log, mode, entries>> /\ mode = "up"
    BY <1>2, FailedCallMoves
  <2>2. \/ ready_queue' = ready_queue
        \/ HasTask(ready_queue) /\ ready_queue' = QueuePop(ready_queue)
    BY <1>2, FailedCallMoves
  <2>3. ready_queue \in Queue /\ BitmapMatches(ready_queue) /\ InOrder(ready_queue, Heads(log))
    BY <2>1 DEF IInv, TasksOK, QueueOK, QueueInOrder, Replayed
  <2>4. InOrder(ready_queue', Heads(log'))
    BY <2>1, <2>2, <2>3, InOrderPop
  <2> QED
    BY <2>1, <2>4, UpInOrder
<1>3. ASSUME NEW c \in Consumers, NEW id \in DOMAIN leased, Nack(c, id) PROVE QueueInOrder'
  <2>1. FailureCall(id, leased[id].priority, leased[id].retries, "Nacked") /\ mode' = mode
    BY <1>3, NackCall DEF Nack, process
  <2> QED
    BY <2>1, FailureOrder
<1>4. ASSUME NEW t \in expired_tasks, ExpireApply(t) PROVE QueueInOrder'
  <2>1. FailureCall(t.id, t.priority, t.retries, "Expired") /\ mode' = mode /\ t.id \in DOMAIN leased
    BY <1>4, ExpireCall DEF ExpireApply, process, SnapshotFresh
  <2> QED
    BY <2>1, FailureOrder
<1>5. CASE Reader \/ ClearPayloadCache \/ Tick \/ ExpireScan
  BY <1>1, <1>5, QuietMoves
<1>6. CASE Compaction
  <2>1. plan_compaction
    BY <1>6 DEF Plain, Compaction, CompactWriteTemp, CompactWritePlan, CompactFails, CompactRename, CompactUnlink,
         CompactFinish
  <2> QED
    BY <1>1, <2>1 DEF plan_compaction, walVars, memVars, process
<1>7. CASE Crash
  BY <1>7 DEF Crash, QueueInOrder, Replayed
<1>8. CASE UNCHANGED vars
  BY <1>1, <1>8 DEF vars
<1>9. CASE Client \/ Expiration
  BY <1>2, <1>3, <1>4, <1>5, <1>9, ClientOrder DEF Client, Expiration
<1> QED
  BY <1>5, <1>6, <1>7, <1>8, <1>9, OpenOrder DEF Next

(* ReadyInLogOrder: the tasks of one priority wait in the order of their     *)
(* latest records, so that a restart, which refills the buckets in the order *)
(* of the log, changes nothing about who is next (engine.rs:616-667).        *)
THEOREM TasksWaitInLogOrder == Spec /\ Uncompacted /\ []SnapshotFresh => []ReadyInLogOrder
<1>1. Init => QueueInOrder
  BY DEF Init, QueueInOrder, Replayed
<1>2. /\ IInv /\ Disk /\ Safe /\ Plain /\ Agreed /\ SnapshotFresh /\ IInv' /\ Safe'
      /\ QueueInOrder /\ [Next]_vars
      => QueueInOrder'
  BY NextOrder
<1>3. IInv /\ Agreed /\ QueueInOrder => ReadyInLogOrder
  <2> SUFFICES ASSUME IInv, Agreed, QueueInOrder, CanLock, NEW p \in Priorities,
                      NEW i \in DOMAIN ready_queue.buckets[p], NEW j \in DOMAIN ready_queue.buckets[p], i < j
               PROVE  LocLess(Loc(Last(Of(log, ready_queue.buckets[p][i].id))),
                              Loc(Last(Of(log, ready_queue.buckets[p][j].id))))
    BY DEF ReadyInLogOrder
  <2>1. PICK t, u : t = ready_queue.buckets[p][i] /\ u = ready_queue.buckets[p][j]
    OBVIOUS
  <2>2. t \in Queued(ready_queue) /\ u \in Queued(ready_queue)
    BY <2>1, QueuedDef
  <2>3. Ahead(Heads(log), t.id, u.id)
    BY <2>1 DEF QueueInOrder, InOrder, Replayed, CanLock
  <2>4. t.id \in IdsIn(log) /\ u.id \in IdsIn(log)
    BY <2>2, LastOfTip DEF Agreed, Agree, Said, Replayed, CanLock
  <2>5. \A id \in IdsIn(log) : Last(Of(log, id)) \in Heads(log) /\ Last(Of(log, id)).frame.id = id
    BY HeadExists DEF IInv, Layout, IsLog
  <2> QED
    BY <2>1, <2>3, <2>4, <2>5 DEF Ahead
<1> QED
  BY <1>1, <1>2, <1>3, RecordedInvariant, PlainInvariant, AgreedInvariant, PTL DEF Spec

=============================================================================
