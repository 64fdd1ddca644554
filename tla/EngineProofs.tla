---------------------------- MODULE EngineProofs ----------------------------
(***************************************************************************)
(* The inductive invariant of the storage engine and what follows from it, *)
(* for any number of consumers, pushes, crashes, compactions and faults and*)
(* for any segment size: its type invariant, the layout of its log, and the*)
(* bound on retries.  Then what append, compact() and open() leave in the  *)
(* directory, at every step and at a kill between two of them.             *)
(***************************************************************************)
EXTENDS Engine, OperatorProofs

\* Every leaf is tried with Zenon first and, if that fails, with the SMT solver.
USE ZenonT(10), SMTT(30)

\* Facts of the extended modules that no proof below needs.
HIDE DEF NatInduction, DownwardNatInduction, GeneralNatInduction,
         SmallestNatural, RecursiveFcnOfNat, NatInductiveDef,
         RecursiveFcnOfNatType, NatInductiveDefType, RecursiveFcnOfNatUnique,
         NatInductiveUnique, FiniteNatInductiveDef,
         FiniteNatInductiveDefType, FiniteNatInductiveUnique,
         EmptyIsWellFounded, IsWellFoundedOnSubset,
         IsWellFoundedOnSubrelation, WFMin, MinWF, WellFoundedIsIrreflexive,
         WellFoundedIsAsymmetric, WFSetLessThanIrreflexive,
         SetLessTransitive, WFInduction, WFDefOnUnique, WFInductiveDefLemma,
         TransitiveClosureThm, TransitiveClosureMinimal, TCTCTC, TCRTC,
         RTCTC, TransitiveClosureChopLast, TransitiveClosureWF,
         WFInductiveDef, WFInductiveDefType, NatLessThanWellFounded,
         PreImageWellFounded, WFLexPairOrdering, WFLexProductOrdering,
         FS_NatSurjection, FS_NatBijection, FS_CountingElements,
         FS_SurjCardinalityBound, FS_CardinalityType, FS_Bijection,
         FS_SameCardinalityBij, FS_SurjSameCardinalityImpliesInj,
         FS_Surjection, FS_Image, FS_Injection, FS_PigeonHole,
         FS_RemoveElement, FS_Singleton, FS_Interval,
         FS_BoundedSetOfNaturals, FS_Induction, FS_FiniteSubsetsOfFinite,
         FS_StrictSubsetOrderingWellFounded, FS_WFInduction, FS_Union,
         FS_MajoritiesIntersect, FS_Intersection, FS_Difference, FS_UNION,
         FS_Product, FS_SUBSET, SetExtensionality, NoSetContainsEverything,
         BitMax, WordAndBit, WordBitUnique, TopOK, QueuedDef, AppendIs,
         TailElements, PushBuckets, PopBuckets, CountedEmpty, CountedPush,
         CountedPop, LocOrder, MaximalExists, ImageFinite, SurvivorsOK,
         OffsetsOK, PutHolds, CacheInsertHolds, StripOK, TipsFrame,
         HeadUnique, HeadExists, TipUnique, TipIsLast, CompactedTips,
         LocBySegment, InOrderKept, InOrderPush, InOrderPop

(* The layout of the log.                                                   *)

\* open() has found the end of the active segment.
Scanned == mode \in {"index", "replay", "up"}

\* The next frame goes behind the last one.  After a rotation that failed,
\* current_size stands for no frame, but is too large for anything but another
\* rotation.
ActiveOK ==
  Scanned =>
    /\ active_segment_id >= 1
    /\ \A s \in files : s <= active_segment_id
    /\ \A e \in log : e.seg = active_segment_id => e.off <= current_size
    /\ current_size < MaxSegmentSize =>
         \A k \in 1..current_size : \E e \in log : Loc(e) = <<active_segment_id, k>>

\* compact() works on segments that are closed for good.
CompactionOK ==
  /\ compaction = [pc |-> compaction.pc, closed |-> compaction.closed, offs |-> compaction.offs]
  /\ compaction.closed \subseteq Nat
  /\ compaction.pc # "idle" =>
       /\ mode = "up"
       /\ compaction.closed # {}
       /\ \A s \in compaction.closed : 1 <= s /\ s < active_segment_id

IsLog(L) == L \subseteq Entry /\ IsFiniteSet(L) /\ Unique(L) /\ Dense(L)

FilesOK == /\ files \subseteq Nat \ {0} /\ IsFiniteSet(files)
           /\ torn \subseteq Nat \X Nat
           /\ active_segment_id \in Nat /\ current_size \in Nat
           /\ \A e \in log : e.seg \in files

TempOK == IsLog(temp) /\ \A e \in temp : e.seg = 1

Layout == IsLog(log) /\ TempOK /\ FilesOK /\ ActiveOK /\ CompactionOK

\* The constants that the proofs need, out of the assumption on all of them.
LEMMA Bounds ==
  MAX_RETRIES \in Nat \ {0} /\ MaxSegmentSize \in Nat \ {0} /\ TTLs \subseteq Nat
  BY EngineAssumption

\* Where append puts the next frame, no frame is, and in front of it no gap.
LEMMA NextLocFree ==
  ASSUME Layout, mode = "up"
  PROVE  /\ NextSegment \in Nat \ {0} /\ NextOffset \in Nat \ {0} /\ NextLoc \in Nat \X Nat
         /\ active_segment_id <= NextSegment
         /\ \A s \in files : s <= NextSegment
         /\ \A e \in log : e.seg = NextSegment => e.off < NextOffset
         /\ \A k \in 1..(NextOffset - 1) : \E e \in log : Loc(e) = <<NextSegment, k>>
<1>1. /\ active_segment_id \in Nat /\ current_size \in Nat /\ MaxSegmentSize \in Nat
      /\ active_segment_id >= 1 /\ files \subseteq Nat
      /\ \A s \in files : s <= active_segment_id
      /\ \A e \in log : e.seg \in files /\ e.off \in Nat /\ e.seg \in Nat
      /\ \A e \in log : e.seg = active_segment_id => e.off <= current_size
  BY LocType, Bounds DEF Layout, FilesOK, ActiveOK, Scanned, IsLog
<1>2. CASE RotationDue
  <2>1. NextSegment = active_segment_id + 1 /\ NextOffset = 1
    BY <1>2 DEF NextSegment, NextOffset
  <2>2. \A e \in log : e.seg # NextSegment
    BY <1>1, <2>1
  <2> QED
    BY <1>1, <2>1, <2>2 DEF NextLoc
<1>3. CASE ~RotationDue
  <2>1. NextSegment = active_segment_id /\ NextOffset = current_size + 1
    BY <1>3 DEF NextSegment, NextOffset
  <2>2. \A k \in 1..current_size : \E e \in log : Loc(e) = <<active_segment_id, k>>
    BY <1>1, <1>3 DEF RotationDue, Layout, ActiveOK, Scanned
  <2> QED
    BY <1>1, <2>1, <2>2 DEF NextLoc
<1> QED
  BY <1>2, <1>3

(* append, called with the lock held.  (wal.rs:265-297)                      *)
LEMMA AppendLayout ==
  ASSUME Layout, mode = "up", NEW f \in Frame, WalAppend(f),
         UNCHANGED <<mode, temp, compaction>>
  PROVE  Layout'
<1> DEFINE x == [seg |-> NextSegment, off |-> NextOffset, frame |-> f]
<1>1. /\ x \in Entry /\ Loc(x) = NextLoc /\ x.seg = NextSegment /\ x.off = NextOffset
      /\ NextLoc = <<NextSegment, NextOffset>>
  BY NextLocFree DEF Entry, Loc, NextLoc
<1>2. /\ log' = log \cup {x} /\ files' = files \cup {NextSegment}
      /\ active_segment_id' = NextSegment /\ current_size' = NextOffset /\ torn' = torn
  BY DEF WalAppend
<1> HIDE DEF x
<1>3. \A e \in log : Loc(e) # Loc(x) /\ e.seg \in Nat /\ e.off \in Nat /\ Loc(e) = <<e.seg, e.off>>
  <2>1. \A e \in log : e.seg \in Nat /\ e.off \in Nat /\ Loc(e) = <<e.seg, e.off>>
    BY LocType DEF Layout, IsLog, Loc
  <2>2. \A e \in log : ~(e.seg = NextSegment /\ e.off = NextOffset)
    BY <2>1, NextLocFree
  <2> QED
    BY <1>1, <2>1, <2>2
<1>4. IsLog(log)'
  <2>1. log' \subseteq Entry /\ IsFiniteSet(log')
    BY <1>1, <1>2, FS_AddElement DEF Layout, IsLog
  <2>2. Unique(log')
    BY <1>2, <1>3 DEF Layout, IsLog, Unique
  <2>3. ASSUME NEW k \in 1..x.off PROVE \E g \in log' : Loc(g) = <<x.seg, k>>
    <3>1. k = NextOffset \/ k \in 1..(NextOffset - 1)
      BY <1>1, NextLocFree
    <3> QED
      BY <3>1, <1>1, <1>2, NextLocFree
  <2>4. Dense(log')
    BY SMTT(30), <1>1, <1>2, <2>3, NextLocFree DEF Layout, IsLog, Dense
  <2> QED
    BY <2>1, <2>2, <2>4 DEF IsLog
<1>5. FilesOK'
  BY <1>1, <1>2, NextLocFree, FS_AddElement DEF Layout, FilesOK
<1>6. ActiveOK'
  <2>1. \A e \in log' : e.seg = NextSegment => e.off <= NextOffset
    BY SMTT(30), <1>1, <1>2, <1>3, NextLocFree
  <2>2. \A k \in 1..NextOffset : \E e \in log' : Loc(e) = <<NextSegment, k>>
    <3> TAKE k \in 1..NextOffset
    <3>1. k = NextOffset \/ k \in 1..(NextOffset - 1)
      BY NextLocFree
    <3> QED
      BY <3>1, <1>1, <1>2, NextLocFree
  <2>3. \A s \in files' : s <= NextSegment
    BY <1>2, NextLocFree
  <2> QED
    BY <2>1, <2>2, <2>3, <1>2, NextLocFree DEF ActiveOK
<1>7. CompactionOK'
  BY <1>2, NextLocFree DEF Layout, CompactionOK, FilesOK
<1> QED
  BY <1>4, <1>5, <1>6, <1>7 DEF Layout, TempOK, IsLog

(* append returns an error: nothing was written, but a rotation may have     *)
(* started.                                                                  *)
LEMMA AppendFailsLayout ==
  ASSUME Layout, mode = "up", WalAppendFails, UNCHANGED <<mode, temp, compaction>>
  PROVE  Layout'
<1>1. CASE UNCHANGED walVars
  BY <1>1 DEF walVars, Layout, IsLog, TempOK, FilesOK, ActiveOK, CompactionOK, Scanned
<1>2. ASSUME RotationDue, active_segment_id' = NextSegment, UNCHANGED <<log, torn>>,
             \/ current_size' = 0 /\ files' = files \cup {NextSegment}
             \/ UNCHANGED <<current_size, files>>
      PROVE  Layout'
  <2>1. NextSegment = active_segment_id + 1 /\ NextSegment \in Nat \ {0} /\ active_segment_id \in Nat
        /\ MaxSegmentSize \in Nat /\ current_size \in Nat /\ current_size >= MaxSegmentSize
    BY <1>2, NextLocFree, Bounds DEF NextSegment, Layout, FilesOK, RotationDue
  <2>2. \A e \in log : e.seg # NextSegment
    <3>1. \A e \in log : e.seg \in Nat /\ e.seg <= active_segment_id
      BY LocType DEF Layout, FilesOK, ActiveOK, Scanned, IsLog
    <3> QED
      BY <2>1, <3>1
  <2>3. FilesOK'
    <3>1. IsFiniteSet(files \cup {NextSegment})
      BY FS_AddElement DEF Layout, FilesOK
    <3>2. files' \subseteq files \cup {NextSegment} /\ IsFiniteSet(files') /\ files \subseteq files'
      BY <1>2, <3>1 DEF Layout, FilesOK
    <3> QED
      BY SMTT(30), <1>2, <2>1, <3>2 DEF Layout, FilesOK
  <2>4. ActiveOK'
    <3>1. \A s \in files' : s <= NextSegment
      BY <1>2, NextLocFree, <2>1
    <3>2. \A e \in log' : e.seg # active_segment_id'
      BY <1>2, <2>2
    <3>3. ~(current_size' < MaxSegmentSize) \/ current_size' = 0
      BY <1>2, <2>1
    <3> QED
      BY <1>2, <2>1, <3>1, <3>2, <3>3 DEF ActiveOK
  <2>5. CompactionOK'
    BY <1>2, <2>1 DEF Layout, CompactionOK
  <2> QED
    BY <1>2, <2>3, <2>4, <2>5 DEF Layout, IsLog, TempOK
<1> QED
  BY <1>1, <1>2 DEF WalAppendFails

\* Steps that write no file.
LEMMA LayoutUnchanged ==
  ASSUME Layout, UNCHANGED <<log, torn, files, temp, active_segment_id, current_size>>,
         Scanned' => Scanned, CompactionOK'
  PROVE  Layout'
  BY DEF Layout, IsLog, TempOK, FilesOK, ActiveOK

(* Deleting a closed segment.                                                *)
LEMMA UnlinkLayout ==
  ASSUME Layout, NEW s \in files, Scanned => s < active_segment_id,
         files' = files \ {s}, log' = {e \in log : e.seg # s},
         UNCHANGED <<torn, temp, active_segment_id, current_size, mode, compaction>>
  PROVE  Layout'
<1>1. IsLog(log)'
  <2>1. log' \in SUBSET log
    OBVIOUS
  <2> QED
    BY <2>1, SubsetUnique, WithoutSegment DEF Layout, IsLog
<1>2. FilesOK'
  <2>1. files' \in SUBSET files
    OBVIOUS
  <2> QED
    BY <2>1, FS_Subset DEF Layout, FilesOK
<1>3. ActiveOK'
  <2> SUFFICES ASSUME Scanned PROVE ActiveOK'
    BY DEF ActiveOK, Scanned
  <2>1. ASSUME NEW k, NEW e \in log, Loc(e) = <<active_segment_id, k>> PROVE e \in log'
    <3>1. e.seg = active_segment_id /\ active_segment_id \in Nat /\ s \in Nat
      BY <2>1, LocType DEF Loc, Layout, FilesOK
    <3> QED
      BY <3>1
  <2> QED
    BY <2>1 DEF Layout, ActiveOK, Scanned
<1>4. CompactionOK'
  BY DEF Layout, CompactionOK
<1> QED
  BY <1>1, <1>2, <1>3, <1>4 DEF Layout, TempOK, IsLog

(* The steps of compact().                                                   *)
LEMMA CompactionLayout ==
  ASSUME Layout, Compaction
  PROVE  Layout'
<1>1. CASE plan_compaction
  <2>1. \A s \in ClosedSegments : s \in Nat /\ 1 <= s /\ s < active_segment_id
    BY DEF ClosedSegments, Layout, FilesOK
  <2>2. CompactionOK'
    BY <1>1, <2>1 DEF plan_compaction, CompactionOK, CanLock, process, walVars
  <2> QED
    BY <1>1, <2>2, LayoutUnchanged DEF plan_compaction, walVars, process, sideVars, Scanned
<1>2. CASE CompactWriteTemp
  <2> DEFINE L == InSegments(Readable(log, torn), compaction.closed)
  <2>1. L \in SUBSET log
    BY DEF InSegments, Readable
  <2>2. L \subseteq Entry /\ IsFiniteSet(L) /\ Unique(L)
    BY <2>1, SubsetUnique DEF Layout, IsLog
  <2>3. temp' = Compacted(L)
    BY <1>2 DEF CompactWriteTemp
  <2>4. TempOK'
    <3> HIDE DEF L
    <3> QED
      BY <2>2, <2>3, CompactedOK DEF TempOK, IsLog
  <2>5. CompactionOK'
    BY <1>2 DEF CompactWriteTemp, CompactionOK, Layout, process, walVars
  <2>6. UNCHANGED <<log, torn, files, active_segment_id, current_size, mode>>
    BY <1>2 DEF CompactWriteTemp, process, walVars
  <2> QED
    BY <2>4, <2>5, <2>6 DEF Layout, IsLog, FilesOK, ActiveOK, Scanned
<1>3. CASE CompactWritePlan
  <2>1. CompactionOK'
    BY <1>3 DEF CompactWritePlan, CompactStep, CompactionOK, Layout, process, walVars
  <2> QED
    BY <1>3, <2>1, LayoutUnchanged DEF CompactWritePlan, walVars, process, Scanned
<1>4. CASE CompactFails
  <2>1. CompactionOK'
    BY <1>4 DEF CompactFails, NoCompaction, CompactionOK
  <2> QED
    BY <1>4, <2>1, LayoutUnchanged DEF CompactFails, walVars, process, sideVars, Scanned
<1>5. CASE CompactRename
  <2>1. /\ log' = {e \in log : e.seg # 1} \cup temp /\ files' = files \cup {1} /\ temp' = {}
        /\ UNCHANGED <<torn, active_segment_id, current_size, mode>>
        /\ mode = "up" /\ compaction.pc = "plan"
    BY <1>5 DEF CompactRename, process, CanLock
  <2>2. active_segment_id \in Nat /\ 1 < active_segment_id
    <3>1. PICK s \in compaction.closed : s \in Nat /\ 1 <= s /\ s < active_segment_id
      BY <2>1 DEF Layout, CompactionOK
    <3> QED
      BY <3>1 DEF Layout, FilesOK
  <2>3. IsLog(log)'
    BY ZenonT(30), <2>1, ReplaceSegment DEF Layout, IsLog, TempOK
  <2>4. FilesOK'
    BY SMTT(30), <2>1, FS_AddElement DEF Layout, FilesOK, TempOK
  <2>5. TempOK'
    BY <2>1, FS_EmptySet DEF TempOK, IsLog, Unique, Dense
  <2>6. ActiveOK'
    <3>1. ASSUME NEW k, NEW e \in log, Loc(e) = <<active_segment_id, k>> PROVE e \in log'
      <4>1. e.seg = active_segment_id
        BY <3>1 DEF Loc
      <4> QED
        BY <4>1, <2>1, <2>2
    <3>2. \A e \in log' : e.seg = active_segment_id => e \in log
      BY <2>1, <2>2 DEF Layout, TempOK
    <3>3. \A s \in files' : s <= active_segment_id
      BY <2>1, <2>2 DEF Layout, ActiveOK, Scanned
    <3> QED
      BY <2>1, <3>1, <3>2, <3>3 DEF Layout, ActiveOK, Scanned
  <2>7. CompactionOK'
    BY <1>5, <2>1 DEF CompactRename, CompactStep, CompactionOK, Layout
  <2> QED
    BY <2>3, <2>4, <2>5, <2>6, <2>7 DEF Layout
<1>6. CASE CompactUnlink
  <2>1. PICK s \in Obsolete : files' = files \ {s} /\ log' = {e \in log : e.seg # s}
    BY <1>6 DEF CompactUnlink
  <2>2. s \in files /\ s < active_segment_id
    BY <1>6, <2>1 DEF Obsolete, CompactUnlink, Layout, CompactionOK
  <2> QED
    BY <1>6, <2>1, <2>2, UnlinkLayout DEF CompactUnlink, sideVars, process
<1>7. CASE CompactFinish
  <2>1. CompactionOK'
    BY <1>7 DEF CompactFinish, NoCompaction, CompactionOK
  <2> QED
    BY <1>7, <2>1, LayoutUnchanged DEF CompactFinish, walVars, process, Scanned
<1> QED
  BY <1>1, <1>2, <1>3, <1>4, <1>5, <1>6, <1>7 DEF Compaction

(* A kill, which may leave a file behind and a torn frame in it.             *)
LEMMA CrashLayout ==
  ASSUME Layout, Crash
  PROVE  Layout'
<1>1. /\ UNCHANGED <<log, temp>> /\ mode' = "down" /\ compaction' = NoCompaction
      /\ active_segment_id' = 0 /\ current_size' = 0
  BY DEF Crash, sideVars
<1>2. /\ files' \subseteq Nat \ {0} /\ IsFiniteSet(files') /\ files \subseteq files'
      /\ torn' \subseteq Nat \X Nat
  <2>1. CASE UNCHANGED <<torn, files>>
    BY <2>1 DEF Layout, FilesOK
  <2>2. CASE mode = "up" /\ files' = files \cup {NextSegment} /\ torn' \in {torn \cup {NextLoc}, torn}
    BY <2>2, NextLocFree, FS_AddElement DEF Layout, FilesOK
  <2> QED
    BY <2>1, <2>2 DEF Crash
<1>3. FilesOK'
  BY <1>1, <1>2 DEF Layout, FilesOK
<1>4. ActiveOK' /\ CompactionOK'
  BY <1>1 DEF ActiveOK, CompactionOK, Scanned, NoCompaction
<1> QED
  BY <1>1, <1>3, <1>4 DEF Layout, IsLog, TempOK

\* The segment that open() goes on with.
LastSegment == IF files = {} THEN 1 ELSE CHOOSE s \in files : \A r \in files : r <= s

\* open() finds the newest segment, if there is one.
LEMMA LastSegmentOK ==
  ASSUME Layout
  PROVE  LastSegment \in Nat \ {0} /\ \A r \in files : r <= LastSegment
<1>1. CASE files = {}
  BY <1>1 DEF LastSegment
<1>2. CASE files # {}
  <2>1. \E s \in files : \A r \in files : r <= s
    BY <1>2, LargestExists DEF Layout, FilesOK
  <2>2. LastSegment \in files /\ \A r \in files : r <= LastSegment
    BY <1>2, <2>1 DEF LastSegment
  <2> QED
    BY <2>2 DEF Layout, FilesOK
<1> QED
  BY <1>1, <1>2

(* The scan of open(): the size it computes for the last segment is where    *)
(* the next frame goes.                                                      *)
LEMMA ScanLayout ==
  ASSUME Layout, OpenScan
  PROVE  Layout'
<1> DEFINE last == LastSegment
           S == InSegments(Readable(log, torn), {last})
<1>1. /\ mode' = "index" /\ temp' = {} /\ files' = files \cup {last} /\ active_segment_id' = last
      /\ current_size' = Cardinality(S)
      /\ log' = {e \in log : e.seg # last \/ e \in Readable(log, torn)}
      /\ torn' = {t \in torn : t[1] # last} /\ compaction' = compaction /\ mode = "scan"
  BY DEF OpenScan, LastSegment, threads
<1>2. last \in Nat \ {0} /\ \A r \in files : r <= last
  BY LastSegmentOK
<1> HIDE DEF last
<1>3. IsLog(log)'
  <2>1. log' \in SUBSET log
    BY <1>1
  <2> QED
    BY SMTT(30), <1>1, <2>1, SubsetUnique, CutSegment DEF Layout, IsLog, FilesOK
<1>4. S = {e \in log' : e.seg = last}
  BY <1>1 DEF InSegments, Readable
<1>5. /\ Cardinality(S) \in Nat /\ \A e \in S : e.off <= Cardinality(S)
      /\ \A k \in 1..Cardinality(S) : \E e \in S : Loc(e) = <<last, k>>
  <2> HIDE DEF S
  <2>1. S \in SUBSET (log') /\ \A e \in S : e.seg = last
    BY <1>4
  <2>2. S \subseteq Entry /\ IsFiniteSet(S) /\ Unique(S) /\ Dense(S)
    BY <1>3, <1>4, <2>1, SubsetUnique, WithoutSegment DEF IsLog
  <2> QED
    BY <2>1, <2>2, SegmentCount
<1>6. FilesOK'
  <2> HIDE DEF S
  <2>1. IsFiniteSet(files \cup {last})
    BY FS_AddElement DEF Layout, FilesOK
  <2> QED
    BY <1>1, <1>2, <1>5, <2>1 DEF Layout, FilesOK
<1>7. ActiveOK'
  <2> HIDE DEF S
  <2>1. \A s \in files' : s <= last
    BY <1>1, <1>2
  <2> QED
    BY <1>1, <1>2, <1>4, <1>5, <2>1 DEF ActiveOK
<1>8. CompactionOK'
  BY <1>1 DEF Layout, CompactionOK
<1>9. TempOK'
  BY <1>1, FS_EmptySet DEF TempOK, IsLog, Unique, Dense
<1> QED
  BY <1>3, <1>6, <1>7, <1>8, <1>9 DEF Layout

\* The steps of open() and recover().
LEMMA OpenLayout ==
  ASSUME Layout, Open
  PROVE  Layout'
<1>0. ASSUME mode # "up", UNCHANGED compaction PROVE CompactionOK'
  BY <1>0 DEF Layout, CompactionOK
<1>1. CASE OpenDiscardTemp
  <2>1. TempOK'
    BY <1>1, FS_EmptySet DEF OpenDiscardTemp, TempOK, IsLog, Unique, Dense
  <2>2. UNCHANGED <<log, files, torn, active_segment_id, current_size, compaction>>
        /\ mode' = "discard" /\ mode = "down"
    BY <1>1 DEF OpenDiscardTemp, Opening, threads
  <2> QED
    BY <2>1, <2>2, <1>0 DEF Layout, IsLog, FilesOK, ActiveOK, Scanned
<1>2. CASE OpenUnlink
  <2>1. PICK s \in files : files' = files \ {s} /\ log' = {e \in log : e.seg # s}
    BY <1>2 DEF OpenUnlink
  <2>2. ~Scanned
    BY <1>2 DEF OpenUnlink, Scanned
  <2> QED
    BY <1>2, <2>1, <2>2, UnlinkLayout DEF OpenUnlink, sideVars, Opening, threads
<1>3. CASE OpenDiscardPlan \/ OpenUnlinked \/ OpenNoPlan
  BY <1>3, <1>0, LayoutUnchanged
     DEF OpenDiscardPlan, OpenUnlinked, OpenNoPlan, Opening, threads, sideVars, Scanned
<1>4. CASE OpenScan
  BY <1>4, ScanLayout
<1>5. CASE RecoverIndex \/ RecoverDone
  <2>1. /\ mode # "up" /\ Scanned /\ Scanned'
        /\ UNCHANGED <<log, files, torn, temp, active_segment_id, current_size, compaction>>
    BY <1>5 DEF RecoverIndex, RecoverDone, Recovering, walVars, sideVars, threads, Scanned
  <2> QED
    BY <2>1, <1>0, LayoutUnchanged
<1>6. CASE ReplayReady \/ ReplayLeased \/ ReplayTerminal
  <2>1. Replaying /\ Recovering' = Recovering /\ UNCHANGED mode
    BY <1>6 DEF ReplayReady, ReplayLeased, ReplayTerminal, ReplayAs
  <2> QED
    BY <2>1, <1>0, LayoutUnchanged DEF Replaying, Recovering, walVars, sideVars, threads, Scanned
<1> QED
  BY <1>1, <1>2, <1>3, <1>4, <1>5, <1>6 DEF Open

HIDE DEF UnlinkLayout, ScanLayout

-----------------------------------------------------------------------------
(* The inductive invariant of the storage engine, and that the calls of    *)
(* producers and consumers, and the reads made for them, keep it.          *)

(* What a task may look like wherever the engine keeps it, K being the ids  *)
(* that push has given out.                                                 *)

TaskOK(t, K) == t \in TaskRef /\ t.retries < MAX_RETRIES /\ t.id \in K

\* A record: the last one of a task is what recover() goes by.
FrameOK(f, K) == /\ f.id \in K
                 /\ f.op = "Leased" => f.consumer \in Consumers
                 /\ f.op \notin Terminal => f.retries < MAX_RETRIES

QueueOK(q, K) == q \in Queue /\ BitmapMatches(q) /\ \A t \in Queued(q) : TaskOK(t, K)

LeasesOK(l, K) == /\ l \in [DOMAIN l -> LeaseInfo] /\ DOMAIN l \subseteq Nat \cap K
                  /\ \A id \in DOMAIN l : l[id].retries < MAX_RETRIES

\* What push writes is a record.
LEMMA CreatedFrameType ==
  ASSUME NEW id \in Nat, NEW p \in Priorities, NEW d \in Nat
  PROVE  CreatedFrame(id, p, d) \in Frame
  BY DEF CreatedFrame, Frame, OpType

\* What ack writes is a record.
LEMMA AckedFrameType ==
  ASSUME NEW id \in Nat, NEW p \in Priorities
  PROVE  AckedFrame(id, p) \in Frame
  BY DEF AckedFrame, Frame, OpType, Terminal, NoData

\* What nack and the expiration thread write is a record.
LEMMA FailedFrameType ==
  ASSUME NEW id \in Nat, NEW p \in Priorities, NEW r \in Nat, NEW op \in OpType
  PROVE  FailedFrame(id, op, p, r) \in Frame
  BY DEF FailedFrame, Frame, NoData

\* What pop_and_lease writes is a record.
LEMMA LeasedFrameType ==
  ASSUME NEW t \in TaskRef, NEW c \in Consumers, NEW x \in Nat
  PROVE  LeasedFrame(t, c, x) \in Frame
  BY DEF LeasedFrame, Frame, OpType, TaskRef, NoData

\* A new ready_queue holds no task.
LEMMA QueueOKEmpty ==
  ASSUME NEW K
  PROVE  QueueOK(EmptyQueue, K)
  BY EmptyQueueOK, EmptyHasNone DEF QueueOK

\* Pushing a task to ready_queue; M may know more ids than K.
LEMMA QueueOKPush ==
  ASSUME NEW K, NEW M, K \subseteq M, NEW q, QueueOK(q, K), NEW t, TaskOK(t, M)
  PROVE  QueueOK(QueuePush(q, t), M)
<1>1. q \in Queue /\ BitmapMatches(q) /\ t \in TaskRef /\ \A u \in Queued(q) : TaskOK(u, M)
  BY DEF QueueOK, TaskOK
<1>2. Queued(QueuePush(q, t)) = Queued(q) \cup {t}
  BY <1>1, QueuedPush
<1>3. QueuePush(q, t) \in Queue /\ BitmapMatches(QueuePush(q, t))
  BY <1>1, PushOK
<1> QED
  BY <1>1, <1>2, <1>3 DEF QueueOK

\* Popping a task off ready_queue.
LEMMA QueueOKPop ==
  ASSUME NEW K, NEW q, QueueOK(q, K), HasTask(q)
  PROVE  QueueOK(QueuePop(q), K) /\ TaskOK(QueueFront(q), K)
<1>1. q \in Queue /\ BitmapMatches(q)
  BY DEF QueueOK
<1>2. QueueFront(q) \in Queued(q) /\ Queued(QueuePop(q)) \subseteq Queued(q)
  BY <1>1, PopTakes
<1>3. QueuePop(q) \in Queue /\ BitmapMatches(QueuePop(q))
  BY <1>1, PopOK
<1> QED
  BY <1>2, <1>3 DEF QueueOK

\* A new process has no leases.
LEMMA LeasesOKEmpty ==
  ASSUME NEW K
  PROVE  LeasesOK(EmptyMap, K)
  BY DEF LeasesOK, EmptyMap

\* Taking a lease.
LEMMA LeasesOKPut ==
  ASSUME NEW K, NEW l, LeasesOK(l, K), NEW id \in Nat \cap K, NEW v \in LeaseInfo,
         v.retries < MAX_RETRIES
  PROVE  LeasesOK(Put(l, id, v), K)
<1> DEFINE g == Put(l, id, v)
<1>1. g \in [DOMAIN g -> LeaseInfo] /\ DOMAIN g = DOMAIN l \cup {id}
      /\ g[id] = v /\ \A x \in DOMAIN l \ {id} : g[x] = l[x]
  BY DEF Put, LeasesOK
<1> HIDE DEF g
<1> QED
  BY <1>1 DEF LeasesOK, g

\* Ending a lease.
LEMMA LeasesOKDrop ==
  ASSUME NEW K, NEW l, LeasesOK(l, K), NEW id
  PROVE  LeasesOK(Drop(l, id), K)
<1> DEFINE g == Drop(l, id)
<1>1. g \in [DOMAIN g -> LeaseInfo] /\ DOMAIN g = DOMAIN l \ {id}
      /\ \A x \in DOMAIN l \ {id} : g[x] = l[x]
  BY DEF Drop, LeasesOK
<1> HIDE DEF g
<1> QED
  BY <1>1 DEF LeasesOK, g

-----------------------------------------------------------------------------
Known == {pushed[n] : n \in DOMAIN pushed}

TasksOK == /\ \A e \in log \cup temp : FrameOK(e.frame, Known)
           /\ QueueOK(ready_queue, Known)
           /\ LeasesOK(leased, Known)
           /\ \A t \in expired_tasks : TaskOK(t, Known)
           /\ entries \subseteq Known
           /\ pushed \in Seq(Nat)

IsIndex(ix) == ix \in [DOMAIN ix -> Nat \X Nat] /\ DOMAIN ix \subseteq Nat

\* While recover() replays, the index of what is left leads into the log.
IndexOK == /\ IsIndex(index) /\ IsIndex(data_index) /\ next_id \in Nat
           /\ mode = "replay" => \A id \in entries : /\ id \in DOMAIN index
                                                     /\ \E e \in log : Loc(e) = index[id]

Pop == [pc : {"idle", "reading", "ok", "err"}, id : Nat, loc : Nat \X Nat, tries : 0..2,
        data : Nat]

RestOK == /\ sides \in SUBSET {"compacting", "plan"} /\ planned \in SUBSET Nat
          /\ IsCache(payload_cache)
          /\ lock \in {"free", "expire", "compact"}
          /\ pops \in [Consumers -> Pop]
          /\ compaction.pc \in {"idle", "scan", "temp", "plan", "swap"}
          /\ compaction.offs \in [DOMAIN compaction.offs -> Nat]
          /\ unlinked \in SUBSET Entry
          /\ mode \in {"down", "discard", "scan", "index", "replay", "up"}
          /\ now \in Nat
          /\ acked \in SUBSET Nat /\ dead \in SUBSET Nat /\ stranded \in SUBSET Nat
          /\ crashes \in Nat /\ compactions \in Nat /\ faults \in Nat

IInv == Layout /\ TasksOK /\ IndexOK /\ RestOK

\* An index after an insert.
LEMMA IndexPut ==
  ASSUME NEW ix, IsIndex(ix), NEW id \in Nat, NEW v \in Nat \X Nat
  PROVE  IsIndex(Put(ix, id, v))
  BY DEF IsIndex, Put

\* An index after a remove.
LEMMA IndexDrop ==
  ASSUME NEW ix, IsIndex(ix), NEW id
  PROVE  IsIndex(Drop(ix, id))
  BY DEF IsIndex, Drop

\* The ids given out are numbers.
LEMMA KnownNat ==
  ASSUME TasksOK
  PROVE  Known \subseteq Nat
<1>1. \A n \in DOMAIN pushed : pushed[n] \in Nat
  BY DEF TasksOK
<1> QED
  BY <1>1 DEF Known

(* The history variables are about pushes that happened.                     *)
LEMMA LatestPush ==
  ASSUME NEW P \in Seq(Nat), NEW id, \E n \in DOMAIN P : P[n] = id
  PROVE  \E n \in DOMAIN P : P[n] = id /\ \A m \in DOMAIN P : P[m] = id => m <= n
<1> DEFINE T == {Len(P) - n : n \in {m \in DOMAIN P : P[m] = id}}
<1>1. Len(P) \in Nat /\ DOMAIN P = 1..Len(P)
  OBVIOUS
<1>2. T \subseteq Nat /\ T # {}
  BY <1>1
<1>3. PICK k \in T : \A j \in T : k <= j
  <2> HIDE DEF T
  <2> QED
    BY <1>2, NatMin
<1>4. PICK n \in DOMAIN P : P[n] = id /\ k = Len(P) - n
  OBVIOUS
<1>5. ASSUME NEW m \in DOMAIN P, P[m] = id PROVE m <= n
  <2>1. Len(P) - m \in T
    BY <1>5
  <2>2. k <= Len(P) - m
    BY <2>1, <1>3
  <2> HIDE DEF T
  <2> QED
    BY <2>2, <1>1, <1>4
<1> QED
  BY <1>4, <1>5

\* An id that was given out belongs to the last push that it was given to.
LEMMA PushOfOK ==
  ASSUME TasksOK, NEW id \in Known
  PROVE  /\ PushOf(id) \in Nat /\ PushOf(id) \in DOMAIN pushed /\ pushed[PushOf(id)] = id
         /\ \A m \in DOMAIN pushed : pushed[m] = id => m <= PushOf(id)
<1>1. pushed \in Seq(Nat) /\ DOMAIN pushed \subseteq Nat /\ \E n \in DOMAIN pushed : pushed[n] = id
  BY DEF TasksOK, Known
<1>2. \E n \in DOMAIN pushed : pushed[n] = id /\ \A m \in DOMAIN pushed : pushed[m] = id => m <= n
  BY <1>1, LatestPush
<1>3. /\ PushOf(id) \in DOMAIN pushed /\ pushed[PushOf(id)] = id
      /\ \A m \in DOMAIN pushed : pushed[m] = id => m <= PushOf(id)
  BY <1>2 DEF PushOf
<1> QED
  BY <1>1, <1>3

\* Steps that add no record and no task.
LEMMA TasksUnchanged ==
  ASSUME TasksOK, log' \subseteq log \cup temp, temp' \subseteq temp, entries' \subseteq entries,
         expired_tasks' \subseteq expired_tasks, UNCHANGED <<ready_queue, leased, pushed>>
  PROVE  TasksOK'
<1>1. Known' = Known
  BY DEF Known
<1> QED
  BY <1>1 DEF TasksOK

\* Steps that append one record.
LEMMA TasksAppend ==
  ASSUME TasksOK, NEW f, WalAppend(f), FrameOK(f, Known), QueueOK(ready_queue', Known),
         LeasesOK(leased', Known), expired_tasks' \subseteq expired_tasks,
         UNCHANGED <<temp, entries, pushed>>
  PROVE  TasksOK'
<1>1. Known' = Known
  BY DEF Known
<1>2. \A e \in log' : e \in log \/ e.frame = f
  BY DEF WalAppend
<1> QED
  BY <1>1, <1>2 DEF TasksOK

(* nack and the expiration thread, which goes by its own snapshot of the     *)
(* lease: the retries it adds one to are below the bound.                    *)
LEMMA FailureOK ==
  ASSUME IInv, mode = "up", NEW id \in Known, NEW p \in Priorities, NEW r \in Nat,
         NEW op \in {"Nacked", "Expired"}, process_task_failure(id, p, r, op),
         expired_tasks' \subseteq expired_tasks,
         UNCHANGED <<temp, entries, pushed, mode, compaction>>
  PROVE  Layout' /\ TasksOK' /\ dead' \in SUBSET Nat /\ IsCache(payload_cache')
         /\ IsIndex(index') /\ IsIndex(data_index')
<1> DEFINE new_op == IF Exhausted(r) THEN "DeadLettered" ELSE op
           f == FailedFrame(id, new_op, p, r + 1)
<1>1. id \in Nat /\ r + 1 \in Nat /\ NextLoc \in Nat \X Nat
  BY SMTT(30), KnownNat, NextLocFree DEF IInv
<1>2. f \in Frame
  BY <1>1, FailedFrameType DEF OpType, Terminal
<1>3. WalAppend(f) /\ index' = Put(index, id, NextLoc) /\ leased' = Drop(leased, id)
  BY DEF process_task_failure
<1>4. FrameOK(f, Known)
  BY Bounds, <1>1 DEF FrameOK, FailedFrame, Terminal, Exhausted
<1> HIDE DEF f
<1>5. Layout'
  BY <1>2, <1>3, AppendLayout DEF IInv
<1>6. LeasesOK(leased', Known)
  BY <1>3, LeasesOKDrop DEF IInv, TasksOK
<1>7. QueueOK(ready_queue', Known)
  <2>1. CASE Exhausted(r)
    BY <2>1 DEF process_task_failure, IInv, TasksOK
  <2>2. CASE ~Exhausted(r)
    <3> DEFINE t == [id |-> id, priority |-> p, retries |-> r + 1]
    <3>1. TaskOK(t, Known)
      BY <2>2, <1>1, Bounds DEF TaskOK, TaskRef, Exhausted
    <3>2. ready_queue' = QueuePush(ready_queue, t)
      BY <2>2 DEF process_task_failure
    <3> HIDE DEF t
    <3> QED
      BY <3>1, <3>2, QueueOKPush DEF IInv, TasksOK
  <2> QED
    BY <2>1, <2>2
<1>8. TasksOK'
  BY <1>3, <1>4, <1>6, <1>7, TasksAppend DEF IInv
<1>9. dead' \in SUBSET Nat
  <2>1. dead \in SUBSET Nat
    BY DEF IInv, RestOK
  <2>2. PushOf(id) \in Nat
    BY PushOfOK DEF IInv
  <2>3. dead' = dead \cup {PushOf(id)} \/ dead' = dead
    BY DEF process_task_failure
  <2> QED
    BY <2>1, <2>2, <2>3
<1>10. IsCache(payload_cache')
  <2>1. IsCache(CacheRemove(payload_cache, id))
    BY CacheType DEF IInv, RestOK
  <2> QED
    BY <2>1 DEF process_task_failure, IInv, RestOK
<1>11. IsIndex(index')
  BY <1>1, <1>3, IndexPut DEF IInv, IndexOK
<1>12. IsIndex(data_index')
  <2>1. IsIndex(Drop(data_index, id))
    BY IndexDrop DEF IInv, IndexOK
  <2> QED
    BY <2>1 DEF process_task_failure, IInv, IndexOK
<1> QED
  BY <1>5, <1>8, <1>9, <1>10, <1>11, <1>12

HIDE DEF LatestPush

-----------------------------------------------------------------------------
(* The steps, one by one.                                                   *)

\* push
LEMMA PushStep ==
  ASSUME IInv, NEW p \in Priorities, Push(p)
  PROVE  IInv'
<1> DEFINE n == Len(pushed) + 1
           f == CreatedFrame(next_id, p, n)
           t == [id |-> next_id, priority |-> p, retries |-> 0]
<1>1. /\ mode = "up" /\ WalAppend(f) /\ pushed' = Append(pushed, next_id)
      /\ ready_queue' = QueuePush(ready_queue, t)
      /\ index' = Put(index, next_id, NextLoc) /\ data_index' = Put(data_index, next_id, NextLoc)
      /\ payload_cache' = CacheInsert(payload_cache, next_id, n) /\ next_id' = next_id + 1
      /\ UNCHANGED <<leased, sides, temp, planned, lock, expired_tasks, pops, compaction, unlinked,
                     mode, entries, now, acked, dead, stranded, crashes, compactions, faults>>
  BY DEF Push, CanLock, sideVars, threads, process, counters
<1>2. next_id \in Nat /\ n \in Nat /\ NextLoc \in Nat \X Nat /\ pushed \in Seq(Nat)
  <2>1. next_id \in Nat /\ pushed \in Seq(Nat) /\ Layout /\ mode = "up"
    BY Zenon, <1>1 DEF IInv, IndexOK, TasksOK
  <2>2. NextLoc \in Nat \X Nat
    BY Zenon, <2>1, NextLocFree
  <2>3. n \in Nat
    BY SMTT(30), <2>1
  <2> QED
    BY Zenon, <2>1, <2>2, <2>3
<1>3. f \in Frame
  BY <1>2, CreatedFrameType
<1>4. Known' = Known \cup {next_id} /\ pushed' \in Seq(Nat)
  <2>1. DOMAIN pushed = 1..Len(pushed) /\ DOMAIN pushed' = 1..n /\ pushed'[n] = next_id
        /\ \A i \in 1..Len(pushed) : pushed'[i] = pushed[i]
    <3>1. pushed' = Append(pushed, next_id) /\ pushed \in Seq(Nat) /\ next_id \in Nat
      BY Zenon, <1>1, <1>2
    <3> QED
      BY SMTT(30), <3>1, AppendElements
  <2>2. \A i \in 1..n : i \in 1..Len(pushed) \/ i = n
    BY <1>2
  <2>3. n \in 1..n /\ \A i \in 1..Len(pushed) : i \in 1..n
    BY <1>2
  <2> HIDE DEF n
  <2>4. Known' = Known \cup {next_id}
    BY <2>1, <2>2, <2>3 DEF Known
  <2> QED
    BY <2>4, <1>1, <1>2
<1>5. FrameOK(f, Known') /\ TaskOK(t, Known')
  BY <1>2, <1>4, Bounds DEF FrameOK, TaskOK, TaskRef, CreatedFrame
<1> HIDE DEF f, t, n
<1>6. Layout'
  BY <1>1, <1>3, AppendLayout DEF IInv
<1>7. TasksOK'
  <2>1. QueueOK(ready_queue', Known')
    BY <1>1, <1>4, <1>5, QueueOKPush DEF IInv, TasksOK
  <2>2. LeasesOK(leased', Known')
    BY <1>1, <1>4 DEF LeasesOK, IInv, TasksOK
  <2>3. \A e \in log' \cup temp' : FrameOK(e.frame, Known')
    <3>1. \A e \in log' \cup temp' : e \in log \cup temp \/ e.frame = f
      BY SMTT(30), <1>1 DEF WalAppend
    <3> QED
      BY <3>1, <1>4, <1>5 DEF IInv, TasksOK, FrameOK
  <2>4. \A x \in expired_tasks' : TaskOK(x, Known')
    BY <1>1, <1>4 DEF IInv, TasksOK, TaskOK
  <2>5. entries' \subseteq Known'
    BY <1>1, <1>4 DEF IInv, TasksOK
  <2> QED
    BY <2>1, <2>2, <2>3, <2>4, <2>5, <1>4 DEF TasksOK
<1>8. IndexOK'
  BY SMTT(30), <1>1, <1>2, IndexPut DEF IInv, IndexOK
<1>9. RestOK'
  <2>1. IsCache(payload_cache')
    BY <1>1, <1>2, CacheType DEF IInv, RestOK
  <2> QED
    BY <2>1, <1>1 DEF IInv, RestOK
<1> QED
  BY <1>6, <1>7, <1>8, <1>9 DEF IInv

\* ack
LEMMA AckStep ==
  ASSUME IInv, NEW c, NEW id \in DOMAIN leased, Ack(c, id)
  PROVE  IInv'
<1> DEFINE f == AckedFrame(id, leased[id].priority)
<1>1. /\ mode = "up" /\ WalAppend(f) /\ leased' = Drop(leased, id)
      /\ index' = Put(index, id, NextLoc) /\ data_index' = Drop(data_index, id)
      /\ payload_cache' = CacheRemove(payload_cache, id) /\ acked' = acked \cup {PushOf(id)}
      /\ UNCHANGED <<next_id, ready_queue, sides, temp, planned, lock, expired_tasks, pops, compaction,
                     unlinked, mode, entries, now, pushed, dead, stranded, crashes, compactions, faults>>
  BY DEF Ack, CanLock, sideVars, threads, process, counters
<1>2. id \in Nat /\ id \in Known /\ leased[id] \in LeaseInfo
  BY DEF IInv, TasksOK, LeasesOK
<1>3. f \in Frame /\ FrameOK(f, Known)
  BY <1>2, AckedFrameType DEF LeaseInfo, FrameOK, AckedFrame, Terminal
<1> HIDE DEF f
<1>4. Layout'
  BY <1>1, <1>3, AppendLayout DEF IInv
<1>5. TasksOK'
  <2>1. LeasesOK(leased', Known) /\ QueueOK(ready_queue', Known)
    BY <1>1, LeasesOKDrop DEF IInv, TasksOK
  <2> QED
    BY <1>1, <1>3, <2>1, TasksAppend DEF IInv
<1>6. IndexOK'
  <2>1. NextLoc \in Nat \X Nat
    BY <1>1, NextLocFree DEF IInv
  <2> QED
    BY <1>1, <1>2, <2>1, IndexPut, IndexDrop DEF IInv, IndexOK
<1>7. RestOK'
  <2>1. IsCache(payload_cache')
    BY <1>1, CacheType DEF IInv, RestOK
  <2>2. PushOf(id) \in Nat
    BY <1>2, PushOfOK DEF IInv
  <2> QED
    BY <2>1, <2>2, <1>1 DEF IInv, RestOK
<1> QED
  BY <1>4, <1>5, <1>6, <1>7 DEF IInv

\* nack
LEMMA NackStep ==
  ASSUME IInv, NEW c, NEW id \in DOMAIN leased, Nack(c, id)
  PROVE  IInv'
<1>1. /\ mode = "up" /\ process_task_failure(id, leased[id].priority, leased[id].retries, "Nacked")
      /\ UNCHANGED <<next_id, sides, temp, planned, lock, expired_tasks, pops, compaction, unlinked,
                     mode, entries, now, pushed, acked, stranded, crashes, compactions, faults>>
  BY DEF Nack, CanLock, sideVars, threads, process, counters
<1>2. id \in Known /\ leased[id].priority \in Priorities /\ leased[id].retries \in Nat
  BY DEF IInv, TasksOK, LeasesOK, LeaseInfo
<1>3. /\ Layout' /\ TasksOK' /\ dead' \in SUBSET Nat /\ IsCache(payload_cache')
      /\ IsIndex(index') /\ IsIndex(data_index')
  BY <1>1, <1>2, FailureOK
<1>4. IndexOK' /\ RestOK'
  BY <1>1, <1>3 DEF IInv, IndexOK, RestOK
<1> QED
  BY <1>3, <1>4 DEF IInv

\* pop_and_lease, up to where it lets go of the lock.
LEMMA PopStep ==
  ASSUME IInv, NEW c \in Consumers, NEW ttl \in TTLs, PopAndLease(c, ttl)
  PROVE  IInv'
<1> DEFINE t == QueueFront(ready_queue)
           x == now + ttl
           f == LeasedFrame(t, c, x)
           v == [consumer_id |-> c, expire_timestamp |-> x, retries |-> t.retries,
                 priority |-> t.priority]
<1>1. /\ mode = "up" /\ HasTask(ready_queue) /\ WalAppend(f)
      /\ ready_queue' = QueuePop(ready_queue) /\ leased' = Put(leased, t.id, v)
      /\ index' = Put(index, t.id, NextLoc)
      /\ UNCHANGED <<next_id, data_index, payload_cache, sides, temp, planned, lock, expired_tasks,
                     compaction, unlinked, mode, entries, now, pushed, acked, dead, stranded,
                     crashes, compactions, faults>>
  BY DEF PopAndLease, CanLock, sideVars, process, history, counters
<1>2. TaskOK(t, Known) /\ QueueOK(ready_queue', Known)
  BY <1>1, QueueOKPop DEF IInv, TasksOK
<1>3. pops' \in [Consumers -> Pop]
  <2> DEFINE known == t.id \in DOMAIN data_index
             hit == t.id \in DOMAIN payload_cache.entries
             loc == IF known /\ ~hit THEN data_index[t.id] ELSE <<0, 0>>
             data == IF known /\ hit THEN payload_cache.entries[t.id] ELSE NoData
             pc == IF ~known THEN "err" ELSE IF hit THEN "ok" ELSE "reading"
  <2>1. t.id \in Nat
    BY <1>2 DEF TaskOK, TaskRef
  <2>2. loc \in Nat \X Nat
    BY DEF IInv, IndexOK, IsIndex
  <2>3. data \in Nat
    BY DEF IInv, RestOK, IsCache, NoData
  <2>4. pops' = [pops EXCEPT ![c] = [pc |-> pc, id |-> t.id, loc |-> loc, tries |-> 0, data |-> data]]
    BY DEF PopAndLease
  <2>5. pc \in {"ok", "err", "reading"}
    OBVIOUS
  <2> HIDE DEF loc, data, pc, t, known, hit, f, v, x
  <2>6. [pc |-> pc, id |-> t.id, loc |-> loc, tries |-> 0, data |-> data] \in Pop
    <3>1. 0 \in 0..2
      OBVIOUS
    <3> QED
      BY <3>1, <2>1, <2>2, <2>3, <2>5 DEF Pop
  <2> QED
    BY <2>4, <2>6 DEF IInv, RestOK
<1> HIDE DEF t
<1>4. /\ t \in TaskRef /\ t.id \in Nat \cap Known /\ t.retries \in Nat /\ t.retries < MAX_RETRIES
      /\ t.priority \in Priorities /\ x \in Nat /\ NextLoc \in Nat \X Nat
  <2>1. t \in TaskRef /\ t.retries < MAX_RETRIES /\ t.id \in Known
    BY <1>2 DEF TaskOK
  <2>2. t.id \in Nat /\ t.retries \in Nat /\ t.priority \in Priorities
    BY <2>1 DEF TaskRef
  <2>3. now \in Nat
    BY DEF IInv, RestOK
  <2>4. x \in Nat
    BY <2>3, Bounds
  <2>5. NextLoc \in Nat \X Nat
    BY <1>1, NextLocFree DEF IInv
  <2> QED
    BY <2>1, <2>2, <2>4, <2>5
<1>5. v \in LeaseInfo /\ v.retries < MAX_RETRIES
  BY <1>4 DEF LeaseInfo
<1>6. f \in Frame /\ FrameOK(f, Known)
  BY <1>4, LeasedFrameType DEF FrameOK, LeasedFrame
<1> HIDE DEF f, v, x
<1>7. Layout'
  BY <1>1, <1>6, AppendLayout DEF IInv
<1>8. LeasesOK(leased', Known)
  BY <1>1, <1>4, <1>5, LeasesOKPut DEF IInv, TasksOK
<1>9. TasksOK'
  BY <1>1, <1>2, <1>6, <1>8, TasksAppend DEF IInv
<1>10. IndexOK'
  BY <1>1, <1>4, IndexPut DEF IInv, IndexOK
<1>11. RestOK'
  BY <1>1, <1>3 DEF IInv, RestOK
<1> QED
  BY <1>7, <1>9, <1>10, <1>11 DEF IInv

(* A call whose append failed.                                               *)
LEMMA FailedCallStep ==
  ASSUME IInv, PushFails \/ PopFails \/ AckOrNackFails \/ \E t \in expired_tasks : ExpireFails(t)
  PROVE  IInv'
<1>1. /\ mode = "up" /\ WalAppendFails
      /\ UNCHANGED <<index, data_index, leased, payload_cache, sides, temp, planned, pops, compaction,
                     unlinked, mode, entries, now, pushed, acked, dead, crashes, compactions>>
  BY DEF PushFails, PopFails, AckOrNackFails, ExpireFails, CanLock, memVars, sideVars, threads,
         process, history
<1>2. /\ next_id' \in {next_id, next_id + 1} /\ expired_tasks' \subseteq expired_tasks
      /\ lock' \in {lock, "free", "expire"}
  BY DEF PushFails, PopFails, AckOrNackFails, ExpireFails, memVars, threads
<1>3. QueueOK(ready_queue', Known) /\ stranded' \in SUBSET Nat
  <2>1. CASE PopFails
    <3>1. /\ HasTask(ready_queue) /\ ready_queue' = QueuePop(ready_queue)
          /\ stranded' = stranded \cup {QueueFront(ready_queue).id}
      BY <2>1 DEF PopFails
    <3>2. QueueOK(ready_queue', Known) /\ TaskOK(QueueFront(ready_queue), Known)
      BY <3>1, QueueOKPop DEF IInv, TasksOK
    <3>3. QueueFront(ready_queue).id \in Nat
      BY <3>2 DEF TaskOK, TaskRef
    <3> QED
      BY <3>1, <3>2, <3>3 DEF IInv, RestOK
  <2>2. CASE UNCHANGED <<ready_queue, stranded>>
    BY <2>2 DEF IInv, TasksOK, RestOK
  <2> QED
    BY <2>1, <2>2 DEF PushFails, AckOrNackFails, ExpireFails, memVars, history
<1>4. Layout'
  BY <1>1, AppendFailsLayout DEF IInv
<1>5. log' = log /\ faults' \in Nat
  <2>1. faults \in Nat
    BY DEF IInv, RestOK
  <2> QED
    BY <1>1, <2>1 DEF WalAppendFails, walVars
<1>6. TasksOK'
  <2>1. Known' = Known
    BY <1>1 DEF Known
  <2> QED
    BY <2>1, <1>1, <1>2, <1>3, <1>5 DEF IInv, TasksOK
<1>7. IndexOK'
  BY <1>1, <1>2 DEF IInv, IndexOK
<1>8. RestOK'
  BY <1>1, <1>2, <1>3, <1>5 DEF IInv, RestOK
<1> QED
  BY <1>4, <1>6, <1>7, <1>8 DEF IInv

\* Steps that change nothing that the other conjuncts are about.
LEMMA RestStep ==
  ASSUME IInv, RestOK', UNCHANGED <<log, torn, files, temp, active_segment_id, current_size>>,
         UNCHANGED <<next_id, index, data_index, ready_queue, leased, expired_tasks, compaction,
                     mode, entries, pushed>>
  PROVE  IInv'
<1>1. Layout'
  BY DEF IInv, Layout, IsLog, TempOK, FilesOK, ActiveOK, CompactionOK, Scanned
<1>2. TasksOK'
  BY TasksUnchanged DEF IInv
<1>3. IndexOK'
  BY DEF IInv, IndexOK
<1> QED
  BY <1>1, <1>2, <1>3 DEF IInv

\* pop_and_lease, the read of the payload.
LEMMA ReaderStep ==
  ASSUME IInv, Reader
  PROVE  IInv'
<1>0. pops \in [Consumers -> Pop] /\ <<0, 0>> \in Nat \X Nat /\ 0 \in 0..2
  BY SMTT(30) DEF IInv, RestOK
<1>1. ASSUME NEW c \in Consumers, NEW pc \in {"ok", "err"}, NEW d \in Nat, Answer(c, pc, d)
      PROVE  IInv'
  <2>1. pops' \in [Consumers -> Pop]
    <3>1. pops' = [pops EXCEPT ![c] = [pc |-> pc, id |-> pops[c].id, loc |-> <<0, 0>>, tries |-> 0,
                                       data |-> d]]
      BY <1>1 DEF Answer
    <3>2. [pc |-> pc, id |-> pops[c].id, loc |-> <<0, 0>>, tries |-> 0, data |-> d] \in Pop
      BY <1>0 DEF Pop
    <3> QED
      BY <3>1, <3>2, <1>0
  <2>2. RestOK'
    BY <1>1, <2>1 DEF Answer, IInv, RestOK, memVars, sideVars, process, history, counters
  <2> QED
    BY <1>1, <2>2, RestStep DEF Answer, walVars, memVars, sideVars, process, history
<1>2. ASSUME NEW c \in Consumers, ReadFrame(c) PROVE IInv'
  <2>1. PICK e \in log \cup unlinked : Answer(c, "ok", UserPayload(e.frame))
    BY <1>2 DEF ReadFrame
  <2>2. e \in Entry
    BY DEF IInv, Layout, IsLog, RestOK
  <2>3. UserPayload(e.frame) \in Nat
    BY SMTT(30), <2>2, LocType DEF UserPayload, RetryByte, NoData, Frame
  <2> QED
    BY <1>1, <2>1, <2>3
<1>3. ASSUME NEW c \in Consumers, ReadNothing(c) PROVE IInv'
  BY <1>1, <1>3 DEF ReadNothing, NoData
<1>4. ASSUME NEW c \in Consumers, ReadNotFound(c) PROVE IInv'
  <2>1. CASE Answer(c, "err", NoData)
    BY <1>1, <2>1 DEF NoData
  <2>2. CASE ~Answer(c, "err", NoData)
    <3>1. /\ pops[c].tries # 2 /\ pops[c].id \in DOMAIN data_index
          /\ pops' = [pops EXCEPT ![c].loc = data_index[pops[c].id], ![c].tries = @ + 1]
          /\ UNCHANGED <<walVars, memVars, sideVars, lock, expired_tasks, compaction, unlinked,
                         process, now, history, counters>>
      BY <1>4, <2>2 DEF ReadNotFound
    <3>2. data_index[pops[c].id] \in Nat \X Nat
      BY <3>1 DEF IInv, IndexOK, IsIndex
    <3>3. pops' \in [Consumers -> Pop]
      <4> DEFINE l == data_index[pops[c].id]
      <4> HIDE DEF l
      <4>1. pops' = [pops EXCEPT ![c] = [pc |-> pops[c].pc, id |-> pops[c].id, loc |-> l,
                                         tries |-> pops[c].tries + 1, data |-> pops[c].data]]
        BY SMTT(30), <1>0, <3>1 DEF Pop, l
      <4>2. pops[c].tries + 1 \in 0..2
        BY SMTT(30), <1>0, <3>1 DEF Pop
      <4>3. [pc |-> pops[c].pc, id |-> pops[c].id, loc |-> l, tries |-> pops[c].tries + 1,
             data |-> pops[c].data] \in Pop
        BY <1>0, <3>2, <4>2 DEF Pop, l
      <4> QED
        BY <4>1, <4>3, <1>0
    <3>4. RestOK'
      BY <3>1, <3>3 DEF IInv, RestOK, memVars, sideVars, process, history, counters
    <3> QED
      BY <3>1, <3>4, RestStep DEF walVars, memVars, sideVars, process, history
  <2> QED
    BY <2>1, <2>2
<1>5. ASSUME NEW c \in Consumers, PopReturns(c) PROVE IInv'
  <2>1. pops' \in [Consumers -> Pop]
    BY <1>0, <1>5 DEF PopReturns, NoPop, Pop, NoData
  <2>2. RestOK'
    BY <1>5, <2>1 DEF PopReturns, IInv, RestOK, memVars, sideVars, process, history, counters
  <2> QED
    BY <1>5, <2>2, RestStep DEF PopReturns, walVars, memVars, sideVars, process, history
<1> QED
  BY <1>2, <1>3, <1>4, <1>5 DEF Reader

\* clear_payload_cache, and the clock.
LEMMA ClearOrTickStep ==
  ASSUME IInv, ClearPayloadCache \/ Tick
  PROVE  IInv'
<1>0. IsCache(payload_cache) /\ now \in Nat
  BY DEF IInv, RestOK
<1>1. IsCache(payload_cache') /\ now' \in Nat
  BY <1>0, CacheType DEF ClearPayloadCache, Tick, memVars
<1>2. UNCHANGED <<sides, planned, lock, pops, compaction, unlinked, mode, acked, dead, stranded,
                 crashes, compactions, faults>>
  BY DEF ClearPayloadCache, Tick, dirVars, sideVars, threads, process, history, counters
<1>3. RestOK'
  BY <1>1, <1>2 DEF IInv, RestOK
<1> QED
  BY <1>3, RestStep DEF ClearPayloadCache, Tick, dirVars, walVars, memVars, sideVars, threads, process,
                        history

-----------------------------------------------------------------------------
(* The threads behind the calls, a kill and open() keep the invariant.     *)

\* The expiration thread.
LEMMA ExpirationStep ==
  ASSUME IInv, Expiration
  PROVE  IInv'
<1>1. CASE ExpireScan
  <2>1. /\ expired_tasks' = {[id |-> id, priority |-> leased[id].priority,
                              retries |-> leased[id].retries] : id \in ExpiredIds}
        /\ UNCHANGED <<walVars, memVars, sideVars, lock, pops, compaction, unlinked, process,
                       now, history, counters>>
    BY <1>1 DEF ExpireScan
  <2>2. \A t \in expired_tasks' : TaskOK(t, Known)
    <3>1. \A id \in ExpiredIds : /\ id \in Nat \cap Known /\ leased[id] \in LeaseInfo
                                 /\ leased[id].retries < MAX_RETRIES
      BY DEF ExpiredIds, IInv, TasksOK, LeasesOK
    <3>2. \A id \in ExpiredIds : leased[id].priority \in Priorities /\ leased[id].retries \in Nat
      BY <3>1 DEF LeaseInfo
    <3> QED
      BY SMTT(30), <2>1, <3>1, <3>2 DEF TaskOK, TaskRef
  <2>3. Layout'
    <3>1. CompactionOK'
      BY <2>1 DEF IInv, Layout, CompactionOK, walVars, process
    <3> QED
      BY <2>1, <3>1, LayoutUnchanged DEF IInv, walVars, sideVars, process, Scanned
  <2>4. TasksOK'
    <3>1. Known' = Known
      BY <2>1 DEF Known, history
    <3> QED
      BY <2>1, <2>2, <3>1 DEF IInv, TasksOK, walVars, sideVars, memVars, process, history
  <2>5. IndexOK' /\ RestOK'
    BY <2>1 DEF IInv, IndexOK, RestOK, walVars, sideVars, memVars, process, history, counters
  <2> QED
    BY <2>3, <2>4, <2>5 DEF IInv
<1>2. ASSUME NEW t \in expired_tasks, ExpireApply(t) PROVE IInv'
  <2>1. /\ mode = "up" /\ process_task_failure(t.id, t.priority, t.retries, "Expired")
        /\ expired_tasks' \subseteq expired_tasks /\ lock' \in {"free", "expire"}
        /\ UNCHANGED <<next_id, sides, temp, planned, pops, compaction, unlinked, mode, entries, now,
                       pushed, acked, stranded, crashes, compactions, faults>>
    BY <1>2 DEF ExpireApply, sideVars, process, counters
  <2>2. t.id \in Known /\ t.priority \in Priorities /\ t.retries \in Nat
    BY DEF IInv, TasksOK, TaskOK, TaskRef
  <2>3. /\ Layout' /\ TasksOK' /\ dead' \in SUBSET Nat /\ IsCache(payload_cache')
        /\ IsIndex(index') /\ IsIndex(data_index')
    BY <2>1, <2>2, FailureOK
  <2>4. IndexOK' /\ RestOK'
    BY <2>1, <2>3 DEF IInv, IndexOK, RestOK
  <2> QED
    BY <2>3, <2>4 DEF IInv
<1>3. ASSUME NEW t \in expired_tasks, ExpireFails(t) PROVE IInv'
  BY <1>3, FailedCallStep
<1> QED
  BY <1>1, <1>2, <1>3 DEF Expiration

\* compact()
LEMMA CompactionStep ==
  ASSUME IInv, Compaction
  PROVE  IInv'
<1>1. Layout'
  BY CompactionLayout DEF IInv
<1>2. UNCHANGED <<next_id, ready_queue, leased, payload_cache, expired_tasks, pops, mode, entries, now,
                 pushed, acked, dead, stranded, crashes>>
  BY DEF Compaction, plan_compaction, CompactWriteTemp, CompactWritePlan, CompactFails, CompactRename,
         CompactUnlink, CompactFinish, memVars, process, history, counters
<1>3. mode = "up"
  BY DEF Compaction, plan_compaction, CompactWriteTemp, CompactWritePlan, CompactFails, CompactRename,
         CompactUnlink, CompactFinish, CanLock
<1>4. TasksOK'
  <2>1. CASE CompactWriteTemp
    <3> DEFINE L == InSegments(Readable(log, torn), compaction.closed)
    <3>1. L \in SUBSET log
      BY DEF InSegments, Readable
    <3>2. L \subseteq Entry /\ IsFiniteSet(L) /\ Unique(L)
      BY <3>1, SubsetUnique DEF IInv, Layout, IsLog
    <3>3. temp' = Compacted(L) /\ log' = log
      BY <2>1 DEF CompactWriteTemp, walVars
    <3> HIDE DEF L
    <3>4. \A g \in temp' : FrameOK(g.frame, Known)
      <4> TAKE g \in temp'
      <4>1. PICK e \in L : e.frame.op \notin Terminal /\ g.frame = [e.frame EXCEPT !.data = g.frame.data]
        BY <3>2, <3>3, CompactedOK
      <4>2. e.frame \in Frame /\ FrameOK(e.frame, Known)
        BY <3>1, <3>2, LocType DEF IInv, TasksOK
      <4>3. /\ g.frame.id = e.frame.id /\ g.frame.op = e.frame.op /\ g.frame.retries = e.frame.retries
            /\ g.frame.consumer = e.frame.consumer
        BY <4>1, <4>2 DEF Frame
      <4> QED
        BY <4>2, <4>3 DEF FrameOK
    <3>5. Known' = Known
      BY <1>2 DEF Known
    <3> QED
      BY <1>2, <3>3, <3>4, <3>5 DEF IInv, TasksOK
  <2>2. CASE ~CompactWriteTemp
    <3>1. log' \subseteq log \cup temp /\ temp' \subseteq temp
      BY <2>2 DEF Compaction, plan_compaction, CompactWritePlan, CompactFails, CompactRename,
                  CompactUnlink, CompactFinish, walVars, sideVars
    <3> QED
      BY <1>2, <3>1, TasksUnchanged DEF IInv
  <2> QED
    BY <2>1, <2>2
<1>5. IndexOK'
  <2>1. CASE CompactFinish
    <3>1. ASSUME NEW ix, IsIndex(ix) PROVE IsIndex(Remapped(ix))
      <4>1. \A id \in DOMAIN compaction.offs : <<1, compaction.offs[id]>> \in Nat \X Nat
        BY DEF IInv, RestOK
      <4> QED
        BY <3>1, <4>1 DEF IsIndex, Remapped
    <3> QED
      BY <2>1, <1>2, <1>3, <3>1 DEF CompactFinish, IInv, IndexOK
  <2>2. CASE ~CompactFinish
    <3>1. UNCHANGED <<index, data_index>>
      BY <2>2 DEF Compaction, plan_compaction, CompactWriteTemp, CompactWritePlan, CompactFails,
                  CompactRename, CompactUnlink, memVars
    <3> QED
      BY <3>1, <1>2, <1>3 DEF IInv, IndexOK
  <2> QED
    BY <2>1, <2>2
<1>6. RestOK'
  <2>1. /\ sides' \in SUBSET {"compacting", "plan"} /\ planned' \in SUBSET Nat
        /\ lock' \in {"free", "expire", "compact"} /\ compactions' \in Nat /\ faults' \in Nat
    <3>1. /\ sides \in SUBSET {"compacting", "plan"} /\ planned \in SUBSET Nat
          /\ lock \in {"free", "expire", "compact"} /\ compactions \in Nat /\ faults \in Nat
      BY Zenon DEF IInv, RestOK
    <3>2. compaction.closed \in SUBSET Nat
      BY Zenon DEF IInv, Layout, CompactionOK
    <3>3. sides' \in SUBSET {"compacting", "plan"} /\ planned' \in SUBSET Nat
      <4>1. /\ sides' \in {sides, sides \cup {"compacting"}, sides \cup {"plan"},
                        sides \ {"compacting"}, sides \ {"plan"}}
            /\ planned' \in {planned, compaction.closed, {}}
        <5>1. CASE plan_compaction \/ CompactFails \/ CompactUnlink
          BY ZenonT(30), <5>1 DEF plan_compaction, CompactFails, CompactUnlink, sideVars
        <5>2. CASE CompactWriteTemp \/ CompactWritePlan
          BY ZenonT(30), <5>2 DEF CompactWriteTemp, CompactWritePlan
        <5>3. CASE CompactRename \/ CompactFinish
          BY ZenonT(30), <5>3 DEF CompactRename, CompactFinish
        <5> QED
          BY Zenon, <5>1, <5>2, <5>3 DEF Compaction
      <4>2. sides' \in SUBSET {"compacting", "plan"}
        BY SMTT(30), <4>1, <3>1
      <4>3. planned' \in SUBSET Nat
        BY SMTT(30), <4>1, <3>1, <3>2
      <4> QED
        BY Zenon, <4>2, <4>3
    <3>4. lock' \in {"free", "expire", "compact"} /\ compactions' \in Nat /\ faults' \in Nat
      <4>1. CASE plan_compaction \/ CompactWriteTemp \/ CompactWritePlan
        BY SMTT(30), <4>1, <3>1 DEF plan_compaction, CompactWriteTemp, CompactWritePlan, counters
      <4>2. CASE CompactFails \/ CompactRename
        BY SMTT(30), <4>2, <3>1 DEF CompactFails, CompactRename, counters
      <4>3. CASE CompactUnlink \/ CompactFinish
        BY SMTT(30), <4>3, <3>1 DEF CompactUnlink, CompactFinish, counters
      <4> QED
        BY Zenon, <4>1, <4>2, <4>3 DEF Compaction
    <3> QED
      BY Zenon, <3>3, <3>4
  <2>2. unlinked' \in SUBSET Entry
    BY DEF Compaction, plan_compaction, CompactWriteTemp, CompactWritePlan, CompactFails, CompactRename,
           CompactUnlink, CompactFinish, InSegments, IInv, RestOK, Layout, IsLog
  <2>3. compaction'.pc \in {"idle", "scan", "temp", "plan", "swap"}
        /\ compaction'.offs \in [DOMAIN compaction'.offs -> Nat]
    <3>1. CASE CompactWriteTemp
      <4> DEFINE L == InSegments(Readable(log, torn), compaction.closed)
      <4>1. L \in SUBSET log
        BY DEF InSegments, Readable
      <4>2. L \subseteq Entry /\ IsFiniteSet(L) /\ Unique(L)
        BY <4>1, SubsetUnique DEF IInv, Layout, IsLog
      <4>3. compaction' = [compaction EXCEPT !.pc = "temp", !.offs = NewOffsets(L)]
        BY <3>1 DEF CompactWriteTemp
      <4> HIDE DEF L
      <4>4. NewOffsets(L) \in [DOMAIN NewOffsets(L) -> Nat]
        BY <4>2, CompactedOK
      <4>5. compaction'.pc = "temp" /\ compaction'.offs = NewOffsets(L)
        BY <4>3 DEF IInv, Layout, CompactionOK
      <4> QED
        BY <4>4, <4>5
    <3>2. CASE ~CompactWriteTemp
      <4>1. compaction'.pc \in {"idle", "scan", "temp", "plan", "swap"}
            /\ compaction'.offs \in {compaction.offs, EmptyMap}
        <5>1. /\ compaction = [pc |-> compaction.pc, closed |-> compaction.closed, offs |-> compaction.offs]
              /\ compaction.pc \in {"idle", "scan", "temp", "plan", "swap"}
          BY Zenon DEF IInv, RestOK, Layout, CompactionOK
        <5>2. CASE plan_compaction \/ CompactWritePlan
          BY SMTT(30), <5>1, <5>2 DEF plan_compaction, CompactWritePlan, CompactStep, NoCompaction
        <5>3. CASE CompactFails \/ CompactRename
          BY SMTT(30), <5>1, <5>3 DEF CompactFails, CompactRename, CompactStep, NoCompaction
        <5>4. CASE CompactUnlink \/ CompactFinish
          BY SMTT(30), <5>1, <5>4 DEF CompactUnlink, CompactFinish, CompactStep, NoCompaction
        <5> QED
          BY Zenon, <3>2, <5>2, <5>3, <5>4 DEF Compaction
      <4>2. EmptyMap \in [DOMAIN EmptyMap -> Nat]
        BY DEF EmptyMap
      <4> QED
        BY <4>1, <4>2 DEF IInv, RestOK
    <3> QED
      BY <3>1, <3>2
  <2> QED
    BY <1>2, <2>1, <2>2, <2>3 DEF IInv, RestOK
<1> QED
  BY <1>1, <1>4, <1>5, <1>6 DEF IInv

\* A kill.
LEMMA CrashStep ==
  ASSUME IInv, Crash
  PROVE  IInv'
<1>1. /\ mode' = "down" /\ entries' = {} /\ next_id' = 1 /\ index' = EmptyMap /\ data_index' = EmptyMap
      /\ ready_queue' = EmptyQueue /\ leased' = EmptyMap /\ payload_cache' = EmptyCache
      /\ lock' = "free" /\ expired_tasks' = {} /\ pops' = [c \in Consumers |-> NoPop]
      /\ compaction' = NoCompaction /\ unlinked' = {} /\ stranded' = {} /\ crashes' = crashes + 1
      /\ UNCHANGED <<log, sides, temp, planned, now, pushed, acked, dead, compactions, faults>>
  BY DEF Crash, sideVars
<1>2. Layout'
  BY CrashLayout DEF IInv
<1>3. TasksOK'
  <2>1. Known' = Known
    BY <1>1 DEF Known
  <2>2. QueueOK(ready_queue', Known) /\ LeasesOK(leased', Known)
    BY <1>1, QueueOKEmpty, LeasesOKEmpty
  <2> QED
    BY <1>1, <2>1, <2>2 DEF IInv, TasksOK
<1>4. IndexOK'
  BY <1>1 DEF IndexOK, IsIndex, EmptyMap
<1>5. RestOK'
  <2>1. IsCache(EmptyCache)
    BY CacheType DEF IInv, RestOK
  <2>2. NoPop \in Pop
    BY DEF NoPop, Pop, NoData
  <2>3. NoCompaction.pc = "idle" /\ NoCompaction.offs \in [DOMAIN NoCompaction.offs -> Nat]
    BY DEF NoCompaction, EmptyMap
  <2> QED
    BY SMTT(30), <1>1, <2>1, <2>2, <2>3 DEF IInv, RestOK
<1> QED
  BY <1>2, <1>3, <1>4, <1>5 DEF IInv

(* Wal::open up to the scan of the last segment.                             *)
LEMMA OpenStep ==
  ASSUME IInv, \/ OpenDiscardTemp \/ OpenDiscardPlan \/ OpenUnlink \/ OpenUnlinked \/ OpenNoPlan
               \/ OpenScan
  PROVE  IInv'
<1> USE DEF OpenDiscardTemp, OpenDiscardPlan, OpenUnlink, OpenUnlinked, OpenNoPlan, OpenScan
<1>1. UNCHANGED <<memVars, threads, entries, now, history, counters>>
  BY DEF Opening
<1>2. /\ log' \subseteq log /\ temp' \subseteq temp
      /\ sides' \in SUBSET {"compacting", "plan"} /\ planned' \in SUBSET Nat
      /\ mode' \in {"down", "discard", "scan", "index"}
  BY DEF sideVars, IInv, RestOK
<1>3. Open
  BY DEF Open
<1> USE DEF memVars, threads, history, counters
<1> HIDE DEF OpenDiscardTemp, OpenDiscardPlan, OpenUnlink, OpenUnlinked, OpenNoPlan, OpenScan
<1>4. Layout'
  BY <1>3, OpenLayout DEF IInv
<1>5. TasksOK'
  BY <1>1, <1>2, TasksUnchanged DEF IInv
<1>6. IndexOK'
  BY <1>1, <1>2 DEF IInv, IndexOK
<1>7. RestOK'
  BY <1>1, <1>2 DEF IInv, RestOK
<1> QED
  BY <1>4, <1>5, <1>6, <1>7 DEF IInv

\* The locations of the last records, as the first pass of recover() finds them.
LEMMA LocationsOK ==
  ASSUME NEW L, L \subseteq Entry, IsFiniteSet(L)
  PROVE  /\ IsIndex(Locations(L)) /\ DOMAIN Locations(L) = IdsIn(L)
         /\ \A id \in IdsIn(L) : \E e \in L : Loc(e) = Locations(L)[id]
<1>1. ASSUME NEW id \in IdsIn(L) PROVE Last(Of(L, id)) \in L
  <2>1. Of(L, id) \in SUBSET L /\ Of(L, id) # {}
    BY DEF Of, IdsIn
  <2>2. IsFiniteSet(Of(L, id))
    BY <2>1, FS_Subset
  <2> QED
    BY <2>1, <2>2, LastOK
<1>2. \A id \in IdsIn(L) : Loc(Last(Of(L, id))) \in Nat \X Nat
  BY <1>1, LocType
<1>3. IdsIn(L) \subseteq Nat
  BY IdsFinite
<1> QED
  BY <1>1, <1>2, <1>3 DEF Locations, IsIndex

\* The first pass of recover().
LEMMA RecoverIndexStep ==
  ASSUME IInv, RecoverIndex
  PROVE  IInv'
<1> DEFINE L == Readable(log, torn)
<1>1. /\ next_id' = IdAfter(L) /\ index' = Locations(L) /\ data_index' = Locations(CreatedIn(L))
      /\ entries' = IdsIn(L) /\ mode' = "replay"
      /\ UNCHANGED <<ready_queue, leased, Recovering>>
  BY DEF RecoverIndex
<1>2. L \in SUBSET log /\ CreatedIn(L) \in SUBSET log
  BY DEF Readable, CreatedIn
<1> HIDE DEF L
<1>3. /\ L \subseteq Entry /\ IsFiniteSet(L)
      /\ CreatedIn(L) \subseteq Entry /\ IsFiniteSet(CreatedIn(L))
  BY <1>2, SubsetUnique DEF IInv, Layout, IsLog
<1>4. IdAfter(L) \in Nat
  <2>1. CASE L = {}
    BY <2>1 DEF IdAfter
  <2>2. CASE L # {}
    <3>1. IdsIn(L) \subseteq Nat /\ IsFiniteSet(IdsIn(L)) /\ IdsIn(L) # {}
      BY <1>3, <2>2, IdsFinite DEF IdsIn
    <3>2. \E m \in IdsIn(L) : \A id \in IdsIn(L) : id <= m
      BY <3>1, LargestExists
    <3> QED
      BY <2>2, <3>1, <3>2 DEF IdAfter
  <2> QED
    BY <2>1, <2>2
<1>5. Layout'
  BY OpenLayout DEF IInv, Open
<1>6. TasksOK'
  <2>1. Known' = Known /\ UNCHANGED <<log, temp, ready_queue, leased, expired_tasks, pushed>>
    BY <1>1 DEF Known, Recovering, walVars, sideVars, threads, history
  <2>2. IdsIn(L) \subseteq Known
    BY <1>2 DEF IdsIn, IInv, TasksOK, FrameOK
  <2> QED
    BY <1>1, <2>1, <2>2 DEF IInv, TasksOK
<1>7. IndexOK'
  <2>1. log' = log
    BY <1>1 DEF Recovering, walVars
  <2> QED
    BY <1>1, <1>2, <1>3, <1>4, <2>1, LocationsOK DEF IndexOK
<1>8. RestOK'
  BY <1>1 DEF IInv, RestOK, Recovering, sideVars, threads, history, counters
<1> QED
  BY <1>5, <1>6, <1>7, <1>8 DEF IInv

\* recover() has sorted the entries by location: no entry left is before the next one.
LEMMA NextEntryFirst ==
  ASSUME IInv, Replaying
  PROVE  NextEntry \in entries /\ \A j \in entries : ~LocLess(index[j], index[NextEntry])
<1>1. \A id \in entries : index[id] \in Nat \X Nat
  BY DEF Replaying, IInv, IndexOK, IsIndex
<1>2. \E id \in entries : \A j \in entries : ~LocLess(index[j], index[id])
  BY <1>1, EarliestExists DEF Replaying
<1> QED
  BY <1>2 DEF NextEntry

\* What the replay of one task goes by.
LEMMA NextEntryOK ==
  ASSUME IInv, Replaying
  PROVE  /\ NextEntry \in entries /\ NextEntry \in Nat \cap Known /\ NextEntry \in DOMAIN index
         /\ Latest(NextEntry) \in Frame /\ FrameOK(Latest(NextEntry), Known)
<1>1. \A id \in entries : /\ id \in DOMAIN index /\ index[id] \in Nat \X Nat
                          /\ \E e \in log : Loc(e) = index[id]
  BY DEF Replaying, IInv, IndexOK, IsIndex
<1>2. NextEntry \in entries
  BY NextEntryFirst
<1>3. PICK e \in log : Latest(NextEntry) = e.frame
  BY <1>1, <1>2 DEF Latest
<1>4. e.frame \in Frame /\ FrameOK(e.frame, Known)
  BY LocType DEF IInv, Layout, IsLog, TasksOK
<1>5. NextEntry \in Known /\ Known \subseteq Nat
  BY <1>2, KnownNat DEF IInv, TasksOK
<1> QED
  BY <1>1, <1>2, <1>3, <1>4, <1>5

\* The second pass of recover().
LEMMA ReplayStep ==
  ASSUME IInv, ReplayReady \/ ReplayLeased \/ ReplayTerminal \/ RecoverDone
  PROVE  IInv'
<1> DEFINE id == NextEntry
           f == Latest(NextEntry)
<1>1. Layout'
  BY OpenLayout DEF IInv, Open
<1>2. /\ UNCHANGED <<next_id, Recovering>> /\ entries' \subseteq entries
      /\ mode' = mode \/ mode' = "up"
  BY DEF ReplayReady, ReplayLeased, ReplayTerminal, RecoverDone, ReplayAs
<1>3. RestOK'
  <2>1. UNCHANGED <<sides, planned, payload_cache, lock, pops, compaction, unlinked, now, acked, dead,
                    stranded, crashes, compactions, faults>>
    BY <1>2 DEF Recovering, sideVars, threads, history, counters
  <2> QED
    BY <1>2, <2>1 DEF IInv, RestOK
<1>4. Known' = Known /\ UNCHANGED <<log, temp, expired_tasks, pushed>>
  <2>1. UNCHANGED <<log, temp, expired_tasks, pushed>>
    BY <1>2 DEF Recovering, walVars, sideVars, threads, history
  <2> QED
    BY <2>1 DEF Known
<1>5. ASSUME QueueOK(ready_queue', Known), LeasesOK(leased', Known) PROVE TasksOK'
  BY <1>2, <1>4, <1>5 DEF IInv, TasksOK
<1>6. ASSUME Replaying, NEW ready, NEW lease, ReplayAs(id, ready, lease),
             QueueOK(ready, Known), LeasesOK(lease, Known)
      PROVE  IInv'
  <2>1. ready_queue' = ready /\ leased' = lease /\ index' = index
        /\ data_index' = IF id \in DOMAIN data_index THEN data_index ELSE Put(data_index, id, index[id])
    BY <1>6 DEF ReplayAs
  <2>2. id \in Nat /\ index[id] \in Nat \X Nat
    BY <1>6, NextEntryOK DEF IInv, IndexOK, IsIndex
  <2>3. IsIndex(data_index')
    BY <2>1, <2>2, IndexPut DEF IInv, IndexOK
  <2>4. IndexOK'
    BY <1>2, <1>4, <2>1, <2>3 DEF IInv, IndexOK
  <2> QED
    BY <1>1, <1>3, <1>5, <1>6, <2>1, <2>4 DEF IInv
<1>7. CASE ReplayReady
  <2> DEFINE t == [id |-> id, priority |-> f.priority, retries |-> f.retries]
  <2>1. /\ Replaying /\ ReplayAs(id, QueuePush(ready_queue, t), leased)
        /\ f.op \in {"Created", "Nacked", "Expired", "Leased"}
    BY <1>7 DEF ReplayReady
  <2>2. TaskOK(t, Known)
    BY <2>1, NextEntryOK DEF TaskOK, TaskRef, FrameOK, Frame, Terminal
  <2> HIDE DEF t
  <2>3. QueueOK(QueuePush(ready_queue, t), Known)
    BY <2>2, QueueOKPush DEF IInv, TasksOK
  <2> QED
    BY <2>1, <2>3, <1>6 DEF IInv, TasksOK
<1>8. CASE ReplayLeased
  <2> DEFINE v == [consumer_id |-> f.consumer, expire_timestamp |-> f.expire,
                   retries |-> f.retries, priority |-> f.priority]
  <2>1. Replaying /\ ReplayAs(id, ready_queue, Put(leased, id, v)) /\ f.op = "Leased"
    BY <1>8 DEF ReplayLeased
  <2>2. v \in LeaseInfo /\ v.retries < MAX_RETRIES /\ id \in Nat \cap Known
    BY <2>1, NextEntryOK DEF LeaseInfo, FrameOK, Frame, Terminal
  <2> HIDE DEF v
  <2>3. LeasesOK(Put(leased, id, v), Known)
    BY <2>2, LeasesOKPut DEF IInv, TasksOK
  <2> QED
    BY <2>1, <2>3, <1>6 DEF IInv, TasksOK
<1>9. CASE ReplayTerminal
  <2>1. /\ UNCHANGED <<ready_queue, leased>> /\ entries' = entries \ {id}
        /\ data_index' = Drop(data_index, id) /\ index' = Drop(index, id)
    BY <1>9 DEF ReplayTerminal
  <2>2. IsIndex(index') /\ IsIndex(data_index')
    BY <2>1, IndexDrop DEF IInv, IndexOK
  <2>3. \A j \in DOMAIN index \ {id} : j \in DOMAIN index' /\ index'[j] = index[j]
    BY <2>1 DEF Drop
  <2>4. IndexOK'
    BY <1>2, <1>4, <2>1, <2>2, <2>3 DEF IInv, IndexOK
  <2> QED
    BY <1>1, <1>3, <1>5, <2>1, <2>4 DEF IInv, TasksOK
<1>10. CASE RecoverDone
  <2>1. UNCHANGED <<ready_queue, leased, index, data_index>> /\ mode' = "up"
    BY <1>10 DEF RecoverDone
  <2>2. IndexOK'
    BY <1>2, <2>1 DEF IInv, IndexOK
  <2> QED
    BY <1>1, <1>3, <1>5, <2>1, <2>2 DEF IInv, TasksOK
<1> QED
  BY <1>7, <1>8, <1>9, <1>10

HIDE DEF LocationsOK, NextEntryFirst, NextEntryOK

-----------------------------------------------------------------------------
\* A new queue satisfies IInv.
LEMMA InitIInv == Init => IInv
<1> SUFFICES ASSUME Init PROVE IInv
  OBVIOUS
<1> USE DEF Init
<1>1. Layout
  <2>1. IsFiniteSet({})
    BY FS_EmptySet
  <2> QED
    BY <2>1 DEF Layout, IsLog, TempOK, FilesOK, ActiveOK, CompactionOK, Scanned, Unique, Dense,
                NoCompaction
<1>2. TasksOK
  BY QueueOKEmpty, LeasesOKEmpty DEF TasksOK
<1>3. IndexOK
  BY DEF IndexOK, IsIndex, EmptyMap
<1>4. RestOK
  <2>1. IsCache(EmptyCache)
    BY DEF IsCache, EmptyCache, EmptyMap
  <2>2. NoPop \in Pop
    BY DEF NoPop, Pop, NoData
  <2>3. NoCompaction.pc = "idle" /\ NoCompaction.offs \in [DOMAIN NoCompaction.offs -> Nat]
    BY DEF NoCompaction, EmptyMap
  <2> QED
    BY <2>1, <2>2, <2>3 DEF RestOK
<1> QED
  BY <1>1, <1>2, <1>3, <1>4 DEF IInv

\* Every step preserves IInv.
LEMMA NextIInv == IInv /\ [Next]_vars => IInv'
<1> SUFFICES ASSUME IInv, [Next]_vars PROVE IInv'
  OBVIOUS
<1>1. CASE Client
  BY <1>1, PushStep, PopStep, AckStep, NackStep, FailedCallStep, ClearOrTickStep DEF Client
<1>2. CASE Open
  BY <1>2, OpenStep, RecoverIndexStep, ReplayStep DEF Open
<1>3. CASE UNCHANGED vars
  <2>1. RestOK'
    BY <1>3 DEF vars, IInv, RestOK
  <2> QED
    BY <1>3, <2>1, RestStep DEF vars
<1> QED
  BY <1>1, <1>2, <1>3, ReaderStep, ExpirationStep, CompactionStep, CrashStep, ClearOrTickStep DEF Next

\* IInv holds throughout.
LEMMA Inductive == Spec => []IInv
  BY InitIInv, NextIInv, PTL DEF Spec

(* Type correctness of the engine: in particular every CHOOSE of the model   *)
(* (the last record of a task, the newest segment, the next task to replay)  *)
(* has something to choose.                                                  *)
THEOREM TypeCorrect == Spec => []TypeOK
<1>1. IInv => TypeOK
  <2> SUFFICES ASSUME IInv PROVE TypeOK
    OBVIOUS
  <2>1. /\ log \in SUBSET Entry /\ temp \in SUBSET Entry /\ torn \in SUBSET (Nat \X Nat)
        /\ files \in SUBSET Nat /\ active_segment_id \in Nat /\ current_size \in Nat
        /\ compaction = [pc |-> compaction.pc, closed |-> compaction.closed,
                         offs |-> compaction.offs]
        /\ compaction.closed \in SUBSET Nat
    BY DEF IInv, Layout, IsLog, TempOK, FilesOK, CompactionOK
  <2>2. /\ ready_queue \in Queue /\ leased \in [DOMAIN leased -> LeaseInfo]
        /\ DOMAIN leased \subseteq Nat /\ expired_tasks \in SUBSET TaskRef
        /\ pushed \in Seq(Nat) /\ entries \in SUBSET Nat
    BY KnownNat DEF IInv, TasksOK, QueueOK, LeasesOK, TaskOK
  <2>3. /\ index \in [DOMAIN index -> Nat \X Nat] /\ DOMAIN index \subseteq Nat
        /\ data_index \in [DOMAIN data_index -> Nat \X Nat] /\ DOMAIN data_index \subseteq Nat
        /\ next_id \in Nat
    BY DEF IInv, IndexOK, IsIndex
  <2> QED
    BY <2>1, <2>2, <2>3 DEF IInv, RestOK, IsCache, Pop, TypeOK
<1> QED
  BY <1>1, Inductive, PTL

(* No task waits, is leased or is about to expire with its retries used up:  *)
(* neither a stale snapshot of the expiration thread nor a restart gives a   *)
(* task more than MAX_RETRIES attempts (engine.rs:359-383).                  *)
THEOREM RetriesAreBounded == Spec => []RetriesBounded
<1>1. IInv => RetriesBounded
  BY DEF IInv, TasksOK, QueueOK, LeasesOK, TaskOK, RetriesBounded
<1> QED
  BY <1>1, Inductive, PTL

(* append never writes over a frame and never leaves a gap, whatever was     *)
(* killed, failed, compacted or deleted before.                              *)
THEOREM NoFrameOverwritten == Spec => []LogIsGapless
<1>1. IInv => LogIsGapless
  BY DEF IInv, Layout, IsLog, LogIsGapless
<1> QED
  BY <1>1, Inductive, PTL

HIDE DEF InitIInv, NextIInv, Inductive, TypeCorrect, RetriesAreBounded,
         NoFrameOverwritten

-----------------------------------------------------------------------------
(* What the directory is worth at every step.                              *)

\* The two files that a compaction leaves beside the segments, and the plan's list.
SideFiles == sides \in SUBSET {"compacting", "plan"} /\ planned \in SUBSET Nat

\* A frame that was cut short is the end of the newest segment, and open() has
\* removed it before anything else is written.
TornOK ==
  /\ Scanned => torn = {}
  /\ \A t \in torn : /\ t[1] \in files /\ t[1] \notin planned
                     /\ \A s \in files : s <= t[1]
                     /\ \A e \in log : e.seg = t[1] => e.off < t[2]

\* Segment 1 is never deleted.
FilesStart == files # {} \/ Scanned => 1 \in files

\* What the two files of a compaction stand for, step by step.
SidesOK ==
  /\ mode = "discard" => sides = {"plan"}
  /\ mode = "scan" => "plan" \notin sides
  /\ mode \in {"index", "replay"} => sides = {}
  /\ mode = "up" => (sides = {"plan"} <=> compaction.pc = "swap")
  /\ compaction.pc = "temp" => "compacting" \in sides
  /\ compaction.pc = "plan" => sides = {"compacting", "plan"}
  /\ compaction.pc \in {"plan", "swap"} => planned = compaction.closed
  /\ lock = "compact" <=> compaction.pc = "swap"
  /\ "plan" \notin sides => planned = {}
  /\ Scanned => \A s \in planned : s < active_segment_id

\* A compaction under way has taken the front of the log, and its temp file has
\* what is to replace it.
ClosedOK == compaction.pc # "idle" => Front(files, compaction.closed)

TempMatches == compaction.pc \in {"temp", "plan"} =>
                 temp = Compacted(InSegments(log, compaction.closed))

\* A plan alone: the rename has happened, the deletions may not have.
SwapOK == sides = {"plan"} /\ mode # "discard" => Front(files, planned) /\ Replaced(log, planned)

\* The part of the invariant that says what the directory is worth at every step.
Disk == TornOK /\ FilesStart /\ SidesOK /\ ClosedOK /\ TempMatches /\ SwapOK

\* No kill comes between the two deletions of OpenDiscardTemp and OpenDiscardPlan.
Undisturbed == mode = "discard" => mode' # "down"

\* A torn frame takes no other frame with it.
LEMMA AllReadable ==
  ASSUME Layout, TornOK
  PROVE  Readable(log, torn) = log
<1>1. \A e \in log : e.off \in Nat
  BY LocType DEF Layout, IsLog
<1>2. \A t \in torn : t[2] \in Nat
  BY DEF Layout, FilesOK
<1>3. \A e \in log, t \in torn : ~(t[1] = e.seg /\ t[2] <= e.off)
  BY <1>1, <1>2 DEF TornOK
<1> QED
  BY <1>3 DEF Readable

\* Nothing is forgotten.
LEMMA ForgetsNothing ==
  ASSUME NEW V
  PROVE  Forgets(V, V)
  BY DEF Forgets

(* Steps of a running process that leave the files to others.               *)
LEMMA QuietDisk ==
  ASSUME Disk, UNCHANGED <<log, torn, files, sides, temp, planned, active_segment_id, mode, compaction>>,
         lock' = "compact" <=> lock = "compact"
  PROVE  Disk'
<1>1. TornOK' /\ FilesStart' /\ ClosedOK' /\ TempMatches' /\ SwapOK'
  BY DEF Disk, TornOK, FilesStart, ClosedOK, TempMatches, SwapOK, Scanned
<1>2. SidesOK'
  BY DEF Disk, SidesOK, Scanned
<1> QED
  BY <1>1, <1>2 DEF Disk

(* append: the new frame is the last of the log.                             *)
LEMMA AppendDisk ==
  ASSUME Layout, SideFiles, Disk, mode = "up", lock # "compact", lock' # "compact", NEW f \in Frame,
         WalAppend(f), UNCHANGED <<sides, temp, planned, mode, compaction>>
  PROVE  Disk' /\ Tips(log)' = Told(Tips(log), f)
<1> DEFINE x == [seg |-> NextSegment, off |-> NextOffset, frame |-> f]
<1>1. /\ NextSegment \in Nat /\ NextOffset \in Nat /\ active_segment_id <= NextSegment
      /\ active_segment_id \in Nat
      /\ \A s \in files : s <= NextSegment
      /\ \A e \in log : e.seg = NextSegment => e.off < NextOffset
  BY NextLocFree DEF Layout, FilesOK
<1>2. /\ log \subseteq Entry /\ \A e \in log : e.seg \in files
      /\ compaction.closed \subseteq Nat
      /\ compaction.pc # "idle" => \A s \in compaction.closed : s < active_segment_id
  BY DEF Layout, IsLog, FilesOK, CompactionOK
<1>3. /\ log' = log \cup {x} /\ files' = files \cup {NextSegment}
      /\ active_segment_id' = NextSegment /\ torn' = torn
  BY DEF WalAppend
<1>4. x \in Entry /\ x.seg = NextSegment /\ x.off = NextOffset /\ x.frame = f
  BY <1>1 DEF Entry
<1> HIDE DEF x
<1>5. Tips(log)' = Told(Tips(log), f)
  <2>1. \A e \in log : LocLess(Loc(e), Loc(x))
    <3> SUFFICES ASSUME NEW e \in log PROVE LocLess(Loc(e), Loc(x))
      OBVIOUS
    <3>1. e \in Entry /\ e.seg <= NextSegment /\ (e.seg = NextSegment => e.off < NextOffset)
      BY <1>1, <1>2
    <3> QED
      BY <3>1, <1>1, <1>4, LocType DEF LocLess
  <2> QED
    BY <2>1, <1>2, <1>3, <1>4, TipsAppend
<1>6. TornOK' /\ FilesStart'
  BY <1>3 DEF Disk, TornOK, FilesStart, Scanned
<1>7. compaction.pc # "swap" /\ sides # {"plan"}
  BY DEF Disk, SidesOK
<1>8. SidesOK'
  <2>0. planned \subseteq Nat
    BY DEF SideFiles
  <2>1. \A s \in planned : s < active_segment_id => s < NextSegment
    BY <2>0, <1>1
  <2>2. \A s \in planned : s < active_segment_id
    BY DEF Disk, SidesOK, Scanned
  <2> QED
    BY <2>1, <2>2, <1>3, <1>7 DEF Disk, SidesOK, Scanned
<1>9. ClosedOK'
  <2>1. \A c \in compaction.closed : compaction.pc # "idle" => ~(NextSegment <= c)
    BY <1>1, <1>2
  <2> QED
    BY <2>1, <1>3 DEF Disk, ClosedOK, Front
<1>10. TempMatches'
  <2>1. compaction.pc # "idle" => NextSegment \notin compaction.closed
    BY <1>1, <1>2
  <2>2. compaction.pc # "idle" => InSegments(log', compaction.closed) = InSegments(log, compaction.closed)
    BY <2>1, <1>3, <1>4 DEF InSegments
  <2> QED
    BY <2>2 DEF Disk, TempMatches
<1>11. SwapOK'
  BY <1>7 DEF SwapOK
<1> QED
  BY <1>5, <1>6, <1>8, <1>9, <1>10, <1>11 DEF Disk

(* append fails, which may leave one more segment behind.                    *)
LEMMA AppendFailsDisk ==
  ASSUME Layout, SideFiles, Disk, mode = "up", lock # "compact", lock' # "compact", WalAppendFails,
         UNCHANGED <<sides, temp, planned, mode, compaction>>
  PROVE  Disk' /\ log' = log
<1>1. /\ NextSegment \in Nat /\ active_segment_id <= NextSegment /\ active_segment_id \in Nat
      /\ compaction.closed \subseteq Nat
      /\ compaction.pc # "idle" => \A s \in compaction.closed : s < active_segment_id
  BY NextLocFree DEF Layout, FilesOK, CompactionOK
<1>2. log' = log /\ torn' = torn /\ active_segment_id' \in {active_segment_id, NextSegment}
      /\ files' \in {files, files \cup {NextSegment}}
  BY DEF WalAppendFails, walVars
<1>3. compaction.pc # "swap" /\ sides # {"plan"}
  BY DEF Disk, SidesOK
<1>4. TornOK' /\ FilesStart'
  BY <1>2 DEF Disk, TornOK, FilesStart, Scanned
<1>5. SidesOK'
  <2>0. planned \subseteq Nat
    BY DEF SideFiles
  <2>1. \A s \in planned : s < active_segment_id => s < NextSegment
    BY <2>0, <1>1
  <2>2. \A s \in planned : s < active_segment_id
    BY DEF Disk, SidesOK, Scanned
  <2> QED
    BY <2>1, <2>2, <1>2, <1>3 DEF Disk, SidesOK, Scanned
<1>6. ClosedOK'
  <2>1. \A c \in compaction.closed : compaction.pc # "idle" => ~(NextSegment <= c)
    BY <1>1
  <2> QED
    BY <2>1, <1>2 DEF Disk, ClosedOK, Front
<1>7. TempMatches' /\ SwapOK'
  BY <1>2, <1>3 DEF Disk, TempMatches, SwapOK
<1> QED
  BY <1>2, <1>4, <1>5, <1>6, <1>7 DEF Disk

(* A deletion, by compaction or by open().                                    *)
LEMMA UnlinkTips ==
  ASSUME Layout, planned \subseteq Nat, Front(files, planned), Replaced(log, planned),
         NEW s, FirstObsolete(s, planned, files), log' = {e \in log : e.seg # s}
  PROVE  Forgets(Tips(log), Tips(log)') /\ Replaced(log', planned)
<1>1. log' = Unlinked(log, s)
  BY DEF Unlinked
<1>2. Held(log, files)
  BY DEF Layout, IsLog, FilesOK, Held
<1> QED
  BY <1>1, <1>2, TipsUnlink

HIDE DEF QuietDisk, AppendDisk, AppendFailsDisk

-----------------------------------------------------------------------------
(* compact(): what it writes, and the swap, tell the same of every task that *)
(* is not finished.                                                          *)
LEMMA CompactionDisk ==
  ASSUME Layout, Layout', SideFiles, Disk, Compaction
  PROVE  Disk' /\ Forgets(Tips(log), Tips(log)')
<1>1. /\ log \subseteq Entry /\ IsFiniteSet(log) /\ Unique(log)
      /\ files \subseteq Nat \ {0} /\ \A e \in log : e.seg \in files
      /\ temp \subseteq Entry /\ \A e \in temp : e.seg = 1
      /\ compaction.closed \subseteq Nat /\ active_segment_id \in Nat
      /\ compaction = [pc |-> compaction.pc, closed |-> compaction.closed, offs |-> compaction.offs]
      /\ compaction.pc # "idle" => mode = "up" /\ \A s \in compaction.closed : s < active_segment_id
  BY DEF Layout, IsLog, FilesOK, TempOK, CompactionOK
<1>2. UNCHANGED <<mode, torn, active_segment_id>> /\ mode = "up"
  BY <1>1 DEF Compaction, plan_compaction, CompactWriteTemp, CompactWritePlan, CompactFails,
       CompactRename, CompactUnlink, CompactFinish, walVars, process, CanLock
<1>3. torn = {} /\ TornOK'
  <2>1. torn = {}
    BY <1>2 DEF Disk, TornOK, Scanned
  <2> QED
    BY <2>1, <1>2 DEF TornOK
<1>4. ASSUME UNCHANGED <<log, files>> PROVE FilesStart' /\ Forgets(Tips(log), Tips(log)')
  BY <1>2, <1>4, ForgetsNothing DEF Disk, FilesStart, Scanned
<1>5. CASE plan_compaction
  <2>1. /\ compaction' = [pc |-> "scan", closed |-> ClosedSegments, offs |-> EmptyMap]
        /\ UNCHANGED <<log, files, sides, temp, planned, lock>> /\ lock = "free"
        /\ compaction.pc = "idle" /\ ClosedSegments # {}
    BY <1>5 DEF plan_compaction, walVars, sideVars, CanLock
  <2>2. Front(files, ClosedSegments)
    <3>1. 1 \in files
      BY <1>2 DEF Disk, FilesStart, Scanned
    <3>2. \A s \in files : s \in Nat /\ 1 <= s
      BY <1>1
    <3> QED
      BY SMTT(30), <3>1, <3>2, <2>1, <1>1 DEF ClosedSegments, Front
  <2>3. SidesOK'
    BY <2>1, <1>2 DEF Disk, SidesOK, Scanned
  <2> QED
    BY <2>1, <2>2, <2>3, <1>2, <1>3, <1>4 DEF Disk, ClosedOK, TempMatches, SwapOK
<1>6. CASE CompactWriteTemp
  <2>1. /\ sides' = sides \cup {"compacting"} /\ compaction.pc = "scan" /\ compaction'.pc = "temp"
        /\ compaction'.closed = compaction.closed
        /\ temp' = Compacted(InSegments(Readable(log, torn), compaction.closed))
        /\ UNCHANGED <<log, files, planned, lock>>
    BY <1>1, <1>6 DEF CompactWriteTemp, walVars
  <2>2. Readable(log, torn) = log
    BY AllReadable DEF Disk
  <2>3. SidesOK'
    <3>1. sides' # {"plan"} /\ "compacting" \in sides' /\ ("plan" \in sides' <=> "plan" \in sides)
      BY <2>1
    <3> QED
      BY <2>1, <3>1, <1>2 DEF Disk, SidesOK, Scanned
  <2>4. SwapOK'
    BY <2>1 DEF SwapOK
  <2> QED
    BY <2>1, <2>2, <2>3, <2>4, <1>2, <1>3, <1>4 DEF Disk, ClosedOK, TempMatches
<1>7. CASE CompactWritePlan
  <2>1. /\ sides' = sides \cup {"plan"} /\ compaction.pc = "temp" /\ compaction'.pc = "plan"
        /\ compaction'.closed = compaction.closed /\ planned' = compaction.closed
        /\ UNCHANGED <<log, files, temp, lock>>
    BY <1>1, <1>7 DEF CompactWritePlan, CompactStep, walVars
  <2>2. sides' = {"compacting", "plan"}
    BY <2>1 DEF Disk, SidesOK, SideFiles
  <2>3. SidesOK'
    BY <2>1, <2>2, <1>1, <1>2 DEF Disk, SidesOK, Scanned
  <2>4. SwapOK'
    BY <2>2 DEF SwapOK
  <2> QED
    BY <2>1, <2>3, <2>4, <1>2, <1>3, <1>4 DEF Disk, ClosedOK, TempMatches
<1>8. CASE CompactFails
  <2>1. /\ compaction.pc # "swap" /\ compaction'.pc = "idle" /\ UNCHANGED <<log, files, sides, temp, planned, lock>>
    BY <1>8 DEF CompactFails, NoCompaction, walVars, sideVars
  <2>2. SidesOK'
    BY <2>1, <1>2 DEF Disk, SidesOK, Scanned
  <2> QED
    BY <2>1, <2>2, <1>2, <1>3, <1>4 DEF Disk, ClosedOK, TempMatches, SwapOK
<1>9. CASE CompactRename
  <2>1. /\ compaction.pc = "plan" /\ compaction'.pc = "swap" /\ compaction'.closed = compaction.closed
        /\ lock' = "compact" /\ log' = {e \in log : e.seg # 1} \cup temp /\ files' = files \cup {1}
        /\ sides' = sides \ {"compacting"} /\ planned' = planned
    BY <1>1, <1>9 DEF CompactRename, CompactStep
  <2>2. sides' = {"plan"} /\ planned = compaction.closed
    BY <2>1 DEF Disk, SidesOK
  <2>3. 1 \in files
    BY <1>2 DEF Disk, FilesStart, Scanned
  <2>4. Front(files, compaction.closed) /\ temp = Compacted(InSegments(log, compaction.closed))
    BY <2>1 DEF Disk, ClosedOK, TempMatches
  <2>5. Forgets(Tips(log), Tips(log)') /\ Replaced(log', compaction.closed)
    <3>1. log' = Unlinked(log, 1) \cup temp /\ Held(log, files)
      BY <2>1, <1>1 DEF Unlinked, Held
    <3> QED
      BY <3>1, <2>4, <1>1, TipsRename
  <2>6. SidesOK'
    BY <2>1, <2>2, <1>2 DEF Disk, SidesOK, Scanned
  <2>7. files' = files
    BY <2>1, <2>3
  <2>8. ClosedOK' /\ TempMatches' /\ FilesStart'
    BY <2>1, <2>3, <2>4, <2>7 DEF ClosedOK, TempMatches, FilesStart
  <2>9. SwapOK'
    BY <2>1, <2>2, <2>4, <2>5, <2>7 DEF SwapOK
  <2> QED
    BY <2>5, <2>6, <2>8, <2>9, <1>3 DEF Disk
<1>10. CASE CompactUnlink
  <2>1. /\ compaction.pc = "swap" /\ UNCHANGED <<sides, temp, planned, lock, compaction>>
    BY <1>10 DEF CompactUnlink, sideVars
  <2>2. PICK s \in Obsolete : /\ \A r \in Obsolete : s <= r
                              /\ files' = files \ {s} /\ log' = {e \in log : e.seg # s}
    BY <1>10 DEF CompactUnlink
  <2>3. sides = {"plan"} /\ planned = compaction.closed
    BY <2>1, <1>2 DEF Disk, SidesOK
  <2>4. Front(files, planned) /\ Replaced(log, planned)
    BY <2>3, <1>2 DEF Disk, SwapOK
  <2>5. planned \subseteq Nat /\ FirstObsolete(s, planned, files) /\ s > 1
    BY <2>2, <2>3, <1>1 DEF Obsolete, FirstObsolete
  <2>6. Forgets(Tips(log), Tips(log)') /\ Replaced(log', planned)
    BY <2>2, <2>4, <2>5, UnlinkTips
  <2>7. Front(files', planned)
    BY <2>2, <2>4 DEF Front
  <2>8. SidesOK'
    BY <2>1, <1>2 DEF Disk, SidesOK, Scanned
  <2>9. ClosedOK' /\ TempMatches' /\ SwapOK'
    BY <2>1, <2>3, <2>6, <2>7 DEF ClosedOK, TempMatches, SwapOK
  <2>10. FilesStart'
    BY <2>2, <2>5, <1>2 DEF Disk, FilesStart, Scanned
  <2> QED
    BY <2>6, <2>8, <2>9, <2>10, <1>3 DEF Disk
<1>11. CASE CompactFinish
  <2>1. /\ compaction.pc = "swap" /\ compaction'.pc = "idle" /\ sides' = sides \ {"plan"} /\ planned' = {}
        /\ lock' = "free" /\ UNCHANGED <<log, files, temp>>
    BY <1>11 DEF CompactFinish, NoCompaction, walVars
  <2>2. sides' = {}
    BY <2>1, <1>2 DEF Disk, SidesOK
  <2>3. SidesOK'
    BY <2>1, <2>2, <1>2 DEF SidesOK, Scanned
  <2> QED
    BY <2>1, <2>2, <2>3, <1>3, <1>4 DEF Disk, ClosedOK, TempMatches, SwapOK
<1> QED
  BY <1>5, <1>6, <1>7, <1>8, <1>9, <1>10, <1>11 DEF Compaction

HIDE DEF CompactionDisk

-----------------------------------------------------------------------------
(* A kill leaves the directory as it is, but for a frame cut short at the    *)
(* end of the log.                                                           *)
LEMMA CrashDisk ==
  ASSUME Layout, SideFiles, Disk, Crash, Undisturbed
  PROVE  Disk' /\ log' = log
<1>1. /\ mode' = "down" /\ lock' = "free" /\ compaction'.pc = "idle"
      /\ UNCHANGED <<log, sides, temp, planned>> /\ mode # "discard"
  BY DEF Crash, NoCompaction, sideVars, Undisturbed
<1>2. SidesOK' /\ ClosedOK' /\ TempMatches'
  BY <1>1 DEF Disk, SidesOK, ClosedOK, TempMatches, Scanned
<1>3. CASE UNCHANGED <<torn, files>>
  <2>1. TornOK' /\ FilesStart'
    BY <1>1, <1>3 DEF Disk, TornOK, FilesStart, Scanned
  <2>2. SwapOK'
    BY <1>1, <1>3 DEF Disk, SwapOK
  <2> QED
    BY <2>1, <2>2, <1>1, <1>2 DEF Disk
<1>4. CASE /\ mode = "up" /\ lock # "compact" /\ files' = files \cup {NextSegment}
           /\ torn' \in {torn \cup {NextLoc}, torn}
  <2>1. /\ NextSegment \in Nat /\ active_segment_id <= NextSegment /\ active_segment_id \in Nat
        /\ \A s \in files : s <= NextSegment
        /\ \A e \in log : e.seg = NextSegment => e.off < NextOffset
    BY <1>4, NextLocFree DEF Layout, FilesOK
  <2>2. torn = {} /\ planned \subseteq Nat /\ 1 \in files /\ \A s \in planned : s < active_segment_id
    BY <1>4 DEF Disk, TornOK, SidesOK, FilesStart, Scanned, SideFiles
  <2>3. NextSegment \notin planned
    BY <2>1, <2>2
  <2>4. \A t \in torn' : t[1] = NextSegment /\ t[2] = NextOffset
    BY <2>2, <1>4 DEF NextLoc
  <2>5. TornOK'
    BY SMTT(30), <2>1, <2>3, <2>4, <1>1, <1>4 DEF TornOK, Scanned
  <2>6. SwapOK'
    BY <1>1, <1>4 DEF Disk, SidesOK, SwapOK
  <2>7. FilesStart'
    BY <2>2, <1>4 DEF FilesStart
  <2> QED
    BY <2>5, <2>6, <2>7, <1>1, <1>2 DEF Disk
<1> QED
  BY <1>3, <1>4 DEF Crash

(* open() finishes or discards what compaction left, and cuts nothing off    *)
(* the log.                                                                  *)
LEMMA OpenDisk ==
  ASSUME Layout, Layout', SideFiles, Disk, Open
  PROVE  Disk' /\ Forgets(Tips(log), Tips(log)') /\ (mode # "down" => log' = log)
<1>1. /\ log \subseteq Entry /\ IsFiniteSet(log) /\ Unique(log)
      /\ files \subseteq Nat \ {0} /\ \A e \in log : e.seg \in files
      /\ compaction.pc # "idle" => mode = "up"
  BY DEF Layout, IsLog, FilesOK, CompactionOK
<1>2. UNCHANGED <<lock, compaction>> /\ mode # "up" /\ compaction.pc = "idle"
  BY <1>1 DEF Open, OpenDiscardTemp, OpenDiscardPlan, OpenUnlink, OpenUnlinked, OpenNoPlan, OpenScan,
       RecoverIndex, ReplayReady, ReplayLeased, ReplayTerminal, RecoverDone, ReplayAs, Replaying,
       Recovering, Opening, threads
<1>3. ClosedOK' /\ TempMatches'
  BY <1>2 DEF ClosedOK, TempMatches
<1>4. lock # "compact"
  BY <1>2 DEF Disk, SidesOK
<1>5. ASSUME UNCHANGED log PROVE Forgets(Tips(log), Tips(log)')
  BY <1>5, ForgetsNothing
<1>6. CASE OpenDiscardTemp
  <2>1. /\ mode = "down" /\ mode' = "discard" /\ sides = {"compacting", "plan"} /\ sides' = {"plan"}
        /\ UNCHANGED <<log, files, planned, torn>>
    BY <1>6 DEF OpenDiscardTemp, Opening
  <2>2. TornOK' /\ FilesStart'
    BY <2>1 DEF Disk, TornOK, FilesStart, Scanned
  <2>3. SidesOK' /\ SwapOK'
    BY <2>1, <1>2, <1>4 DEF Disk, SidesOK, SwapOK, Scanned
  <2> QED
    BY <2>1, <2>2, <2>3, <1>3, <1>5 DEF Disk
<1>7. CASE OpenDiscardPlan \/ OpenUnlinked
  <2>1. /\ mode \in {"down", "discard"} /\ mode' = "scan" /\ "plan" \notin sides' /\ planned' = {}
        /\ UNCHANGED <<log, files, torn>>
    BY <1>7 DEF OpenDiscardPlan, OpenUnlinked, Opening
  <2>2. TornOK' /\ FilesStart'
    BY <2>1 DEF Disk, TornOK, FilesStart, Scanned
  <2>3. SidesOK' /\ SwapOK'
    BY <2>1, <1>2, <1>4 DEF SidesOK, SwapOK, Scanned
  <2> QED
    BY <2>1, <2>2, <2>3, <1>3, <1>5 DEF Disk
<1>8. CASE OpenUnlink
  <2>1. mode = "down" /\ sides = {"plan"} /\ UNCHANGED <<sides, temp, planned, mode, torn, active_segment_id>>
    BY <1>8 DEF OpenUnlink, sideVars, Opening
  <2>2. PICK s \in planned \cap files : /\ s > 1
                                        /\ \A r \in planned \cap files : r > 1 => s <= r
                                        /\ files' = files \ {s}
                                        /\ log' = {e \in log : e.seg # s}
    BY <1>8 DEF OpenUnlink
  <2>3. Front(files, planned) /\ Replaced(log, planned) /\ planned \subseteq Nat
    BY <2>1 DEF Disk, SwapOK, SideFiles
  <2>9. FirstObsolete(s, planned, files)
    BY <2>2 DEF FirstObsolete
  <2>4. Forgets(Tips(log), Tips(log)') /\ Replaced(log', planned)
    BY <2>2, <2>3, <2>9, UnlinkTips
  <2>5. Front(files', planned)
    BY <2>2, <2>3 DEF Front
  <2>6. SidesOK' /\ SwapOK'
    BY <2>1, <2>4, <2>5, <1>2 DEF Disk, SidesOK, SwapOK, Scanned
  <2>7. TornOK'
    BY <2>1, <2>2 DEF Disk, TornOK, Scanned
  <2>8. FilesStart'
    BY <2>1, <2>2 DEF Disk, FilesStart, Scanned
  <2> QED
    BY <2>1, <2>4, <2>6, <2>7, <2>8, <1>3 DEF Disk
<1>9. CASE OpenNoPlan
  <2>1. /\ mode = "down" /\ mode' = "scan" /\ "plan" \notin sides
        /\ UNCHANGED <<log, files, torn, sides, temp, planned>>
    BY <1>9 DEF OpenNoPlan, sideVars, Opening
  <2>2. TornOK' /\ FilesStart'
    BY <2>1 DEF Disk, TornOK, FilesStart, Scanned
  <2>3. SidesOK' /\ SwapOK'
    BY <2>1, <1>2, <1>4 DEF Disk, SidesOK, SwapOK, Scanned
  <2> QED
    BY <2>1, <2>2, <2>3, <1>3, <1>5 DEF Disk
<1>10. CASE OpenScan
  <2>1. /\ mode = "scan" /\ mode' = "index" /\ sides' = sides \ {"compacting"} /\ planned' = planned
        /\ files' = files \cup {LastSegment}
        /\ log' = {e \in log : e.seg # LastSegment \/ e \in Readable(log, torn)}
        /\ torn' = {t \in torn : t[1] # LastSegment}
    BY <1>10 DEF OpenScan, LastSegment
  <2>2. log' = log
    BY <2>1, AllReadable DEF Disk
  <2>3. sides' = {} /\ planned = {}
    BY <2>1 DEF Disk, SidesOK, SideFiles
  <2>4. LastSegment \in Nat /\ \A r \in files : r <= LastSegment
    BY LastSegmentOK
  <2>5. files # {} => LastSegment \in files
    BY LargestExists DEF LastSegment, Layout, FilesOK
  <2>6. torn' = {}
    <3> SUFFICES ASSUME NEW t \in torn PROVE t[1] = LastSegment
      BY <2>1
    <3>1. t[1] \in files /\ \A s \in files : s <= t[1]
      BY DEF Disk, TornOK
    <3>2. t[1] \in Nat
      BY <3>1, <1>1
    <3> QED
      BY <3>1, <3>2, <2>4, <2>5
  <2>7. 1 \in files'
    <3>1. CASE files = {}
      BY <3>1, <2>1 DEF LastSegment
    <3>2. CASE files # {}
      BY <3>2, <2>1 DEF Disk, FilesStart
    <3> QED
      BY <3>1, <3>2
  <2>8. SidesOK' /\ SwapOK'
    BY <2>1, <2>3, <1>2, <1>4 DEF SidesOK, SwapOK, Scanned
  <2> QED
    BY <2>1, <2>2, <2>6, <2>7, <2>8, <1>3, <1>5 DEF Disk, TornOK, FilesStart
<1>11. CASE RecoverIndex \/ ReplayReady \/ ReplayLeased \/ ReplayTerminal \/ RecoverDone
  <2>1. /\ UNCHANGED <<log, torn, files, sides, temp, planned, active_segment_id>>
        /\ mode \in {"index", "replay"} /\ mode' \in {"replay", "up"}
    BY <1>11 DEF RecoverIndex, ReplayReady, ReplayLeased, ReplayTerminal, RecoverDone, ReplayAs, Replaying,
       Recovering, walVars, sideVars
  <2>2. TornOK' /\ FilesStart'
    BY <2>1 DEF Disk, TornOK, FilesStart, Scanned
  <2>3. SidesOK' /\ SwapOK'
    BY <2>1, <1>2, <1>4 DEF Disk, SidesOK, SwapOK, Scanned
  <2> QED
    BY <2>1, <2>2, <2>3, <1>3, <1>5 DEF Disk
<1> QED
  BY <1>6, <1>7, <1>8, <1>9, <1>10, <1>11 DEF Open

=============================================================================
