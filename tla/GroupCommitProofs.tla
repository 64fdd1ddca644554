-------------------------- MODULE GroupCommitProofs --------------------------
(***************************************************************************)
(* Proofs about GroupCommit for any number of threads, segments, batches,  *)
(* writes and fsync failures.                                              *)
(***************************************************************************)
EXTENDS GroupCommit, TLAPS

Committing == {"fsync", "synced"}
InBatch    == Waiting \cup Committing \cup {"check", "woken", "done"}

\* A thread checks the batch only while it holds the mutex.
MutexHeld == \A t \in Threads : pc[t] = "check" => holder = t

\* The batch being committed is the oldest one that is not synced, and every
\* thread in a batch has joined it before it was closed.
BatchesOrdered ==
  /\ \A t \in Threads : pc[t] \in Committing => my_batch[t] = last_synced_batch_id + 1
  /\ \A t \in Threads : pc[t] \in InBatch => my_batch[t] <= collecting_batch_id
  /\ \A g \in good : g[1] < collecting_batch_id

\* A segment that is no longer active has been synced by the rotation; a record
\* lies within its segment; nobody has a record or a file past the active one.
LogSynced ==
  /\ \A s \in Segments : s < active => written[s] <= durable[s]
  /\ \A t \in Threads : rec[t][2] <= written[rec[t][1]]
  /\ \A t \in Threads : rec[t][1] <= active /\ file[t] <= active

\* The fsync under way covers the records in the committer's file, of its batch
\* and of the batches before.
SnapCovers ==
  \A t, u \in Threads :
    (pc[t] = "fsync" /\ pc[u] \in InBatch /\ my_batch[u] <= my_batch[t] /\ rec[u][1] = file[t])
      => rec[u][2] <= snap[t]

\* Once a batch was fsynced with file f, its records and those of the batches
\* before are on the disk up to f, whether their own fsync failed or not.
GoodOnDisk ==
  \A t \in Threads : \A g \in good :
    (pc[t] \in InBatch /\ my_batch[t] <= g[1] /\ rec[t][1] <= g[2]) => OnDisk(rec[t])

\* Where the outcome that a caller reads comes from.  Who has returned was in a
\* batch that is published; an Ok, to be published, published or returned, goes
\* back to an fsync, though perhaps to that of a later batch.
Backed ==
  /\ \A t \in Threads : pc[t] \in InBatch => my_batch[t] >= 1
  /\ \A t \in Threads : pc[t] = "done" => my_batch[t] <= last_synced_batch_id
  /\ \A t \in Threads : pc[t] = "synced" => result[t] = "err" \/ <<my_batch[t], file[t]>> \in good
  /\ ~last_error /\ last_synced_batch_id > 0 => \E g \in good : g[1] = last_synced_batch_id
  /\ \A t \in Threads : pc[t] = "done" /\ result[t] = "ok" => \E g \in good : g[1] >= my_batch[t]

\* As long as no fsync has failed every published batch was fsynced.
FaultFree ==
  faults = 0 => /\ ~last_error
                /\ \A t \in Threads : pc[t] = "synced" => result[t] = "ok"
                /\ \A b \in 1..last_synced_batch_id : \E f \in Segments : <<b, f>> \in good

IInv == /\ TypeOK /\ MutexHeld /\ OneFsync /\ BatchesOrdered /\ LogSynced /\ SnapCovers
        /\ GoodOnDisk /\ Backed /\ FaultFree

-----------------------------------------------------------------------------
\* Segments are numbered from 1.
LEMMA FirstSegment == 1 \in Segments
  BY GroupCommitAssumption DEF Segments

\* Segment numbers are naturals.
LEMMA SegmentsNat == Segments \subseteq Nat
  BY SMTT(30), GroupCommitAssumption DEF Segments

(* Every step keeps the types of the group commit state and of its callers. *)
LEMMA TypeStep == TypeOK /\ [Next]_vars => TypeOK'
<1> SUFFICES ASSUME TypeOK, [Next]_vars PROVE TypeOK'
  OBVIOUS
<1> USE FirstSegment DEF TypeOK, Waiting, log, batch, timers, local
<1>1. ASSUME NEW t \in Threads, Append(t) PROVE TypeOK'
  <2>1. writes' \in Nat
    BY <1>1 DEF Append, Write
  <2>2. written' \in [Segments -> Nat]
    BY <1>1 DEF Append, Write
  <2>3. rec' \in [Threads -> Segments \X Nat]
    BY <1>1 DEF Append, Write
  <2>4. pc' \in [Threads -> Waiting \cup {"idle", "appended", "flush", "join", "check", "woken",
                                        "fsync", "synced", "done"}]
    BY <1>1 DEF Append, Write, Goto
  <2> QED
    BY <1>1, <2>1, <2>2, <2>3, <2>4 DEF Append, Write
<1>2. ASSUME NEW t \in Threads, AppendRotates(t) PROVE TypeOK'
  <2>1. writes' \in Nat
    BY <1>2 DEF AppendRotates, Write
  <2>2. written' \in [Segments -> Nat] /\ durable' \in [Segments -> Nat]
    BY <1>2 DEF AppendRotates, Write
  <2>3. rec' \in [Threads -> Segments \X Nat]
    BY <1>2 DEF AppendRotates, Write
  <2>4. pc' \in [Threads -> Waiting \cup {"idle", "appended", "flush", "join", "check", "woken",
                                        "fsync", "synced", "done"}]
    BY <1>2 DEF AppendRotates, Write, Goto
  <2> QED
    BY <1>2, <2>1, <2>2, <2>3, <2>4 DEF AppendRotates, Write
<1>3. ASSUME NEW t \in Threads, TakeFile(t) PROVE TypeOK'
  BY <1>3 DEF TakeFile, Goto
<1>4. ASSUME NEW t \in Threads, TakeFileToFlush(t) PROVE TypeOK'
  <2>1. rec' \in [Threads -> Segments \X Nat]
    BY <1>4 DEF TakeFileToFlush
  <2>2. file' \in [Threads -> Segments]
    BY <1>4 DEF TakeFileToFlush
  <2>3. pc' \in [Threads -> Waiting \cup {"idle", "appended", "flush", "join", "check", "woken",
                                        "fsync", "synced", "done"}]
    BY <1>4 DEF TakeFileToFlush, Goto
  <2> QED
    BY <1>4, <2>1, <2>2, <2>3 DEF TakeFileToFlush
<1>5. ASSUME NEW t \in Threads, SetForceFlush(t) PROVE TypeOK'
  BY <1>5 DEF SetForceFlush, NotifyAll
<1>6. ASSUME NEW t \in Threads, Join(t) PROVE TypeOK'
  <2>1. waiters_in_collecting' \in Nat
    BY <1>6 DEF Join
  <2>2. my_batch' \in [Threads -> Nat]
    BY <1>6 DEF Join
  <2>3. pc' \in [Threads -> Waiting \cup {"idle", "appended", "flush", "join", "check", "woken",
                                        "fsync", "synced", "done"}]
    BY <1>6 DEF Join, NotifyAll
  <2> QED
    BY Zenon, <1>6, <2>1, <2>2, <2>3 DEF Join
<1>7. ASSUME NEW t \in Threads, ReturnSynced(t) PROVE TypeOK'
  BY <1>7 DEF ReturnSynced, Goto
<1>8. ASSUME NEW t \in Threads, CloseBatch(t) PROVE TypeOK'
  <2>1. collecting_batch_id' \in Nat \ {0} /\ waiters_in_collecting' \in Nat
    BY <1>8 DEF CloseBatch
  <2>2. snap' \in [Threads -> Nat]
    BY <1>8 DEF CloseBatch
  <2>3. pc' \in [Threads -> Waiting \cup {"idle", "appended", "flush", "join", "check", "woken",
                                        "fsync", "synced", "done"}]
    BY <1>8 DEF CloseBatch, Goto
  <2> QED
    BY Zenon, <1>8, <2>1, <2>2, <2>3 DEF CloseBatch
<1>9. ASSUME NEW t \in Threads, WaitTimeout(t) PROVE TypeOK'
  BY <1>9 DEF WaitTimeout, Wait, Goto
<1>10. ASSUME NEW t \in Threads, WaitTurn(t) PROVE TypeOK'
  BY <1>10 DEF WaitTurn, Wait, Goto
<1>11. ASSUME NEW t \in Threads, TimedOut(t) PROVE TypeOK'
  BY <1>11 DEF TimedOut, Goto
<1>12. ASSUME NEW t \in Threads, Reacquire(t) PROVE TypeOK'
  BY <1>12 DEF Reacquire, Goto
<1>13. ASSUME NEW t \in Threads, FsyncOk(t) PROVE TypeOK'
  <2>1. durable' \in [Segments -> Nat]
    BY <1>13 DEF FsyncOk
  <2>2. good' \in SUBSET (Nat \X Segments)
    BY <1>13 DEF FsyncOk
  <2>3. result' \in [Threads -> {"none", "ok", "err"}]
    BY <1>13 DEF FsyncOk
  <2>4. pc' \in [Threads -> Waiting \cup {"idle", "appended", "flush", "join", "check", "woken",
                                        "fsync", "synced", "done"}]
    BY <1>13 DEF FsyncOk, Goto
  <2> QED
    BY <1>13, <2>1, <2>2, <2>3, <2>4 DEF FsyncOk
<1>14. ASSUME NEW t \in Threads, Publish(t) PROVE TypeOK'
  BY Zenon, <1>14 DEF Publish, NotifyAll
<1>15. ASSUME NEW t \in Threads, FsyncFails(t) PROVE TypeOK'
  <2>1. faults' \in Nat
    BY <1>15 DEF FsyncFails
  <2>2. result' \in [Threads -> {"none", "ok", "err"}]
    BY <1>15 DEF FsyncFails
  <2>3. pc' \in [Threads -> Waiting \cup {"idle", "appended", "flush", "join", "check", "woken",
                                        "fsync", "synced", "done"}]
    BY <1>15 DEF FsyncFails, Goto
  <2> QED
    BY <1>15, <2>1, <2>2, <2>3 DEF FsyncFails
<1>16. ASSUME NEW t \in Threads, Again(t) PROVE TypeOK'
  BY <1>16 DEF Again, Goto
<1>17. CASE WindowOver
  BY <1>17 DEF WindowOver
<1>18. CASE IdleOver
  BY <1>18 DEF IdleOver
<1>19. CASE UNCHANGED vars
  BY <1>19 DEF vars
<1> QED
  BY Zenon, <1>1, <1>2, <1>3, <1>4, <1>5, <1>6, <1>7, <1>8, <1>9,
     <1>10, <1>11, <1>12, <1>13, <1>14, <1>15, <1>16, <1>17, <1>18, <1>19 DEF Next, Proceed

(* Only the thread that has locked `state` goes through the loop of sync(). *)
LEMMA MutexStep == TypeOK /\ MutexHeld /\ [Next]_vars => MutexHeld'
<1> SUFFICES ASSUME TypeOK /\ MutexHeld, [Next]_vars PROVE MutexHeld'
  OBVIOUS
<1> USE FirstSegment, SegmentsNat DEF TypeOK, MutexHeld, Waiting, log, batch, timers, local
<1>1. ASSUME NEW t \in Threads, Append(t) PROVE MutexHeld'
  BY <1>1 DEF Append, Write, Goto
<1>2. ASSUME NEW t \in Threads, AppendRotates(t) PROVE MutexHeld'
  BY <1>2 DEF AppendRotates, Write, Goto
<1>3. ASSUME NEW t \in Threads, TakeFile(t) PROVE MutexHeld'
  BY <1>3 DEF TakeFile, Goto
<1>4. ASSUME NEW t \in Threads, TakeFileToFlush(t) PROVE MutexHeld'
  BY <1>4 DEF TakeFileToFlush, Goto
<1>5. ASSUME NEW t \in Threads, SetForceFlush(t) PROVE MutexHeld'
  BY <1>5 DEF SetForceFlush, NotifyAll
<1>6. ASSUME NEW t \in Threads, Join(t) PROVE MutexHeld'
  BY <1>6, GroupCommitAssumption DEF Join, NotifyAll
<1>7. ASSUME NEW t \in Threads, ReturnSynced(t) PROVE MutexHeld'
  BY <1>7 DEF ReturnSynced, Goto
<1>8. ASSUME NEW t \in Threads, CloseBatch(t) PROVE MutexHeld'
  BY <1>8 DEF CloseBatch, MyTurn, Goto
<1>9. ASSUME NEW t \in Threads, WaitTimeout(t) PROVE MutexHeld'
  BY <1>9 DEF WaitTimeout, Wait, Goto
<1>10. ASSUME NEW t \in Threads, WaitTurn(t) PROVE MutexHeld'
  BY <1>10 DEF WaitTurn, Wait, Goto
<1>11. ASSUME NEW t \in Threads, TimedOut(t) PROVE MutexHeld'
  BY <1>11 DEF TimedOut, Goto
<1>12. ASSUME NEW t \in Threads, Reacquire(t) PROVE MutexHeld'
  BY <1>12, GroupCommitAssumption DEF Reacquire, Goto
<1>13. ASSUME NEW t \in Threads, FsyncOk(t) PROVE MutexHeld'
  BY <1>13 DEF FsyncOk, Goto
<1>14. ASSUME NEW t \in Threads, Publish(t) PROVE MutexHeld'
  BY <1>14 DEF Publish, NotifyAll
<1>15. ASSUME NEW t \in Threads, FsyncFails(t) PROVE MutexHeld'
  BY <1>15 DEF FsyncFails, Goto
<1>16. ASSUME NEW t \in Threads, Again(t) PROVE MutexHeld'
  BY <1>16 DEF Again, Goto
<1>17. CASE WindowOver
  BY <1>17 DEF WindowOver
<1>18. CASE IdleOver
  BY <1>18 DEF IdleOver
<1>19. CASE UNCHANGED vars
  BY SMTT(30), <1>19 DEF vars
<1> QED
  BY <1>1, <1>2, <1>3, <1>4, <1>5, <1>6, <1>7, <1>8, <1>9,
     <1>10, <1>11, <1>12, <1>13, <1>14, <1>15, <1>16, <1>17, <1>18, <1>19 DEF Next, Proceed

(* fsync_in_progress keeps a second committer out. *)
LEMMA OneFsyncStep == TypeOK /\ MutexHeld /\ OneFsync /\ BatchesOrdered /\ [Next]_vars => OneFsync'
<1> SUFFICES ASSUME TypeOK /\ MutexHeld /\ OneFsync /\ BatchesOrdered, [Next]_vars PROVE OneFsync'
  OBVIOUS
<1> USE FirstSegment, SegmentsNat DEF TypeOK, MutexHeld, OneFsync, BatchesOrdered, Waiting, Committing, InBatch, log, batch, timers, local
<1>1. ASSUME NEW t \in Threads, Append(t) PROVE OneFsync'
  BY <1>1 DEF Append, Write, Goto
<1>2. ASSUME NEW t \in Threads, AppendRotates(t) PROVE OneFsync'
  BY <1>2 DEF AppendRotates, Write, Goto
<1>3. ASSUME NEW t \in Threads, TakeFile(t) PROVE OneFsync'
  BY <1>3 DEF TakeFile, Goto
<1>4. ASSUME NEW t \in Threads, TakeFileToFlush(t) PROVE OneFsync'
  BY <1>4 DEF TakeFileToFlush, Goto
<1>5. ASSUME NEW t \in Threads, SetForceFlush(t) PROVE OneFsync'
  BY SMTT(30), <1>5 DEF SetForceFlush, NotifyAll
<1>6. ASSUME NEW t \in Threads, Join(t) PROVE OneFsync'
  BY <1>6 DEF Join, NotifyAll
<1>7. ASSUME NEW t \in Threads, ReturnSynced(t) PROVE OneFsync'
  BY <1>7 DEF ReturnSynced, Goto
<1>8. ASSUME NEW t \in Threads, CloseBatch(t) PROVE OneFsync'
  BY <1>8 DEF CloseBatch, MyTurn, Goto
<1>9. ASSUME NEW t \in Threads, WaitTimeout(t) PROVE OneFsync'
  BY <1>9 DEF WaitTimeout, Wait, Goto
<1>10. ASSUME NEW t \in Threads, WaitTurn(t) PROVE OneFsync'
  BY <1>10 DEF WaitTurn, Wait, Goto
<1>11. ASSUME NEW t \in Threads, TimedOut(t) PROVE OneFsync'
  BY <1>11 DEF TimedOut, Goto
<1>12. ASSUME NEW t \in Threads, Reacquire(t) PROVE OneFsync'
  BY <1>12 DEF Reacquire, Goto
<1>13. ASSUME NEW t \in Threads, FsyncOk(t) PROVE OneFsync'
  BY <1>13 DEF FsyncOk, Goto
<1>14. ASSUME NEW t \in Threads, Publish(t) PROVE OneFsync'
  BY <1>14 DEF Publish, NotifyAll
<1>15. ASSUME NEW t \in Threads, FsyncFails(t) PROVE OneFsync'
  BY <1>15 DEF FsyncFails, Goto
<1>16. ASSUME NEW t \in Threads, Again(t) PROVE OneFsync'
  BY <1>16 DEF Again, Goto
<1>17. CASE WindowOver
  BY <1>17 DEF WindowOver
<1>18. CASE IdleOver
  BY <1>18 DEF IdleOver
<1>19. CASE UNCHANGED vars
  BY SMTT(30), <1>19 DEF vars
<1> QED
  BY <1>1, <1>2, <1>3, <1>4, <1>5, <1>6, <1>7, <1>8, <1>9,
     <1>10, <1>11, <1>12, <1>13, <1>14, <1>15, <1>16, <1>17, <1>18, <1>19 DEF Next, Proceed

(* Batches are joined, closed and published in the order of their ids. *)
LEMMA BatchesStep == TypeOK /\ MutexHeld /\ OneFsync /\ BatchesOrdered /\ [Next]_vars => BatchesOrdered'
<1> SUFFICES ASSUME TypeOK /\ MutexHeld /\ OneFsync /\ BatchesOrdered, [Next]_vars PROVE BatchesOrdered'
  OBVIOUS
<1> USE FirstSegment, SegmentsNat DEF TypeOK, MutexHeld, OneFsync, BatchesOrdered, Waiting, Committing, InBatch, log, batch, timers, local
<1>1. ASSUME NEW t \in Threads, Append(t) PROVE BatchesOrdered'
  BY <1>1 DEF Append, Write, Goto
<1>2. ASSUME NEW t \in Threads, AppendRotates(t) PROVE BatchesOrdered'
  BY <1>2 DEF AppendRotates, Write, Goto
<1>3. ASSUME NEW t \in Threads, TakeFile(t) PROVE BatchesOrdered'
  BY <1>3 DEF TakeFile, Goto
<1>4. ASSUME NEW t \in Threads, TakeFileToFlush(t) PROVE BatchesOrdered'
  BY <1>4 DEF TakeFileToFlush, Goto
<1>5. ASSUME NEW t \in Threads, SetForceFlush(t) PROVE BatchesOrdered'
  BY <1>5 DEF SetForceFlush, NotifyAll
<1>6. ASSUME NEW t \in Threads, Join(t) PROVE BatchesOrdered'
  BY <1>6 DEF Join, NotifyAll
<1>7. ASSUME NEW t \in Threads, ReturnSynced(t) PROVE BatchesOrdered'
  BY <1>7 DEF ReturnSynced, Goto
<1>8. ASSUME NEW t \in Threads, CloseBatch(t) PROVE BatchesOrdered'
  BY <1>8 DEF CloseBatch, MyTurn, Goto
<1>9. ASSUME NEW t \in Threads, WaitTimeout(t) PROVE BatchesOrdered'
  BY <1>9 DEF WaitTimeout, Wait, Goto
<1>10. ASSUME NEW t \in Threads, WaitTurn(t) PROVE BatchesOrdered'
  BY <1>10 DEF WaitTurn, Wait, Goto
<1>11. ASSUME NEW t \in Threads, TimedOut(t) PROVE BatchesOrdered'
  BY <1>11 DEF TimedOut, Goto
<1>12. ASSUME NEW t \in Threads, Reacquire(t) PROVE BatchesOrdered'
  BY <1>12 DEF Reacquire, Goto
<1>13. ASSUME NEW t \in Threads, FsyncOk(t) PROVE BatchesOrdered'
  BY <1>13 DEF FsyncOk, Goto
<1>14. ASSUME NEW t \in Threads, Publish(t) PROVE BatchesOrdered'
  BY <1>14 DEF Publish, NotifyAll
<1>15. ASSUME NEW t \in Threads, FsyncFails(t) PROVE BatchesOrdered'
  BY <1>15 DEF FsyncFails, Goto
<1>16. ASSUME NEW t \in Threads, Again(t) PROVE BatchesOrdered'
  BY <1>16 DEF Again, Goto
<1>17. CASE WindowOver
  BY <1>17 DEF WindowOver
<1>18. CASE IdleOver
  BY <1>18 DEF IdleOver
<1>19. CASE UNCHANGED vars
  BY SMTT(30), <1>19 DEF vars
<1> QED
  BY Zenon, <1>1, <1>2, <1>3, <1>4, <1>5, <1>6, <1>7, <1>8, <1>9,
     <1>10, <1>11, <1>12, <1>13, <1>14, <1>15, <1>16, <1>17, <1>18, <1>19 DEF Next, Proceed

(* rotate() syncs a segment before it stops being the active one. *)
LEMMA LogStep == TypeOK /\ LogSynced /\ [Next]_vars => LogSynced'
<1> SUFFICES ASSUME TypeOK /\ LogSynced, [Next]_vars PROVE LogSynced'
  OBVIOUS
<1> USE FirstSegment, SegmentsNat DEF TypeOK, LogSynced, Waiting, log, batch, timers, local
<1>1. ASSUME NEW t \in Threads, Append(t) PROVE LogSynced'
  BY <1>1 DEF Append, Write, Goto
<1>2. ASSUME NEW t \in Threads, AppendRotates(t) PROVE LogSynced'
  <2>1. \A s \in Segments : s < active' => written'[s] <= durable'[s]
    BY <1>2 DEF AppendRotates, Write
  <2>2. \A u \in Threads : rec'[u][2] <= written'[rec'[u][1]]
    BY <1>2 DEF AppendRotates, Write
  <2>3. \A u \in Threads : rec'[u][1] <= active' /\ file'[u] <= active'
    <3>1. active \in Nat /\ active' = active + 1 /\ file' = file
      BY <1>2 DEF AppendRotates, Write
    <3>2. \A u \in Threads : rec[u][1] \in Nat /\ rec[u][1] <= active
                            /\ file[u] \in Nat /\ file[u] <= active
      BY Zenon
    <3>3. \A u \in Threads : rec'[u] = rec[u] \/ rec'[u][1] = active'
      BY <1>2 DEF AppendRotates, Write
    <3> QED
      BY <3>1, <3>2, <3>3
  <2> QED
    BY <2>1, <2>2, <2>3
<1>3. ASSUME NEW t \in Threads, TakeFile(t) PROVE LogSynced'
  BY <1>3 DEF TakeFile, Goto
<1>4. ASSUME NEW t \in Threads, TakeFileToFlush(t) PROVE LogSynced'
  <2>1. 1 <= active
    BY GroupCommitAssumption DEF Segments
  <2> QED
    BY <1>4, <2>1 DEF TakeFileToFlush
<1>5. ASSUME NEW t \in Threads, SetForceFlush(t) PROVE LogSynced'
  BY <1>5 DEF SetForceFlush, NotifyAll
<1>6. ASSUME NEW t \in Threads, Join(t) PROVE LogSynced'
  BY <1>6 DEF Join, NotifyAll
<1>7. ASSUME NEW t \in Threads, ReturnSynced(t) PROVE LogSynced'
  BY <1>7 DEF ReturnSynced, Goto
<1>8. ASSUME NEW t \in Threads, CloseBatch(t) PROVE LogSynced'
  BY <1>8 DEF CloseBatch, MyTurn, Goto
<1>9. ASSUME NEW t \in Threads, WaitTimeout(t) PROVE LogSynced'
  BY <1>9 DEF WaitTimeout, Wait, Goto
<1>10. ASSUME NEW t \in Threads, WaitTurn(t) PROVE LogSynced'
  BY <1>10 DEF WaitTurn, Wait, Goto
<1>11. ASSUME NEW t \in Threads, TimedOut(t) PROVE LogSynced'
  BY <1>11 DEF TimedOut, Goto
<1>12. ASSUME NEW t \in Threads, Reacquire(t) PROVE LogSynced'
  BY <1>12 DEF Reacquire, Goto
<1>13. ASSUME NEW t \in Threads, FsyncOk(t) PROVE LogSynced'
  BY <1>13 DEF FsyncOk, Goto
<1>14. ASSUME NEW t \in Threads, Publish(t) PROVE LogSynced'
  BY <1>14 DEF Publish, NotifyAll
<1>15. ASSUME NEW t \in Threads, FsyncFails(t) PROVE LogSynced'
  BY <1>15 DEF FsyncFails, Goto
<1>16. ASSUME NEW t \in Threads, Again(t) PROVE LogSynced'
  BY <1>16 DEF Again, Goto
<1>17. CASE WindowOver
  BY <1>17 DEF WindowOver
<1>18. CASE IdleOver
  BY <1>18 DEF IdleOver
<1>19. CASE UNCHANGED vars
  BY SMTT(30), <1>19 DEF vars
<1> QED
  BY Zenon, <1>1, <1>2, <1>3, <1>4, <1>5, <1>6, <1>7, <1>8, <1>9,
     <1>10, <1>11, <1>12, <1>13, <1>14, <1>15, <1>16, <1>17, <1>18, <1>19 DEF Next, Proceed

\* What a caller changes by joining: it enters the batch that is collecting, and
\* who was waiting wakes up.  (group_commit.rs:172-184)
LEMMA JoinMoves ==
  ASSUME TypeOK, NEW t \in Threads, Join(t)
  PROVE  /\ UNCHANGED <<rec, file, snap, good, durable, last_error, last_synced_batch_id, faults, result>>
         /\ my_batch'[t] = collecting_batch_id /\ pc'[t] = "check"
         /\ \A u \in Threads : u # t => my_batch'[u] = my_batch[u]
         /\ \A u \in Threads : u # t => pc'[u] = pc[u] \/ (pc'[u] = "woken" /\ pc[u] \in Waiting)
<1>1. UNCHANGED <<rec, file, snap, good, durable, last_error, last_synced_batch_id, faults, result>>
  BY Zenon DEF Join, log
<1>2. my_batch'[t] = collecting_batch_id /\ \A u \in Threads : u # t => my_batch'[u] = my_batch[u]
  <2>1. my_batch' = [my_batch EXCEPT ![t] = collecting_batch_id] /\ my_batch \in [Threads -> Nat]
    BY Zenon DEF Join, TypeOK
  <2> QED
    BY Zenon, <2>1
<1>3. /\ pc'[t] = "check"
      /\ \A u \in Threads : u # t => pc'[u] = pc[u] \/ (pc'[u] = "woken" /\ pc[u] \in Waiting)
  BY Zenon DEF Join, NotifyAll
<1> QED
  BY Zenon, <1>1, <1>2, <1>3

\* Who joins does so behind the batch that is being fsynced.  (group_commit.rs:172-184)
LEMMA SnapJoin ==
  ASSUME TypeOK, OneFsync, BatchesOrdered, SnapCovers, NEW t \in Threads, Join(t)
  PROVE  SnapCovers'
<1> SUFFICES ASSUME NEW x \in Threads, NEW u \in Threads, pc'[x] = "fsync", pc'[u] \in InBatch,
                    my_batch'[u] <= my_batch'[x], rec'[u][1] = file'[x]
             PROVE  rec'[u][2] <= snap'[x]
  BY Zenon DEF SnapCovers
<1>1. x # t /\ pc[x] = "fsync" /\ my_batch'[x] = my_batch[x] /\ rec' = rec /\ file' = file /\ snap' = snap
  BY Zenon, JoinMoves
<1>2. u # t
  <2>1. my_batch[x] < collecting_batch_id
    BY SMTT(30), <1>1 DEF OneFsync, BatchesOrdered, TypeOK, Committing
  <2>2. my_batch'[t] = collecting_batch_id /\ my_batch[x] \in Nat /\ collecting_batch_id \in Nat
    BY Zenon, JoinMoves DEF TypeOK
  <2>3. ~(collecting_batch_id <= my_batch[x])
    BY SMTT(30), <2>1, <2>2
  <2> QED
    BY ZenonT(30), <1>1, <2>2, <2>3
<1>3. pc[u] \in InBatch /\ my_batch'[u] = my_batch[u]
  BY Zenon, <1>2, JoinMoves DEF InBatch
<1> QED
  BY Zenon, <1>1, <1>3 DEF SnapCovers

\* A failed fsync ends the committer's hold on its batch.  (group_commit.rs:225)
LEMMA SnapFsyncFails ==
  ASSUME TypeOK, SnapCovers, NEW t \in Threads, FsyncFails(t)
  PROVE  SnapCovers'
<1> SUFFICES ASSUME NEW x \in Threads, NEW u \in Threads, pc'[x] = "fsync", pc'[u] \in InBatch,
                    my_batch'[u] <= my_batch'[x], rec'[u][1] = file'[x]
             PROVE  rec'[u][2] <= snap'[x]
  BY Zenon DEF SnapCovers
<1>1. my_batch' = my_batch /\ rec' = rec /\ file' = file /\ snap' = snap
  BY Zenon DEF FsyncFails
<1>2. DOMAIN pc = Threads /\ pc[t] = "fsync" /\ pc' = [pc EXCEPT ![t] = "synced"]
  BY Zenon DEF FsyncFails, Goto, TypeOK
<1>3. pc[x] = "fsync" /\ pc[u] \in InBatch
  BY <1>2 DEF InBatch, Committing
<1> QED
  BY Zenon, <1>1, <1>3 DEF SnapCovers

(* A batch is closed before its fsync starts, and every member has written before. *)
LEMMA SnapStep == TypeOK /\ OneFsync /\ BatchesOrdered /\ LogSynced /\ SnapCovers /\ [Next]_vars => SnapCovers'
<1> SUFFICES ASSUME TypeOK /\ OneFsync /\ BatchesOrdered /\ LogSynced /\ SnapCovers, [Next]_vars PROVE SnapCovers'
  OBVIOUS
<1> USE FirstSegment, SegmentsNat DEF TypeOK, OneFsync, BatchesOrdered, LogSynced, SnapCovers, Waiting, Committing, InBatch, log, batch, timers, local
<1>1. ASSUME NEW t \in Threads, Append(t) PROVE SnapCovers'
  BY SMTT(30), <1>1 DEF Append, Write, Goto
<1>2. ASSUME NEW t \in Threads, AppendRotates(t) PROVE SnapCovers'
  BY <1>2 DEF AppendRotates, Write, Goto
<1>3. ASSUME NEW t \in Threads, TakeFile(t) PROVE SnapCovers'
  BY <1>3 DEF TakeFile, Goto
<1>4. ASSUME NEW t \in Threads, TakeFileToFlush(t) PROVE SnapCovers'
  BY <1>4 DEF TakeFileToFlush, Goto
<1>5. ASSUME NEW t \in Threads, SetForceFlush(t) PROVE SnapCovers'
  BY <1>5 DEF SetForceFlush, NotifyAll
<1>6. ASSUME NEW t \in Threads, Join(t) PROVE SnapCovers'
  BY Zenon, <1>6, SnapJoin
<1>7. ASSUME NEW t \in Threads, ReturnSynced(t) PROVE SnapCovers'
  BY <1>7 DEF ReturnSynced, Goto
<1>8. ASSUME NEW t \in Threads, CloseBatch(t) PROVE SnapCovers'
  BY <1>8 DEF CloseBatch, MyTurn, Goto
<1>9. ASSUME NEW t \in Threads, WaitTimeout(t) PROVE SnapCovers'
  BY ZenonT(30), <1>9 DEF WaitTimeout, Wait, Goto
<1>10. ASSUME NEW t \in Threads, WaitTurn(t) PROVE SnapCovers'
  BY <1>10 DEF WaitTurn, Wait, Goto
<1>11. ASSUME NEW t \in Threads, TimedOut(t) PROVE SnapCovers'
  BY ZenonT(30), <1>11 DEF TimedOut, Goto
<1>12. ASSUME NEW t \in Threads, Reacquire(t) PROVE SnapCovers'
  BY <1>12 DEF Reacquire, Goto
<1>13. ASSUME NEW t \in Threads, FsyncOk(t) PROVE SnapCovers'
  BY SMTT(30), <1>13 DEF FsyncOk, Goto
<1>14. ASSUME NEW t \in Threads, Publish(t) PROVE SnapCovers'
  BY SMTT(30), <1>14 DEF Publish, NotifyAll
<1>15. ASSUME NEW t \in Threads, FsyncFails(t) PROVE SnapCovers'
  BY Zenon, <1>15, SnapFsyncFails
<1>16. ASSUME NEW t \in Threads, Again(t) PROVE SnapCovers'
  BY SMTT(30), <1>16 DEF Again, Goto
<1>17. CASE WindowOver
  BY SMTT(30), <1>17 DEF WindowOver
<1>18. CASE IdleOver
  BY <1>18 DEF IdleOver
<1>19. CASE UNCHANGED vars
  BY ZenonT(30), <1>19 DEF vars
<1> QED
  BY Zenon, <1>1, <1>2, <1>3, <1>4, <1>5, <1>6, <1>7, <1>8, <1>9,
     <1>10, <1>11, <1>12, <1>13, <1>14, <1>15, <1>16, <1>17, <1>18, <1>19 DEF Next, Proceed

(* fsync takes nothing back, and covers the committer's snapshot. *)
LEMMA FsyncDurable ==
  ASSUME TypeOK, NEW t \in Threads, FsyncOk(t), NEW s \in Segments
  PROVE  durable'[s] \in Nat /\ durable[s] <= durable'[s] /\ snap[t] <= durable'[file[t]]
<1> DEFINE f == file[t]
<1>1. f \in Segments /\ snap[t] \in Nat /\ durable \in [Segments -> Nat]
  BY SMTT(30) DEF TypeOK
<1>2. durable' = [durable EXCEPT ![f] = IF snap[t] > durable[f] THEN snap[t] ELSE durable[f]]
  BY ZenonT(30) DEF FsyncOk
<1> HIDE DEF f
<1>3. durable[s] \in Nat /\ durable[f] \in Nat
  BY <1>1
<1>4. durable'[f] \in Nat /\ durable[f] <= durable'[f] /\ snap[t] <= durable'[f]
  BY <1>1, <1>2, <1>3
<1>5. CASE s = f
  BY <1>4, <1>5 DEF f
<1>6. CASE s # f
  <2>1. durable'[s] = durable[s]
    BY <1>1, <1>2, <1>6
  <2> QED
    BY <2>1, <1>3, <1>4 DEF f
<1> QED
  BY <1>5, <1>6

(* The step that makes a batch durable: the record of a member lies in the     *)
(* committer's file, below what the fsync covers, or in a segment that a       *)
(* rotation has synced.                                                        *)
LEMMA GoodFsyncOk ==
  ASSUME TypeOK, LogSynced, SnapCovers, GoodOnDisk, NEW t \in Threads, FsyncOk(t)
  PROVE  GoodOnDisk'
<1> SUFFICES ASSUME NEW u \in Threads, NEW g \in good', pc'[u] \in InBatch,
                    my_batch'[u] <= g[1], rec'[u][1] <= g[2]
             PROVE  rec'[u][2] <= durable'[rec'[u][1]]
  BY SMTT(30) DEF GoodOnDisk, OnDisk
<1> DEFINE s == rec[u][1]
           n == rec[u][2]
<1>1. rec' = rec /\ my_batch' = my_batch /\ pc[u] \in InBatch
  BY SMTT(30) DEF FsyncOk, Goto, TypeOK, InBatch, Committing, Waiting
<1>2. /\ s \in Segments /\ n \in Nat /\ file[t] \in Segments /\ snap[t] \in Nat
      /\ active \in Segments /\ durable \in [Segments -> Nat] /\ written \in [Segments -> Nat]
  BY SMTT(30) DEF TypeOK
<1>3. s \in Nat /\ file[t] \in Nat /\ active \in Nat /\ durable[s] \in Nat /\ written[s] \in Nat
      /\ durable[file[t]] \in Nat
  BY ZenonT(30), <1>2, SegmentsNat
<1>4. durable'[s] \in Nat /\ durable[s] <= durable'[s] /\ snap[t] <= durable'[file[t]]
  BY <1>2, FsyncDurable
<1>6. CASE g \in good
  <2>1. n <= durable[s]
    BY <1>1, <1>6 DEF GoodOnDisk, OnDisk
  <2> QED
    BY SMTT(30), <2>1, <1>1, <1>2, <1>3, <1>4
<1>7. CASE g = <<my_batch[t], file[t]>>
  <2>1. s <= file[t] /\ my_batch[u] <= my_batch[t]
    BY <1>1, <1>7
  <2>2. CASE s = file[t]
    <3>1. n <= snap[t]
      BY ZenonT(30), <1>1, <2>1, <2>2 DEF SnapCovers, FsyncOk
    <3> QED
      BY SMTT(30), <3>1, <1>1, <1>2, <1>4, <2>2
  <2>3. CASE s < file[t]
    <3>1. file[t] <= active /\ n <= written[s]
      BY DEF LogSynced
    <3>2. s < active
      BY <3>1, <1>3, <2>3
    <3>3. written[s] <= durable[s]
      BY SMTT(30), <3>2, <1>2 DEF LogSynced
    <3> QED
      <4>1. n <= durable'[s]
        <5>1. n \in Nat /\ written[s] \in Nat /\ durable[s] \in Nat /\ durable'[s] \in Nat
          BY ZenonT(30), <1>2, <1>3, <1>4
        <5> HIDE DEF n, s
        <5> QED
          BY SMTT(30), <5>1, <3>1, <3>3, <1>4
      <4> QED
        BY SMTT(30), <4>1, <1>1
  <2> QED
    BY <2>1, <2>2, <2>3, <1>3
<1> QED
  BY Zenon, <1>6, <1>7 DEF FsyncOk

(* Steps that neither write nor sync nor change batches. *)
LEMMA GoodKept ==
  ASSUME GoodOnDisk, UNCHANGED <<rec, durable, good, my_batch>>,
         \A u \in Threads : pc'[u] \in InBatch => pc[u] \in InBatch
  PROVE  GoodOnDisk'
  BY DEF GoodOnDisk, OnDisk

\* No batch that was fsynced is the one that a caller joins.  (group_commit.rs:172-184)
LEMMA GoodJoin ==
  ASSUME TypeOK, BatchesOrdered, GoodOnDisk, NEW t \in Threads, Join(t)
  PROVE  GoodOnDisk'
<1> SUFFICES ASSUME NEW u \in Threads, NEW g \in good', pc'[u] \in InBatch,
                    my_batch'[u] <= g[1], rec'[u][1] <= g[2]
             PROVE  OnDisk(rec[u])'
  BY Zenon DEF GoodOnDisk
<1>1. rec' = rec /\ durable' = durable /\ good' = good
  BY Zenon, JoinMoves
<1>2. u # t
  <2>1. g[1] < collecting_batch_id /\ g[1] \in Nat /\ collecting_batch_id \in Nat
    BY SMTT(30), <1>1 DEF BatchesOrdered, TypeOK
  <2>2. ~(collecting_batch_id <= g[1])
    BY SMTT(30), <2>1
  <2> QED
    BY Zenon, <2>2, JoinMoves
<1>3. pc[u] \in InBatch /\ my_batch'[u] = my_batch[u]
  BY Zenon, <1>2, JoinMoves DEF InBatch
<1> QED
  BY Zenon, <1>1, <1>3 DEF GoodOnDisk, OnDisk

(* The committer's fsync, and the rotations before it, cover the batch. *)
LEMMA GoodStep == TypeOK /\ OneFsync /\ BatchesOrdered /\ LogSynced /\ SnapCovers /\ GoodOnDisk /\ [Next]_vars => GoodOnDisk'
<1> SUFFICES ASSUME TypeOK /\ OneFsync /\ BatchesOrdered /\ LogSynced /\ SnapCovers /\ GoodOnDisk, [Next]_vars PROVE GoodOnDisk'
  BY SMTT(30)
<1> USE DEF Waiting, Committing, InBatch, log, local
<1>0. DOMAIN pc = Threads
  BY DEF TypeOK
<1>1. ASSUME NEW t \in Threads, Append(t) PROVE GoodOnDisk'
  BY ZenonT(30), <1>1, FirstSegment, SegmentsNat
     DEF TypeOK, OneFsync, BatchesOrdered, LogSynced, GoodOnDisk, OnDisk, batch, timers, Append, Write, Goto
<1>2. ASSUME NEW t \in Threads, AppendRotates(t) PROVE GoodOnDisk'
  BY ZenonT(30), <1>2, FirstSegment, SegmentsNat
     DEF TypeOK, OneFsync, BatchesOrdered, LogSynced, GoodOnDisk, OnDisk, batch, timers, AppendRotates, Write, Goto
<1>3. ASSUME NEW t \in Threads, TakeFile(t) PROVE GoodOnDisk'
  BY <1>0, <1>3, GoodKept DEF TakeFile, Goto
<1>4. ASSUME NEW t \in Threads, TakeFileToFlush(t) PROVE GoodOnDisk'
  BY ZenonT(30), <1>4, FirstSegment, SegmentsNat
     DEF TypeOK, OneFsync, BatchesOrdered, LogSynced, GoodOnDisk, OnDisk, batch, timers, TakeFileToFlush, Goto
<1>5. ASSUME NEW t \in Threads, SetForceFlush(t) PROVE GoodOnDisk'
  BY <1>0, <1>5, GoodKept DEF SetForceFlush, NotifyAll
<1>6. ASSUME NEW t \in Threads, Join(t) PROVE GoodOnDisk'
  BY Zenon, <1>6, GoodJoin
<1>7. ASSUME NEW t \in Threads, ReturnSynced(t) PROVE GoodOnDisk'
  BY <1>0, <1>7, GoodKept DEF ReturnSynced, Goto
<1>8. ASSUME NEW t \in Threads, CloseBatch(t) PROVE GoodOnDisk'
  BY <1>0, <1>8, GoodKept DEF CloseBatch, Goto
<1>9. ASSUME NEW t \in Threads, WaitTimeout(t) PROVE GoodOnDisk'
  BY <1>0, <1>9, GoodKept DEF WaitTimeout, Wait, Goto
<1>10. ASSUME NEW t \in Threads, WaitTurn(t) PROVE GoodOnDisk'
  BY <1>0, <1>10, GoodKept DEF WaitTurn, Wait, Goto
<1>11. ASSUME NEW t \in Threads, TimedOut(t) PROVE GoodOnDisk'
  BY <1>0, <1>11, GoodKept DEF TimedOut, Goto
<1>12. ASSUME NEW t \in Threads, Reacquire(t) PROVE GoodOnDisk'
  BY <1>0, <1>12, GoodKept DEF Reacquire, Goto
<1>13. ASSUME NEW t \in Threads, FsyncOk(t) PROVE GoodOnDisk'
  BY <1>13, GoodFsyncOk
<1>14. ASSUME NEW t \in Threads, Publish(t) PROVE GoodOnDisk'
  BY <1>0, <1>14, GoodKept DEF Publish, NotifyAll
<1>15. ASSUME NEW t \in Threads, FsyncFails(t) PROVE GoodOnDisk'
  BY <1>0, <1>15, GoodKept DEF FsyncFails, Goto
<1>16. ASSUME NEW t \in Threads, Again(t) PROVE GoodOnDisk'
  BY <1>0, <1>16, GoodKept DEF Again, Goto
<1>17. CASE WindowOver
  BY <1>0, <1>17, GoodKept DEF WindowOver
<1>18. CASE IdleOver
  BY Zenon, <1>0, <1>18, GoodKept DEF IdleOver
<1>19. CASE UNCHANGED vars
  BY Zenon, <1>0, <1>19, GoodKept DEF vars
<1> QED
  BY Zenon, <1>1, <1>2, <1>3, <1>4, <1>5, <1>6, <1>7, <1>8, <1>9,
     <1>10, <1>11, <1>12, <1>13, <1>14, <1>15, <1>16, <1>17, <1>18, <1>19 DEF Next, Proceed

(* Steps that leave batches, outcomes and fsyncs alone. *)
LEMMA OutcomesKept ==
  ASSUME Backed, FaultFree,
         UNCHANGED <<last_error, last_synced_batch_id, good, my_batch, faults>>,
         \A u \in Threads : pc'[u] \in InBatch => pc[u] \in InBatch,
         \A u \in Threads : pc'[u] \in {"synced", "done"} =>
           pc'[u] = pc[u] /\ result'[u] = result[u] /\ file'[u] = file[u]
  PROVE  Backed' /\ FaultFree'
<1>1. Backed'
  BY ZenonT(30) DEF Backed
<1> QED
  BY Zenon, <1>1 DEF FaultFree

(* A caller joins the collecting batch, and batches are numbered from 1.  (group_commit.rs:172-184) *)
LEMMA OutcomesJoin ==
  ASSUME TypeOK, Backed, FaultFree, NEW t \in Threads, Join(t)
  PROVE  Backed' /\ FaultFree'
<1>1. /\ UNCHANGED <<last_error, last_synced_batch_id, good, faults, result, file>>
      /\ \A u \in Threads : u # t => my_batch'[u] = my_batch[u]
      /\ my_batch'[t] >= 1 /\ pc'[t] = "check"
  <2>1. collecting_batch_id \in Nat \ {0}
    BY Zenon DEF TypeOK
  <2>2. collecting_batch_id >= 1
    BY SMTT(30), <2>1
  <2> QED
    BY Zenon, <2>2, JoinMoves
<1>2. \A u \in Threads : u # t => pc'[u] = pc[u] \/ (pc'[u] = "woken" /\ pc[u] \in Waiting)
  BY Zenon, JoinMoves
<1>3. Backed'
  BY Zenon, <1>1, <1>2 DEF Backed, InBatch, Committing, Waiting
<1> QED
  BY Zenon, <1>1, <1>2, <1>3 DEF FaultFree, Waiting

(* A member returns with last_error, which is the outcome of the batch published last.  *)
(* (group_commit.rs:187-193)                                                           *)
LEMMA OutcomesReturn ==
  ASSUME TypeOK, BatchesOrdered, Backed, FaultFree, NEW t \in Threads, ReturnSynced(t)
  PROVE  Backed' /\ FaultFree'
<1>1. /\ UNCHANGED <<last_error, last_synced_batch_id, good, my_batch, faults, file>>
      /\ pc[t] = "check" /\ pc'[t] = "done" /\ my_batch[t] <= last_synced_batch_id
      /\ \A u \in Threads : u # t => pc'[u] = pc[u] /\ result'[u] = result[u]
      /\ result'[t] = "ok" => ~last_error
  BY Zenon DEF ReturnSynced, Goto, TypeOK, batch
<1>2. my_batch[t] >= 1 /\ my_batch[t] \in Nat /\ last_synced_batch_id \in Nat
  BY Zenon, <1>1 DEF Backed, InBatch, TypeOK
<1>3. result'[t] = "ok" => \E g \in good : g[1] >= my_batch[t]
  <2>1. SUFFICES ASSUME result'[t] = "ok" PROVE \E g \in good : g[1] >= my_batch[t]
    OBVIOUS
  <2>2. last_synced_batch_id > 0 /\ ~last_error
    <3>1. my_batch[t] <= last_synced_batch_id /\ ~last_error
      BY Zenon, <2>1, <1>1
    <3> QED
      BY <3>1, <1>2
  <2>3. PICK g \in good : g[1] = last_synced_batch_id
    BY Zenon, <2>2 DEF Backed
  <2> QED
    BY Zenon, <2>3, <1>1, <1>2
<1>4. Backed'
  BY Zenon, <1>1, <1>2, <1>3 DEF Backed, InBatch
<1> QED
  BY Zenon, <1>1, <1>4 DEF FaultFree

(* The committer's fsync succeeds or fails; nobody else sees it yet.  (group_commit.rs:221-225) *)
LEMMA OutcomesFsync ==
  ASSUME TypeOK, Backed, FaultFree, NEW t \in Threads, FsyncOk(t) \/ FsyncFails(t)
  PROVE  Backed' /\ FaultFree'
<1>1. /\ UNCHANGED <<last_error, last_synced_batch_id, my_batch, file>>
      /\ pc[t] = "fsync" /\ pc'[t] = "synced"
      /\ \A u \in Threads : u # t => pc'[u] = pc[u] /\ result'[u] = result[u]
      /\ good \subseteq good' /\ (result'[t] = "err" \/ <<my_batch[t], file[t]>> \in good')
      /\ faults' = 0 => faults = 0 /\ result'[t] = "ok"
  <2>1. CASE FsyncOk(t)
    BY Zenon, <2>1 DEF FsyncOk, Goto, TypeOK, batch
  <2>2. CASE FsyncFails(t)
    <3>1. /\ pc \in [Threads -> Waiting \cup {"idle", "appended", "flush", "join", "check", "woken",
                                               "fsync", "synced", "done"}]
          /\ result \in [Threads -> {"none", "ok", "err"}] /\ faults \in Nat
      BY Zenon DEF TypeOK
    <3>2. pc' = [pc EXCEPT ![t] = "synced"] /\ result' = [result EXCEPT ![t] = "err"]
      BY Zenon, <2>2 DEF FsyncFails, Goto
    <3>3. faults' # 0
      <4>1. faults' = faults + 1
        BY Zenon, <2>2 DEF FsyncFails
      <4> QED
        BY SMTT(30), <3>1, <4>1
    <3> QED
      BY Zenon, <2>2, <3>1, <3>2, <3>3 DEF FsyncFails, batch
  <2> QED
    BY Zenon, <2>1, <2>2
<1>2. Backed'
  BY Zenon, <1>1 DEF Backed, InBatch, Committing
<1> QED
  BY Zenon, <1>1, <1>2 DEF FaultFree

(* The committer publishes its batch, which is the next one, with its outcome.  (group_commit.rs:227-241) *)
LEMMA OutcomesPublish ==
  ASSUME TypeOK, BatchesOrdered, Backed, FaultFree, NEW t \in Threads, Publish(t)
  PROVE  Backed' /\ FaultFree'
<1>1. /\ UNCHANGED <<good, my_batch, faults, file, result>>
      /\ pc[t] = "synced" /\ pc'[t] = "done" /\ last_synced_batch_id' = my_batch[t]
  BY Zenon DEF Publish, NotifyAll, TypeOK, local
<1>2. \A u \in Threads : u # t => pc'[u] = pc[u] \/ (pc'[u] = "woken" /\ pc[u] \in Waiting)
  BY Zenon DEF Publish, NotifyAll
<1>3. last_error' <=> result[t] = "err"
  BY Zenon DEF Publish
<1>4. my_batch[t] = last_synced_batch_id + 1 /\ last_synced_batch_id \in Nat
  BY Zenon, <1>1 DEF BatchesOrdered, Committing, TypeOK
<1>5. result[t] = "err" \/ <<my_batch[t], file[t]>> \in good
  BY Zenon, <1>1 DEF Backed
<1>6. Backed'
  <2>1. \A u \in Threads : pc'[u] \in InBatch => my_batch'[u] >= 1
    BY Zenon, <1>1, <1>2 DEF Backed, InBatch, Committing, Waiting
  <2>2. \A u \in Threads : pc'[u] = "done" => my_batch'[u] <= last_synced_batch_id'
    <3> SUFFICES ASSUME NEW u \in Threads, pc'[u] = "done"
                 PROVE  my_batch'[u] <= last_synced_batch_id'
      BY Zenon
    <3>1. last_synced_batch_id' = my_batch[t] /\ my_batch' = my_batch /\ my_batch[u] \in Nat
      BY Zenon, <1>1 DEF TypeOK
    <3>2. u = t \/ my_batch[u] <= last_synced_batch_id
      BY ZenonT(30), <1>1, <1>2 DEF Backed
    <3> QED
      BY SMTT(30), <3>1, <3>2, <1>4
  <2>3. \A u \in Threads :
          pc'[u] = "synced" => result'[u] = "err" \/ <<my_batch'[u], file'[u]>> \in good'
    BY Zenon, <1>1, <1>2 DEF Backed
  <2>4. result[t] # "err" => \E g \in good' : g[1] = last_synced_batch_id'
    BY Zenon, <1>1, <1>5
  <2>5. \A u \in Threads :
          pc'[u] = "done" /\ result'[u] = "ok" => \E g \in good' : g[1] >= my_batch'[u]
    <3>1. result[t] = "ok" => \E g \in good : g[1] >= my_batch[t]
      BY <1>4, <1>5
    <3> QED
      BY Zenon, <1>1, <1>2, <3>1 DEF Backed
  <2> QED
    BY Zenon, <1>3, <2>1, <2>2, <2>3, <2>4, <2>5 DEF Backed
<1>7. FaultFree'
  <2>1. SUFFICES ASSUME faults = 0
                 PROVE  /\ ~last_error'
                        /\ \A u \in Threads : pc'[u] = "synced" => result'[u] = "ok"
                        /\ \A b \in 1..last_synced_batch_id' : \E f \in Segments : <<b, f>> \in good'
    BY Zenon, <1>1 DEF FaultFree
  <2>2. result[t] = "ok"
    BY Zenon, <1>1, <2>1 DEF FaultFree
  <2>3. \A u \in Threads : pc'[u] = "synced" => result'[u] = "ok"
    BY Zenon, <1>1, <1>2, <2>1 DEF FaultFree
  <2>4. ASSUME NEW b \in 1..last_synced_batch_id' PROVE \E f \in Segments : <<b, f>> \in good'
    <3>1. CASE b = my_batch[t]
      BY Zenon, <1>1, <1>5, <2>2, <3>1 DEF TypeOK
    <3>2. CASE b # my_batch[t]
      <4>0. last_synced_batch_id' = my_batch[t]
        BY Zenon, <1>1
      <4>1. b \in 1..last_synced_batch_id
        BY SMTT(30), <4>0, <1>4, <3>2
      <4> QED
        BY Zenon, <4>1, <1>1, <2>1 DEF FaultFree
    <3> QED
      BY Zenon, <3>1, <3>2
  <2> QED
    BY Zenon, <1>3, <2>2, <2>3, <2>4
<1> QED
  BY Zenon, <1>6, <1>7

(* Every outcome that a caller can read goes back to an fsync. *)
LEMMA OutcomesStep ==
  TypeOK /\ BatchesOrdered /\ Backed /\ FaultFree /\ [Next]_vars => Backed' /\ FaultFree'
<1> SUFFICES ASSUME TypeOK, BatchesOrdered, Backed, FaultFree, [Next]_vars
             PROVE  Backed' /\ FaultFree'
  OBVIOUS
<1> USE DEF Waiting, Committing, InBatch, batch, local
<1>0. DOMAIN pc = Threads /\ DOMAIN result = Threads /\ DOMAIN file = Threads
  BY Zenon DEF TypeOK
<1>1. ASSUME NEW t \in Threads, Append(t) PROVE Backed' /\ FaultFree'
  BY Zenon, <1>0, <1>1, OutcomesKept DEF Append, Write, Goto
<1>2. ASSUME NEW t \in Threads, AppendRotates(t) PROVE Backed' /\ FaultFree'
  BY Zenon, <1>0, <1>2, OutcomesKept DEF AppendRotates, Write, Goto
<1>3. ASSUME NEW t \in Threads, TakeFile(t) PROVE Backed' /\ FaultFree'
  BY Zenon, <1>0, <1>3, OutcomesKept DEF TakeFile, Goto
<1>4. ASSUME NEW t \in Threads, TakeFileToFlush(t) PROVE Backed' /\ FaultFree'
  BY Zenon, <1>0, <1>4, OutcomesKept DEF TakeFileToFlush, Goto
<1>5. ASSUME NEW t \in Threads, SetForceFlush(t) PROVE Backed' /\ FaultFree'
  BY Zenon, <1>0, <1>5, OutcomesKept DEF SetForceFlush, NotifyAll
<1>6. ASSUME NEW t \in Threads, CloseBatch(t) PROVE Backed' /\ FaultFree'
  BY Zenon, <1>0, <1>6, OutcomesKept DEF CloseBatch, Goto
<1>7. ASSUME NEW t \in Threads, WaitTimeout(t) PROVE Backed' /\ FaultFree'
  BY Zenon, <1>0, <1>7, OutcomesKept DEF WaitTimeout, Wait, Goto
<1>8. ASSUME NEW t \in Threads, WaitTurn(t) PROVE Backed' /\ FaultFree'
  BY Zenon, <1>0, <1>8, OutcomesKept DEF WaitTurn, Wait, Goto
<1>9. ASSUME NEW t \in Threads, TimedOut(t) PROVE Backed' /\ FaultFree'
  BY Zenon, <1>0, <1>9, OutcomesKept DEF TimedOut, Goto
<1>10. ASSUME NEW t \in Threads, Reacquire(t) PROVE Backed' /\ FaultFree'
  BY Zenon, <1>0, <1>10, OutcomesKept DEF Reacquire, Goto
<1>11. ASSUME NEW t \in Threads, Again(t) PROVE Backed' /\ FaultFree'
  BY Zenon, <1>0, <1>11, OutcomesKept DEF Again, Goto
<1>12. ASSUME NEW t \in Threads, Join(t) PROVE Backed' /\ FaultFree'
  BY Zenon, <1>12, OutcomesJoin
<1>13. ASSUME NEW t \in Threads, ReturnSynced(t) PROVE Backed' /\ FaultFree'
  BY Zenon, <1>13, OutcomesReturn
<1>14. ASSUME NEW t \in Threads, FsyncOk(t) \/ FsyncFails(t) PROVE Backed' /\ FaultFree'
  BY Zenon, <1>14, OutcomesFsync
<1>15. ASSUME NEW t \in Threads, Publish(t) PROVE Backed' /\ FaultFree'
  BY Zenon, <1>15, OutcomesPublish
<1>16. CASE WindowOver \/ IdleOver \/ UNCHANGED vars
  BY Zenon, <1>0, <1>16, OutcomesKept DEF WindowOver, IdleOver, vars
<1> QED
  BY Zenon, <1>1, <1>2, <1>3, <1>4, <1>5, <1>6, <1>7, <1>8, <1>9,
     <1>10, <1>11, <1>12, <1>13, <1>14, <1>15, <1>16 DEF Next, Proceed

(* IInv is an inductive invariant of group commit. *)
THEOREM Inductive == Spec => []IInv
<1>1. Init => IInv
  <2> SUFFICES ASSUME Init PROVE IInv
    OBVIOUS
  <2> USE FirstSegment, SegmentsNat DEF Init, NewGroupCommit, Waiting, Committing, InBatch
  <2>1. TypeOK
    <3>1. rec \in [Threads -> Segments \X Nat]
      OBVIOUS
    <3>2. /\ collecting_batch_id \in Nat \ {0} /\ last_synced_batch_id \in Nat
          /\ waiters_in_collecting \in Nat /\ writes \in Nat /\ faults \in Nat
      OBVIOUS
    <3>3. /\ written \in [Segments -> Nat] /\ durable \in [Segments -> Nat]
          /\ active \in Segments /\ file \in [Threads -> Segments]
          /\ my_batch \in [Threads -> Nat] /\ snap \in [Threads -> Nat]
      OBVIOUS
    <3>4. /\ pc \in [Threads -> Waiting \cup {"idle", "appended", "flush", "join", "check",
                                         "woken", "fsync", "synced", "done"}]
          /\ result \in [Threads -> {"none", "ok", "err"}]
      OBVIOUS
    <3> QED
      BY Zenon, <3>1, <3>2, <3>3, <3>4 DEF TypeOK
  <2>2. MutexHeld /\ OneFsync /\ BatchesOrdered
    BY DEF MutexHeld, OneFsync, BatchesOrdered
  <2>3. LogSynced /\ SnapCovers /\ GoodOnDisk
    BY DEF LogSynced, SnapCovers, GoodOnDisk
  <2>4. Backed /\ FaultFree
    BY DEF Backed, FaultFree
  <2> QED
    BY Zenon, <2>1, <2>2, <2>3, <2>4 DEF IInv
<1>2. IInv /\ [Next]_vars => IInv'
  BY Zenon, TypeStep, MutexStep, OneFsyncStep, BatchesStep, LogStep, SnapStep, GoodStep, OutcomesStep
     DEF IInv
<1> QED
  BY <1>1, <1>2, PTL DEF Spec

(* Group commit keeps its types.  (GroupCommitState and the callers of sync) *)
THEOREM TypeCorrect == Spec => []TypeOK
  BY Inductive, PTL DEF IInv

(* There is one fsync at a time and batches are committed in order, for any  *)
(* number of concurrent callers, whatever fails.  (the seriality rule of     *)
(* sync, group_commit.rs:195-217)                                            *)
THEOREM FsyncIsSerial == Spec => []OneFsync
  BY Inductive, PTL DEF IInv

(* When the committer's fsync succeeds, every member of its batch whose      *)
(* record lies in the committer's file, or in a segment before it, has its   *)
(* record on the disk.  (sync, group_commit.rs:203-241, with rotate,         *)
(* wal.rs:265-280)                                                           *)
THEOREM SyncedBatchIsOnDisk == Spec => []SyncedBatchOnDisk
<1>1. IInv => SyncedBatchOnDisk
  <2> SUFFICES ASSUME IInv, NEW t \in Threads, NEW g \in good, pc[t] = "done", result[t] = "ok",
                      g[1] = my_batch[t], rec[t][1] <= g[2]
               PROVE  OnDisk(rec[t])
    BY Zenon DEF SyncedBatchOnDisk
  <2>1. my_batch[t] \in Nat
    BY Zenon DEF IInv, TypeOK
  <2>2. my_batch[t] <= g[1]
    BY <2>1
  <2> QED
    BY Zenon, <2>2 DEF IInv, GoodOnDisk, InBatch
<1> QED
  BY <1>1, Inductive, PTL

(* What Ok is worth, whatever fails and rotates: an fsync of the caller's    *)
(* batch or of a later one has succeeded since, and the caller's record is   *)
(* on the disk if it lies in the file of that fsync or in a segment before.  *)
(* (sync, group_commit.rs:187-193 and 221-241)                               *)
THEOREM OkAfterFsync ==
  Spec => [](\A t \in Threads : pc[t] = "done" /\ result[t] = "ok" =>
               \E g \in good : /\ g[1] >= my_batch[t]
                               /\ rec[t][1] <= g[2] => OnDisk(rec[t]))
<1>1. IInv => \A t \in Threads : pc[t] = "done" /\ result[t] = "ok" =>
                \E g \in good : /\ g[1] >= my_batch[t]
                                /\ rec[t][1] <= g[2] => OnDisk(rec[t])
  <2> SUFFICES ASSUME IInv, NEW t \in Threads, pc[t] = "done", result[t] = "ok"
               PROVE  \E g \in good : /\ g[1] >= my_batch[t]
                                      /\ rec[t][1] <= g[2] => OnDisk(rec[t])
    OBVIOUS
  <2>1. PICK g \in good : g[1] >= my_batch[t]
    BY Zenon DEF IInv, Backed
  <2>2. g[1] \in Nat /\ my_batch[t] \in Nat
    BY Zenon DEF IInv, TypeOK
  <2>3. my_batch[t] <= g[1]
    BY Zenon, <2>1, <2>2
  <2>4. rec[t][1] <= g[2] => OnDisk(rec[t])
    BY Zenon, <2>3 DEF IInv, GoodOnDisk, InBatch
  <2> QED
    BY Zenon, <2>1, <2>4
<1> QED
  BY <1>1, Inductive, PTL

(* Until the log has rotated, Ok means that the caller's record is on the    *)
(* disk, though fsyncs may have failed: a caller of a failed batch that      *)
(* reads the Ok of a later one has been covered by it.  The file handed to   *)
(* sync() before a rotation is what run commit_rotation breaks this with.    *)
(* (sync, group_commit.rs:170-171)                                           *)
THEOREM OkDurableBeforeRotation == Spec => [](active = 1 => OkMeansDurable)
<1>1. IInv => (active = 1 => OkMeansDurable)
  <2> SUFFICES ASSUME IInv, active = 1, NEW t \in Threads, pc[t] = "done", result[t] = "ok"
               PROVE  OnDisk(rec[t])
    BY Zenon DEF OkMeansDurable
  <2>1. PICK g \in good : g[1] >= my_batch[t]
    BY Zenon DEF IInv, Backed
  <2>2. /\ g[1] \in Nat /\ my_batch[t] \in Nat
        /\ g[2] \in Segments /\ rec[t][1] \in Segments
    BY Zenon DEF IInv, TypeOK
  <2>3. g[2] \in Nat /\ g[2] >= 1 /\ rec[t][1] \in Nat
    BY <2>2, GroupCommitAssumption DEF Segments
  <2>4. rec[t][1] <= 1
    BY Zenon DEF IInv, LogSynced
  <2>5. my_batch[t] <= g[1] /\ rec[t][1] <= g[2]
    BY <2>1, <2>2, <2>3, <2>4
  <2> QED
    BY Zenon, <2>5 DEF IInv, GoodOnDisk, InBatch
<1> QED
  BY <1>1, Inductive, PTL

(* Until an fsync fails, Ok means that the fsync of the caller's own batch   *)
(* has succeeded, rotations included.  last_error, which has no batch id, is *)
(* what run commit_error breaks this with.  (group_commit.rs:36)             *)
THEOREM OkIsOwnBatchBeforeFault == Spec => [](faults = 0 => OkMeansBatchSynced)
<1>1. IInv => (faults = 0 => OkMeansBatchSynced)
  <2> SUFFICES ASSUME IInv, faults = 0, NEW t \in Threads, pc[t] = "done", result[t] = "ok"
               PROVE  \E f \in Segments : <<my_batch[t], f>> \in good
    BY Zenon DEF OkMeansBatchSynced
  <2>1. my_batch[t] \in Nat /\ last_synced_batch_id \in Nat
    BY Zenon DEF IInv, TypeOK
  <2>2. my_batch[t] >= 1 /\ my_batch[t] <= last_synced_batch_id
    BY Zenon DEF IInv, Backed, InBatch
  <2>3. my_batch[t] \in 1..last_synced_batch_id
    BY <2>1, <2>2
  <2> QED
    BY Zenon, <2>3 DEF IInv, FaultFree
<1> QED
  BY <1>1, Inductive, PTL

=============================================================================
