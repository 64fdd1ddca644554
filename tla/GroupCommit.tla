----------------------------- MODULE GroupCommit -----------------------------
(***************************************************************************)
(* Group commit: src/storage/group_commit.rs, called by Engine::sync       *)
(* (src/storage/engine.rs) after an append that may have rotated the log   *)
(* (src/storage/wal.rs).  Threads append a record, take the active file,   *)
(* join the collecting batch and wait; one thread of a batch becomes its   *)
(* committer and fsyncs the file that it brought along.                    *)
(*                                                                         *)
(* A segment is the number of frames written to it and the number of       *)
(* frames that are known to be on the disk.                                *)
(***************************************************************************)
EXTENDS Naturals, FiniteSets

CONSTANTS
  Threads, NoThread,
  MaxSegmentSize,       \* frames after which append rotates
  max_batch_size,
  \* Bounds of the behaviours explored:
  MaxWrites, MaxSegments, MaxBatches, MaxFaults

ASSUME GroupCommitAssumption ==
  /\ NoThread \notin Threads
  /\ MaxSegmentSize \in Nat \ {0} /\ max_batch_size \in Nat \ {0}
  /\ MaxWrites \in Nat /\ MaxSegments \in Nat \ {0} /\ MaxBatches \in Nat /\ MaxFaults \in Nat

Segments == 1..MaxSegments

VARIABLES
  written, durable, active,             \* the log
  collecting_batch_id, last_synced_batch_id, waiters_in_collecting,
  fsync_in_progress, last_error, force_flush,
  window_over, idle_over,               \* the collecting batch's two timers
  holder,                               \* who holds the `state` mutex
  pc,
  rec,                                  \* the record a thread has appended
  file,                                 \* the active_file_arc it has taken
  my_batch,
  snap,                                 \* frames its fsync is sure to cover
  result,                               \* what its call has returned
  good,                                 \* history: batches fsynced, with the file
  writes, faults

log    == <<written, durable, active>>
batch  == <<collecting_batch_id, last_synced_batch_id, waiters_in_collecting,
            fsync_in_progress, last_error, force_flush>>
timers == <<window_over, idle_over>>
local  == <<rec, file, my_batch, snap, result>>
vars   == <<log, batch, timers, holder, pc, local, good, writes, faults>>

Waiting == {"waiting", "timed"}       \* in cvar.wait, in cvar.wait_timeout

TypeOK ==
  /\ written \in [Segments -> Nat] /\ durable \in [Segments -> Nat]
  /\ active \in Segments
  /\ collecting_batch_id \in Nat \ {0} /\ last_synced_batch_id \in Nat
  /\ waiters_in_collecting \in Nat
  /\ fsync_in_progress \in BOOLEAN /\ last_error \in BOOLEAN /\ force_flush \in BOOLEAN
  /\ window_over \in BOOLEAN /\ idle_over \in BOOLEAN
  /\ holder \in Threads \cup {NoThread}
  /\ pc \in [Threads -> Waiting \cup {"idle", "appended", "flush", "join", "check", "woken",
                                      "fsync", "synced", "done"}]
  /\ rec \in [Threads -> Segments \X Nat]
  /\ file \in [Threads -> Segments]
  /\ my_batch \in [Threads -> Nat]
  /\ snap \in [Threads -> Nat]
  /\ result \in [Threads -> {"none", "ok", "err"}]
  /\ good \in SUBSET (Nat \X Segments)
  /\ writes \in Nat /\ faults \in Nat

\* Mutant: the batches are numbered from 0, which counts as synced.
NewGroupCommitZero ==
  /\ collecting_batch_id = 0 /\ last_synced_batch_id = 0 /\ waiters_in_collecting = 0
  /\ fsync_in_progress = FALSE /\ last_error = FALSE /\ force_flush = FALSE

NewGroupCommit ==
  /\ collecting_batch_id = 1 /\ last_synced_batch_id = 0 /\ waiters_in_collecting = 0
  /\ fsync_in_progress = FALSE /\ last_error = FALSE /\ force_flush = FALSE

Init ==
  /\ written = [s \in Segments |-> 0] /\ durable = [s \in Segments |-> 0] /\ active = 1
  /\ NewGroupCommit
  /\ window_over = FALSE /\ idle_over = FALSE
  /\ holder = NoThread
  /\ pc = [t \in Threads |-> "idle"]
  /\ rec = [t \in Threads |-> <<1, 0>>] /\ file = [t \in Threads |-> 1]
  /\ my_batch = [t \in Threads |-> 0] /\ snap = [t \in Threads |-> 0]
  /\ result = [t \in Threads |-> "none"]
  /\ good = {} /\ writes = 0 /\ faults = 0

Goto(t, label) == pc' = [pc EXCEPT ![t] = label]

-----------------------------------------------------------------------------
(* Engine: append under the engine's lock, then sync() takes the file.      *)

Write(t, s) ==
  /\ written' = [written EXCEPT ![s] = @ + 1]
  /\ rec' = [rec EXCEPT ![t] = <<s, written[s] + 1>>]
  /\ active' = s
  /\ writes' = writes + 1
  /\ Goto(t, "appended")
  /\ UNCHANGED <<batch, timers, holder, file, my_batch, snap, result, good, faults>>

Append(t) ==
  /\ pc[t] = "idle" /\ writes < MaxWrites
  /\ written[active] < MaxSegmentSize
  /\ Write(t, active)
  /\ UNCHANGED durable

\* Mutant: the full segment is left unsynced.
AppendRotatesUnsynced(t) ==
  /\ pc[t] = "idle" /\ writes < MaxWrites
  /\ written[active] >= MaxSegmentSize
  /\ active + 1 \in Segments
  /\ Write(t, active + 1)
  /\ UNCHANGED durable

\* rotate() fsyncs the full segment before it opens the next one.
AppendRotates(t) ==
  /\ pc[t] = "idle" /\ writes < MaxWrites
  /\ written[active] >= MaxSegmentSize
  /\ active + 1 \in Segments
  /\ durable' = [durable EXCEPT ![active] = written[active]]
  /\ Write(t, active + 1)

TakeFile(t) ==
  /\ pc[t] = "appended"
  /\ file' = [file EXCEPT ![t] = active]
  /\ Goto(t, "join")
  /\ UNCHANGED <<log, batch, timers, holder, rec, my_batch, snap, result, good, writes, faults>>

\* force_flush_group_commit, by a thread that has written nothing.
TakeFileToFlush(t) ==
  /\ pc[t] = "idle"
  /\ file' = [file EXCEPT ![t] = active]
  /\ rec' = [rec EXCEPT ![t] = <<1, 0>>]
  /\ Goto(t, "flush")
  /\ UNCHANGED <<log, batch, timers, holder, my_batch, snap, result, good, writes, faults>>

-----------------------------------------------------------------------------
(* GroupCommit::sync                                                        *)

\* notify_all, and thread t goes on to label.
NotifyAll(t, label) ==
  pc' = [u \in Threads |-> IF u = t THEN label
                           ELSE IF pc[u] \in Waiting THEN "woken" ELSE pc[u]]

SetForceFlush(t) ==
  /\ pc[t] = "flush" /\ holder = NoThread
  /\ force_flush' = TRUE
  /\ NotifyAll(t, "join")
  /\ UNCHANGED <<log, collecting_batch_id, last_synced_batch_id, waiters_in_collecting,
                 fsync_in_progress, last_error, timers, holder, local, good, writes, faults>>

Join(t) ==
  /\ pc[t] = "join" /\ holder = NoThread
  /\ collecting_batch_id <= MaxBatches
  /\ holder' = t
  /\ my_batch' = [my_batch EXCEPT ![t] = collecting_batch_id]
  /\ waiters_in_collecting' = waiters_in_collecting + 1
  /\ idle_over' = FALSE
  /\ NotifyAll(t, "check")
  /\ UNCHANGED <<log, collecting_batch_id, last_synced_batch_id, fsync_in_progress, last_error,
                 force_flush, window_over, rec, file, snap, result, good, writes, faults>>

\* Another thread has committed the batch: its outcome is read from last_error.
ReturnSynced(t) ==
  /\ pc[t] = "check" /\ holder = t
  /\ last_synced_batch_id >= my_batch[t]
  /\ result' = [result EXCEPT ![t] = IF last_error THEN "err" ELSE "ok"]
  /\ holder' = NoThread
  /\ Goto(t, "done")
  /\ UNCHANGED <<log, batch, timers, rec, file, my_batch, snap, good, writes, faults>>

\* Mutant: the fsync of another batch is not looked at.
AnyTurn(t) == my_batch[t] > last_synced_batch_id

\* "one batch at a time"
MyTurn(t) == ~fsync_in_progress /\ my_batch[t] = last_synced_batch_id + 1

ShouldClose == \/ waiters_in_collecting >= max_batch_size
               \/ window_over \/ idle_over \/ force_flush

\* The thread becomes the committer and drops the mutex to fsync its file.
CloseBatch(t) ==
  /\ pc[t] = "check" /\ holder = t
  /\ last_synced_batch_id < my_batch[t]
  /\ MyTurn(t) /\ ShouldClose
  /\ fsync_in_progress' = TRUE
  /\ collecting_batch_id' = collecting_batch_id + 1
  /\ waiters_in_collecting' = 0
  /\ window_over' = FALSE /\ idle_over' = FALSE
  /\ holder' = NoThread
  /\ snap' = [snap EXCEPT ![t] = written[file[t]]]
  /\ Goto(t, "fsync")
  /\ UNCHANGED <<log, last_synced_batch_id, last_error, force_flush, rec, file, my_batch,
                 result, good, writes, faults>>

Wait(t, label) ==
  /\ holder' = NoThread
  /\ Goto(t, label)
  /\ UNCHANGED <<log, batch, timers, local, good, writes, faults>>

WaitTimeout(t) ==
  /\ pc[t] = "check" /\ holder = t
  /\ last_synced_batch_id < my_batch[t]
  /\ MyTurn(t) /\ ~ShouldClose
  /\ Wait(t, "timed")

WaitTurn(t) ==
  /\ pc[t] = "check" /\ holder = t
  /\ last_synced_batch_id < my_batch[t]
  /\ ~MyTurn(t)
  /\ Wait(t, "waiting")

\* wait_timeout wakes by itself when a timer of the batch has run out.
TimedOut(t) ==
  /\ pc[t] = "timed" /\ (window_over \/ idle_over)
  /\ Goto(t, "woken")
  /\ UNCHANGED <<log, batch, timers, holder, local, good, writes, faults>>

Reacquire(t) ==
  /\ pc[t] = "woken" /\ holder = NoThread
  /\ holder' = t
  /\ Goto(t, "check")
  /\ UNCHANGED <<log, batch, timers, local, good, writes, faults>>

\* fsync makes durable at least what was written before it was called.
FsyncOk(t) ==
  /\ pc[t] = "fsync"
  /\ durable' = [durable EXCEPT ![file[t]] = IF snap[t] > @ THEN snap[t] ELSE @]
  /\ result' = [result EXCEPT ![t] = "ok"]
  /\ good' = good \cup {<<my_batch[t], file[t]>>}
  /\ Goto(t, "synced")
  /\ UNCHANGED <<written, active, batch, timers, holder, rec, file, my_batch, snap, writes, faults>>

FsyncFails(t) ==
  /\ pc[t] = "fsync"
  /\ faults < MaxFaults
  /\ faults' = faults + 1
  /\ result' = [result EXCEPT ![t] = "err"]
  /\ Goto(t, "synced")
  /\ UNCHANGED <<log, batch, timers, holder, rec, file, my_batch, snap, good, writes>>

\* Mutant: the waiters are not notified.
PublishSilently(t) ==
  /\ pc[t] = "synced" /\ holder = NoThread
  /\ fsync_in_progress' = FALSE
  /\ last_synced_batch_id' = my_batch[t]
  /\ last_error' = (result[t] = "err")
  /\ Goto(t, "done")
  /\ UNCHANGED <<log, collecting_batch_id, waiters_in_collecting, force_flush, timers, holder,
                 local, good, writes, faults>>

\* The committer takes the mutex again and publishes the outcome, whatever it is.
Publish(t) ==
  /\ pc[t] = "synced" /\ holder = NoThread
  /\ fsync_in_progress' = FALSE
  /\ last_synced_batch_id' = my_batch[t]
  /\ last_error' = (result[t] = "err")
  /\ NotifyAll(t, "done")
  /\ UNCHANGED <<log, collecting_batch_id, waiters_in_collecting, force_flush, timers, holder,
                 local, good, writes, faults>>

\* The caller goes on to its next request.
Again(t) ==
  /\ pc[t] = "done"
  /\ result' = [result EXCEPT ![t] = "none"]
  /\ Goto(t, "idle")
  /\ UNCHANGED <<log, batch, timers, holder, rec, file, my_batch, snap, good, writes, faults>>

-----------------------------------------------------------------------------
(* Time passes: batch_window and idle_commit_threshold of the batch that is *)
(* being collected (batch_start_time and last_arrival_time are set).        *)
WindowOver ==
  /\ waiters_in_collecting > 0 /\ ~window_over
  /\ window_over' = TRUE
  /\ UNCHANGED <<log, batch, idle_over, holder, pc, local, good, writes, faults>>

IdleOver ==
  /\ waiters_in_collecting > 0 /\ ~idle_over
  /\ idle_over' = TRUE
  /\ UNCHANGED <<log, batch, window_over, holder, pc, local, good, writes, faults>>

\* What a thread inside sync() does by itself once it can.
Proceed(t) ==
  \/ ReturnSynced(t) \/ CloseBatch(t) \/ WaitTimeout(t) \/ WaitTurn(t) \/ TimedOut(t)
  \/ Reacquire(t) \/ FsyncOk(t) \/ Publish(t)

Next ==
  \/ \E t \in Threads :
       \/ Append(t) \/ AppendRotates(t) \/ TakeFile(t) \/ TakeFileToFlush(t)
       \/ SetForceFlush(t) \/ Join(t) \/ Proceed(t) \/ FsyncFails(t) \/ Again(t)
  \/ WindowOver \/ IdleOver

Spec == Init /\ [][Next]_vars

\* A runnable thread runs, a mutex that keeps being released is obtained, fsync
\* returns, and the batch window runs out.
FairSpec == /\ Spec
            /\ \A t \in Threads : WF_vars(Proceed(t))
            /\ WF_vars(WindowOver)

-----------------------------------------------------------------------------
OnDisk(r) == r[2] <= durable[r[1]]

(* "This is the only active fsync in the entire system" (line 223): at most *)
(* one thread is between closing its batch and publishing the outcome, and  *)
(* the flag says so; the batches are closed one after the other.            *)
OneFsync ==
  /\ \A t, u \in Threads :
       pc[t] \in {"fsync", "synced"} /\ pc[u] \in {"fsync", "synced"} => t = u
  /\ fsync_in_progress <=> \E t \in Threads : pc[t] \in {"fsync", "synced"}
  /\ collecting_batch_id = last_synced_batch_id + (IF fsync_in_progress THEN 2 ELSE 1)

(* Once the committer of a thread's batch has fsynced file f, the thread's  *)
(* record is on the disk if it lies in f or in a segment before f: rotation *)
(* has synced those.  Faults and rotations included.                        *)
SyncedBatchOnDisk ==
  \A t \in Threads : \A g \in good :
    (pc[t] = "done" /\ result[t] = "ok" /\ g[1] = my_batch[t] /\ rec[t][1] <= g[2])
      => OnDisk(rec[t])

(* "guaranteeing that all writes completed prior to this call are durably   *)
(* persisted to disk" (line 170): Ok means that the caller's own record is. *)
OkMeansDurable ==
  \A t \in Threads : pc[t] = "done" /\ result[t] = "ok" => OnDisk(rec[t])

(* "A thread only receives control after the physical fsync block for its   *)
(* batch has completed sync_data() successfully" (line 36).                 *)
OkMeansBatchSynced ==
  \A t \in Threads :
    pc[t] = "done" /\ result[t] = "ok" => \E f \in Segments : <<my_batch[t], f>> \in good

(* No caller is left behind: a thread that has joined a batch returns, with *)
(* Ok or an error.  No wake-up is lost between the two kinds of waiting.    *)
EveryCallReturns ==
  \A t \in Threads : (pc[t] = "check") ~> (pc[t] = "done")

=============================================================================
