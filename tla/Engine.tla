------------------------------- MODULE Engine -------------------------------
(***************************************************************************)
(* The storage engine of one queue: src/storage/engine.rs on top of        *)
(* src/storage/wal.rs.  Clients push, pop, ack and nack concurrently with  *)
(* the expiration thread and with compaction; the process may be killed    *)
(* between any two steps and is then opened again.  A killed process loses *)
(* its memory and keeps what it has written; losing unsynced writes as     *)
(* well is the subject of module GroupCommit.                              *)
(*                                                                         *)
(* One action is what a thread does while it holds the `inner` mutex, or   *)
(* one file-system call where a kill between two of them matters.          *)
(***************************************************************************)
EXTENDS Wal

CONSTANTS
  MAX_RETRIES,        \* 3 in the code
  MaxSegmentSize,     \* frames after which append rotates
  TTLs,               \* the lease_ttl_secs clients ask for
  \* Bounds of the behaviours explored:
  MaxPushes, MaxSegments, MaxTime, MaxCrashes, MaxCompactions, MaxFaults

ASSUME EngineAssumption ==
  /\ {MAX_RETRIES, MaxSegmentSize} \subseteq Nat \ {0}
  /\ TTLs \subseteq Nat
  /\ {MaxPushes, MaxSegments, MaxTime, MaxCrashes, MaxCompactions, MaxFaults} \subseteq Nat

VARIABLES
  \* The queue's directory.
  log,                \* the frames in the segment files
  torn,               \* locations of frames whose write was cut short
  files,              \* the segment files that exist
  sides,              \* which of nesso.00001.compacting and the plan exist
  temp,               \* the frames of nesso.00001.compacting
  planned,            \* the segments named by nesso.compaction_plan
  \* EngineState, guarded by `inner`.
  active_segment_id, current_size, next_id, index, data_index, ready_queue,
  leased, payload_cache,
  \* Threads.
  lock,               \* who holds `inner` across several steps
  expired_tasks,      \* the expiration thread's snapshot
  pops,               \* per consumer, a pop_and_lease that has left the lock
  compaction,         \* the thread inside compact()
  unlinked,           \* frames of replaced files that WalReader may have open
  mode,               \* up, or how far open() has come
  entries,            \* ids that recover() has still to replay
  now,                \* the clock, in seconds
  \* History: the id given to the n-th push (its payload is n), the pushes
  \* acknowledged, those dead-lettered, and ids whose pop failed on disk.
  pushed, acked, dead, stranded,
  crashes, compactions, faults

dirVars  == <<log, torn, files, sides, temp, planned>>
walVars  == <<log, torn, files, active_segment_id, current_size>>
memVars  == <<next_id, index, data_index, ready_queue, leased, payload_cache>>
sideVars == <<sides, temp, planned>>
threads  == <<lock, expired_tasks, pops, compaction, unlinked>>
process  == <<mode, entries>>
history  == <<pushed, acked, dead, stranded>>
counters == <<crashes, compactions, faults>>
vars == <<log, torn, files, sides, temp, planned, active_segment_id, current_size,
          next_id, index, data_index, ready_queue, leased, payload_cache, lock,
          expired_tasks, pops, compaction, unlinked, mode, entries, now, pushed,
          acked, dead, stranded, crashes, compactions, faults>>

LeaseInfo == [consumer_id : Consumers, expire_timestamp : Nat, retries : Nat,
              priority : Priorities]

NoPop == [pc |-> "idle", id |-> 0, loc |-> <<0, 0>>, tries |-> 0, data |-> NoData]
NoCompaction == [pc |-> "idle", closed |-> {}, offs |-> EmptyMap]

\* The mutex `inner` is free in a process that has finished opening.
CanLock == mode = "up" /\ lock = "free"

\* The push that task id comes from (the last one that was given this id).
PushOf(id) == CHOOSE n \in DOMAIN pushed :
                pushed[n] = id /\ \A m \in DOMAIN pushed : pushed[m] = id => m <= n

ReadyIds == {t.id : t \in Queued(ready_queue)}

Init ==
  /\ log = {} /\ torn = {} /\ files = {} /\ sides = {} /\ temp = {} /\ planned = {}
  /\ active_segment_id = 0 /\ current_size = 0
  /\ next_id = 1 /\ index = EmptyMap /\ data_index = EmptyMap
  /\ ready_queue = EmptyQueue /\ leased = EmptyMap /\ payload_cache = EmptyCache
  /\ lock = "free" /\ expired_tasks = {} /\ pops = [c \in Consumers |-> NoPop]
  /\ compaction = NoCompaction /\ unlinked = {}
  /\ mode = "down" /\ entries = {} /\ now = 0
  /\ pushed = <<>> /\ acked = {} /\ dead = {} /\ stranded = {}
  /\ crashes = 0 /\ compactions = 0 /\ faults = 0

-----------------------------------------------------------------------------
(* Wal::append, with the rotation it starts with.                           *)

RotationDue == current_size >= MaxSegmentSize
NextSegment == IF RotationDue THEN active_segment_id + 1 ELSE active_segment_id
NextOffset  == IF RotationDue THEN 1 ELSE current_size + 1
\* Mutant: append returns the offset after the frame.
LocAfter == <<NextSegment, NextOffset + 1>>

NextLoc     == <<NextSegment, NextOffset>>

WalAppend(f) ==
  /\ NextSegment <= MaxSegments
  /\ log' = log \cup {[seg |-> NextSegment, off |-> NextOffset, frame |-> f]}
  /\ files' = files \cup {NextSegment}
  /\ active_segment_id' = NextSegment
  /\ current_size' = NextOffset
  /\ UNCHANGED torn

\* append returns an error.  write_all failed and set_len undid it; or rotate had
\* switched to the next segment before that; or rotate had counted up and could
\* not create the file, so that the next append rotates once more.
WalAppendFails ==
  /\ faults < MaxFaults
  /\ faults' = faults + 1
  /\ \/ UNCHANGED walVars
     \/ /\ RotationDue
        /\ NextSegment <= MaxSegments
        /\ active_segment_id' = NextSegment
        /\ \/ current_size' = 0 /\ files' = files \cup {NextSegment}
           \/ UNCHANGED <<current_size, files>>
        /\ UNCHANGED <<log, torn>>

-----------------------------------------------------------------------------
(* push, ack, nack                                                          *)

Push(p) ==
  /\ CanLock
  /\ Len(pushed) < MaxPushes
  /\ next_id' = next_id + 1
  /\ WalAppend(CreatedFrame(next_id, p, Len(pushed) + 1))
  /\ index' = Put(index, next_id, NextLoc)
  /\ data_index' = Put(data_index, next_id, NextLoc)
  /\ payload_cache' = CacheInsert(payload_cache, next_id, Len(pushed) + 1)
  /\ ready_queue' = QueuePush(ready_queue, [id |-> next_id, priority |-> p, retries |-> 0])
  /\ pushed' = Append(pushed, next_id)
  /\ UNCHANGED <<leased, sideVars, threads, process, now, acked, dead, stranded, counters>>

PushFails ==
  /\ CanLock
  /\ next_id' = next_id + 1
  /\ WalAppendFails
  /\ UNCHANGED <<index, data_index, ready_queue, leased, payload_cache, sideVars,
                 threads, process, now, history, crashes, compactions>>

Ack(c, id) ==
  /\ CanLock
  /\ id \in DOMAIN leased
  /\ leased[id].consumer_id = c
  /\ WalAppend(AckedFrame(id, leased[id].priority))
  /\ index' = Put(index, id, NextLoc)
  /\ leased' = Drop(leased, id)
  /\ data_index' = Drop(data_index, id)
  /\ payload_cache' = CacheRemove(payload_cache, id)
  /\ acked' = acked \cup {PushOf(id)}
  /\ UNCHANGED <<next_id, ready_queue, sideVars, threads, process, now, pushed, dead,
                 stranded, counters>>

\* Mutant: one retry too many.
ExhaustedLate(retries) == retries + 1 > MAX_RETRIES

Exhausted(retries) == retries + 1 >= MAX_RETRIES

\* Common to nack and to the expiration thread, which passes a snapshot.
process_task_failure(id, p, retries, op) ==
  LET new_op == IF Exhausted(retries) THEN "DeadLettered" ELSE op
  IN  /\ WalAppend(FailedFrame(id, new_op, p, retries + 1))
      /\ index' = Put(index, id, NextLoc)
      /\ leased' = Drop(leased, id)
      /\ IF Exhausted(retries)
         THEN /\ data_index' = Drop(data_index, id)
              /\ payload_cache' = CacheRemove(payload_cache, id)
              /\ dead' = dead \cup {PushOf(id)}
              /\ UNCHANGED ready_queue
         ELSE /\ ready_queue' = QueuePush(ready_queue,
                                  [id |-> id, priority |-> p, retries |-> retries + 1])
              /\ UNCHANGED <<data_index, payload_cache, dead>>

\* Mutant: the lease is not removed.
NackKeepsLease(c, id) ==
  /\ CanLock
  /\ id \in DOMAIN leased
  /\ leased[id].consumer_id = c
  /\ WalAppend(FailedFrame(id, "Nacked", leased[id].priority, leased[id].retries + 1))
  /\ index' = Put(index, id, NextLoc)
  /\ ready_queue' = QueuePush(ready_queue, [id |-> id, priority |-> leased[id].priority,
                                            retries |-> leased[id].retries + 1])
  /\ UNCHANGED <<next_id, data_index, leased, payload_cache, sideVars, threads, process, now,
                 history, counters>>

Nack(c, id) ==
  /\ CanLock
  /\ id \in DOMAIN leased
  /\ leased[id].consumer_id = c
  /\ process_task_failure(id, leased[id].priority, leased[id].retries, "Nacked")
  /\ UNCHANGED <<next_id, sideVars, threads, process, now, pushed, acked, stranded, counters>>

\* ack or nack returns the error of append and has changed nothing else.
AckOrNackFails ==
  /\ CanLock
  /\ leased # EmptyMap
  /\ WalAppendFails
  /\ UNCHANGED <<memVars, sideVars, threads, process, now, history, crashes, compactions>>

ClearPayloadCache ==
  /\ CanLock
  /\ payload_cache' = EmptyCache
  /\ UNCHANGED <<walVars, next_id, index, data_index, ready_queue, leased, sideVars,
                 threads, process, now, history, counters>>

-----------------------------------------------------------------------------
(* pop_and_lease: under the lock, then the read of the payload outside it.  *)

PopAndLease(c, ttl) ==
  LET t == QueueFront(ready_queue)
      known == t.id \in DOMAIN data_index
      hit == t.id \in DOMAIN payload_cache.entries
  IN  /\ CanLock
      /\ pops[c].pc = "idle"
      /\ HasTask(ready_queue)
      /\ ready_queue' = QueuePop(ready_queue)
      /\ WalAppend(LeasedFrame(t, c, now + ttl))
      /\ index' = Put(index, t.id, NextLoc)
      /\ leased' = Put(leased, t.id, [consumer_id |-> c, expire_timestamp |-> now + ttl,
                                      retries |-> t.retries, priority |-> t.priority])
      /\ pops' = [pops EXCEPT ![c] =
           [pc    |-> IF ~known THEN "err" ELSE IF hit THEN "ok" ELSE "reading",
            id    |-> t.id,
            loc   |-> IF known /\ ~hit THEN data_index[t.id] ELSE <<0, 0>>,
            tries |-> 0,
            data  |-> IF known /\ hit THEN payload_cache.entries[t.id] ELSE NoData]]
      /\ UNCHANGED <<next_id, data_index, payload_cache, sideVars, lock, expired_tasks,
                     compaction, unlinked, process, now, history, counters>>

\* The lease record cannot be written: the task has already left ready_queue.
PopFails ==
  /\ CanLock
  /\ HasTask(ready_queue)
  /\ ready_queue' = QueuePop(ready_queue)
  /\ WalAppendFails
  /\ stranded' = stranded \cup {QueueFront(ready_queue).id}
  /\ UNCHANGED <<next_id, index, data_index, leased, payload_cache, sideVars, threads,
                 process, now, pushed, acked, dead, crashes, compactions>>

Answer(c, pc, data) ==
  /\ pops' = [pops EXCEPT ![c] = [pc |-> pc, id |-> @.id, loc |-> <<0, 0>>, tries |-> 0,
                                  data |-> data]]
  /\ UNCHANGED <<walVars, memVars, sideVars, lock, expired_tasks, compaction, unlinked,
                 process, now, history, counters>>

\* read_at finds a frame at the location, in the file of that name or in a
\* replaced one that is still open.  Whose frame it is, nobody checks.
ReadFrame(c) ==
  /\ pops[c].pc = "reading"
  /\ \E e \in log \cup unlinked : Loc(e) = pops[c].loc /\ Answer(c, "ok", UserPayload(e.frame))

\* The file is there, but not the frame this pop was told of: the offset is past
\* the end, or falls inside a frame of the file that took its place.
ReadNothing(c) ==
  /\ pops[c].pc = "reading"
  /\ pops[c].loc[1] \in files
  /\ \A e \in log : Loc(e) = pops[c].loc => e.frame.id # pops[c].id
  /\ Answer(c, "err", NoData)

\* The file is gone: look the location up again, twice at most.
ReadNotFound(c) ==
  /\ pops[c].pc = "reading"
  /\ pops[c].loc[1] \notin files
  /\ IF pops[c].tries = 2 THEN Answer(c, "err", NoData)
     ELSE /\ CanLock
          /\ IF pops[c].id \in DOMAIN data_index
             THEN /\ pops' = [pops EXCEPT ![c].loc = data_index[pops[c].id],
                                          ![c].tries = @ + 1]
                  /\ UNCHANGED <<walVars, memVars, sideVars, lock, expired_tasks,
                                 compaction, unlinked, process, now, history, counters>>
             ELSE Answer(c, "err", NoData)

\* The call returns to the client.
PopReturns(c) ==
  /\ pops[c].pc \in {"ok", "err"}
  /\ pops' = [pops EXCEPT ![c] = NoPop]
  /\ UNCHANGED <<walVars, memVars, sideVars, lock, expired_tasks, compaction, unlinked,
                 process, now, history, counters>>

-----------------------------------------------------------------------------
(* The expiration thread: it collects the leases that have run out, lets go *)
(* of the lock, takes it again and processes what it collected.             *)

\* Mutant: a lease is good for the second it ends in.
ExpiredIdsLate == {id \in DOMAIN leased : now > leased[id].expire_timestamp}

ExpiredIds == {id \in DOMAIN leased : now >= leased[id].expire_timestamp}

ExpireScan ==
  /\ CanLock
  /\ expired_tasks = {}
  /\ ExpiredIds # {}
  /\ expired_tasks' = {[id |-> id, priority |-> leased[id].priority,
                        retries |-> leased[id].retries] : id \in ExpiredIds}
  /\ UNCHANGED <<walVars, memVars, sideVars, lock, pops, compaction, unlinked, process,
                 now, history, counters>>

ExpireApply(t) ==
  /\ mode = "up"
  /\ lock \in {"free", "expire"}
  /\ t \in expired_tasks
  /\ process_task_failure(t.id, t.priority, t.retries, "Expired")
  /\ expired_tasks' = expired_tasks \ {t}
  /\ lock' = IF expired_tasks' = {} THEN "free" ELSE "expire"
  /\ UNCHANGED <<next_id, sideVars, pops, compaction, unlinked, process, now, pushed, acked,
                 stranded, counters>>

\* Mutant: the lease is dropped before its record is written.
ExpireFailsDropsLease(t) ==
  /\ mode = "up"
  /\ lock \in {"free", "expire"}
  /\ t \in expired_tasks
  /\ WalAppendFails
  /\ leased' = Drop(leased, t.id)
  /\ expired_tasks' = expired_tasks \ {t}
  /\ lock' = IF expired_tasks' = {} THEN "free" ELSE "expire"
  /\ UNCHANGED <<next_id, index, data_index, ready_queue, payload_cache, sideVars, pops,
                 compaction, unlinked, process, now, history, crashes, compactions>>

\* The error of append is ignored; the lease stays for the next scan.
ExpireFails(t) ==
  /\ mode = "up"
  /\ lock \in {"free", "expire"}
  /\ t \in expired_tasks
  /\ WalAppendFails
  /\ expired_tasks' = expired_tasks \ {t}
  /\ lock' = IF expired_tasks' = {} THEN "free" ELSE "expire"
  /\ UNCHANGED <<memVars, sideVars, pops, compaction, unlinked, process, now, history,
                 crashes, compactions>>

Tick == /\ now < MaxTime
        /\ now' = now + 1
        /\ UNCHANGED <<dirVars, active_segment_id, current_size, memVars, threads, process,
                       history, counters>>

-----------------------------------------------------------------------------
(* compact(): phase 1 without the lock, phase 2 under it.                   *)

CompactStep(pc) == compaction' = [compaction EXCEPT !.pc = pc]

\* Mutant: the active segment counts as closed.
ClosedSegmentsAndActive == {s \in files : s <= active_segment_id}

ClosedSegments == {s \in files : s < active_segment_id}

plan_compaction ==
  /\ CanLock
  /\ compaction.pc = "idle"
  /\ compactions < MaxCompactions
  /\ ClosedSegments # {}
  /\ compaction' = [pc |-> "scan", closed |-> ClosedSegments, offs |-> EmptyMap]
  /\ compactions' = compactions + 1
  /\ UNCHANGED <<walVars, memVars, sideVars, lock, expired_tasks, pops, unlinked,
                 process, now, history, crashes, faults>>

\* Phase 1 writes nesso.00001.compacting and then the plan.
CompactWriteTemp ==
  LET L == InSegments(Readable(log, torn), compaction.closed)
  IN  /\ mode = "up"
      /\ compaction.pc = "scan"
      /\ sides' = sides \cup {"compacting"}
      /\ temp' = Compacted(L)
      /\ compaction' = [compaction EXCEPT !.pc = "temp", !.offs = NewOffsets(L)]
      /\ UNCHANGED <<walVars, memVars, planned, lock, expired_tasks, pops, unlinked,
                     process, now, history, counters>>

CompactWritePlan ==
  /\ mode = "up"
  /\ compaction.pc = "temp"
  /\ sides' = sides \cup {"plan"}
  /\ planned' = compaction.closed
  /\ CompactStep("plan")
  /\ UNCHANGED <<walVars, memVars, temp, lock, expired_tasks, pops, unlinked, process,
                 now, history, counters>>

\* An I/O error before the rename: compact() returns it and leaves its files.
CompactFails ==
  /\ mode = "up"
  /\ compaction.pc \in {"scan", "temp", "plan"}
  /\ faults < MaxFaults
  /\ faults' = faults + 1
  /\ compaction' = NoCompaction
  /\ UNCHANGED <<walVars, memVars, sideVars, lock, expired_tasks, pops, unlinked, process,
                 now, history, crashes, compactions>>

\* Phase 2 takes the lock and renames the temporary file over segment 1.
CompactRename ==
  /\ CanLock
  /\ compaction.pc = "plan"
  /\ lock' = "compact"
  /\ log' = {e \in log : e.seg # 1} \cup temp
  /\ files' = files \cup {1}
  /\ unlinked' = InSegments(log, {1})
  /\ sides' = sides \ {"compacting"}
  /\ temp' = {}
  /\ CompactStep("swap")
  /\ UNCHANGED <<torn, active_segment_id, current_size, memVars, planned, expired_tasks,
                 pops, process, now, history, counters>>

Obsolete == {s \in compaction.closed \cap files : s > 1}

CompactUnlink ==
  /\ mode = "up"
  /\ compaction.pc = "swap"
  /\ \E s \in Obsolete :
       /\ \A r \in Obsolete : s <= r
       /\ files' = files \ {s}
       /\ log' = {e \in log : e.seg # s}
       /\ unlinked' = unlinked \cup InSegments(log, {s})
  /\ UNCHANGED <<torn, active_segment_id, current_size, memVars, sideVars, lock,
                 expired_tasks, pops, compaction, process, now, history, counters>>

Remapped(ix) ==
  [id \in DOMAIN ix |->
     IF id \in DOMAIN compaction.offs /\ ix[id][1] \in compaction.closed
     THEN <<1, compaction.offs[id]>> ELSE ix[id]]

\* The plan goes, the indexes follow the survivors, WalReader drops its files.
CompactFinish ==
  /\ mode = "up"
  /\ compaction.pc = "swap"
  /\ Obsolete = {}
  /\ sides' = sides \ {"plan"}
  /\ planned' = {}
  /\ data_index' = Remapped(data_index)
  /\ index' = Remapped(index)
  /\ unlinked' = {}
  /\ lock' = "free"
  /\ compaction' = NoCompaction
  /\ UNCHANGED <<walVars, next_id, ready_queue, leased, payload_cache, temp, expired_tasks,
                 pops, process, now, history, counters>>

-----------------------------------------------------------------------------
(* The process is killed, possibly in the middle of an append, and with it  *)
(* goes everything but the directory.                                       *)

Crash ==
  /\ mode # "down"
  /\ crashes < MaxCrashes
  /\ crashes' = crashes + 1
  /\ \/ UNCHANGED <<torn, files>>
     \/ /\ mode = "up" /\ lock # "compact"
        /\ NextSegment <= MaxSegments
        /\ files' = files \cup {NextSegment}
        /\ torn' \in {torn \cup {NextLoc}, torn}
  /\ mode' = "down" /\ entries' = {}
  /\ active_segment_id' = 0 /\ current_size' = 0
  /\ next_id' = 1 /\ index' = EmptyMap /\ data_index' = EmptyMap
  /\ ready_queue' = EmptyQueue /\ leased' = EmptyMap /\ payload_cache' = EmptyCache
  /\ lock' = "free" /\ expired_tasks' = {} /\ pops' = [c \in Consumers |-> NoPop]
  /\ compaction' = NoCompaction /\ unlinked' = {}
  /\ stranded' = {}
  /\ UNCHANGED <<log, sideVars, now, pushed, acked, dead, compactions, faults>>

-----------------------------------------------------------------------------
(* Wal::open                                                                *)

Opening == <<torn, active_segment_id, current_size, memVars, threads, entries, now,
             history, counters>>

\* A plan next to a temporary file: the rename has not happened.  The temporary
\* file is removed first, the plan second.
OpenDiscardTemp ==
  /\ mode = "down"
  /\ sides = {"compacting", "plan"}
  /\ sides' = {"plan"} /\ temp' = {}
  /\ mode' = "discard"
  /\ UNCHANGED <<log, files, planned, Opening>>

OpenDiscardPlan ==
  /\ mode = "discard"
  /\ sides' = sides \ {"plan"} /\ planned' = {}
  /\ mode' = "scan"
  /\ UNCHANGED <<log, files, temp, Opening>>

\* A plan alone: the rename has happened, the unlinking may not have.
OpenUnlink ==
  /\ mode = "down"
  /\ sides = {"plan"}
  /\ \E s \in planned \cap files : /\ s > 1
                                   /\ \A r \in planned \cap files : r > 1 => s <= r
                                   /\ files' = files \ {s}
                                   /\ log' = {e \in log : e.seg # s}
  /\ UNCHANGED <<sideVars, mode, Opening>>

OpenUnlinked ==
  /\ mode = "down"
  /\ sides = {"plan"}
  /\ \A s \in planned \cap files : s = 1
  /\ sides' = {} /\ planned' = {}
  /\ mode' = "scan"
  /\ UNCHANGED <<log, files, temp, Opening>>

OpenNoPlan ==
  /\ mode = "down"
  /\ "plan" \notin sides
  /\ mode' = "scan"
  /\ UNCHANGED <<log, files, sideVars, Opening>>

\* Mutant: the torn tail stays and the next frame is written over its place.
OpenScanKeepsTail ==
  LET last == IF files = {} THEN 1 ELSE CHOOSE s \in files : \A r \in files : r <= s
  IN  /\ mode = "scan"
      /\ sides' = sides \ {"compacting"} /\ temp' = {}
      /\ files' = files \cup {last}
      /\ active_segment_id' = last
      /\ current_size' = Cardinality(InSegments(Readable(log, torn), {last}))
      /\ mode' = "index"
      /\ UNCHANGED <<log, torn, planned, memVars, threads, entries, now, history, counters>>

\* Stray temporary files are deleted, the last segment (or a first one) becomes
\* the active one and is cut at its first frame that does not decode.
OpenScan ==
  LET last == IF files = {} THEN 1 ELSE CHOOSE s \in files : \A r \in files : r <= s
  IN  /\ mode = "scan"
      /\ sides' = sides \ {"compacting"} /\ temp' = {}
      /\ files' = files \cup {last}
      /\ active_segment_id' = last
      /\ current_size' = Cardinality(InSegments(Readable(log, torn), {last}))
      /\ log' = {e \in log : e.seg # last \/ e \in Readable(log, torn)}
      /\ torn' = {t \in torn : t[1] # last}
      /\ mode' = "index"
      /\ UNCHANGED <<planned, memVars, threads, entries, now, history, counters>>

-----------------------------------------------------------------------------
(* EngineState::recover                                                     *)

Recovering == <<walVars, sideVars, payload_cache, threads, now, history, counters>>

\* Mutant: the largest id of the log is given out again.
LargestId(L) == IF L = {} THEN 1 ELSE CHOOSE m \in IdsIn(L) : \A id \in IdsIn(L) : id <= m

IdAfter(L) == IF L = {} THEN 1
              ELSE 1 + CHOOSE m \in IdsIn(L) : \A id \in IdsIn(L) : id <= m

Locations(L) == [id \in IdsIn(L) |-> Loc(Last(Of(L, id)))]

\* Mutant: every record counts as one that carries the payload.
AnyIn(L) == L

CreatedIn(L) == {e \in L : e.frame.op = "Created"}

\* Pass 1 reads every segment in order.
RecoverIndex ==
  LET L == Readable(log, torn)
  IN  /\ mode = "index"
      /\ next_id' = IdAfter(L)
      /\ index' = Locations(L)
      /\ data_index' = Locations(CreatedIn(L))
      /\ entries' = IdsIn(L)
      /\ mode' = "replay"
      /\ UNCHANGED <<ready_queue, leased, Recovering>>

\* Mutant: the tasks are replayed in the order of their ids.
NextById == CHOOSE id \in entries : \A j \in entries : id <= j

\* Pass 2 takes the tasks in the order of their latest records.
NextEntry == CHOOSE id \in entries : \A j \in entries : ~LocLess(index[j], index[id])
Latest(id) == (CHOOSE e \in log : Loc(e) = index[id]).frame

Replaying == mode = "replay" /\ entries # {}

ReplayAs(id, ready, lease) ==
  /\ entries' = entries \ {id}
  /\ data_index' = IF id \in DOMAIN data_index THEN data_index
                   ELSE Put(data_index, id, index[id])
  /\ ready_queue' = ready
  /\ leased' = lease
  /\ UNCHANGED <<next_id, index, mode, Recovering>>

\* Mutant: a dead-lettered task waits again.
ReplayDeadReady ==
  LET id == NextEntry
      f  == Latest(id)
  IN  /\ Replaying
      /\ f.op \in {"Created", "Nacked", "Expired", "DeadLettered"}
      /\ ReplayAs(id, QueuePush(ready_queue, [id |-> id, priority |-> f.priority,
                                              retries |-> f.retries]), leased)

ReplayReady ==
  LET id == NextEntry
      f  == Latest(id)
  IN  /\ Replaying
      /\ \/ f.op \in {"Created", "Nacked", "Expired"}
         \/ f.op = "Leased" /\ f.expire <= now
      /\ ReplayAs(id, QueuePush(ready_queue, [id |-> id, priority |-> f.priority,
                                              retries |-> f.retries]), leased)

ReplayLeased ==
  LET id == NextEntry
      f  == Latest(id)
  IN  /\ Replaying
      /\ f.op = "Leased" /\ f.expire > now
      /\ ReplayAs(id, ready_queue,
                  Put(leased, id, [consumer_id |-> f.consumer, expire_timestamp |-> f.expire,
                                   retries |-> f.retries, priority |-> f.priority]))

ReplayTerminal ==
  LET id == NextEntry
  IN  /\ Replaying
      /\ Latest(id).op \in Terminal
      /\ entries' = entries \ {id}
      /\ data_index' = Drop(data_index, id)
      /\ index' = Drop(index, id)
      /\ UNCHANGED <<next_id, ready_queue, leased, mode, Recovering>>

RecoverDone ==
  /\ mode = "replay"
  /\ entries = {}
  /\ mode' = "up"
  /\ UNCHANGED <<next_id, index, data_index, ready_queue, leased, entries, Recovering>>

-----------------------------------------------------------------------------
Client == \/ \E p \in Priorities : Push(p)
          \/ \E c \in Consumers, ttl \in TTLs : PopAndLease(c, ttl)
          \/ \E c \in Consumers, id \in DOMAIN leased : Ack(c, id)
          \/ \E c \in Consumers, id \in DOMAIN leased : Nack(c, id)
          \/ PushFails \/ PopFails \/ AckOrNackFails \/ ClearPayloadCache

Reader == \/ \E c \in Consumers : ReadFrame(c)
          \/ \E c \in Consumers : ReadNothing(c)
          \/ \E c \in Consumers : ReadNotFound(c)
          \/ \E c \in Consumers : PopReturns(c)

Expiration == \/ ExpireScan
              \/ \E t \in expired_tasks : ExpireApply(t)
              \/ \E t \in expired_tasks : ExpireFails(t)

Compaction == \/ plan_compaction \/ CompactWriteTemp \/ CompactWritePlan \/ CompactFails
              \/ CompactRename \/ CompactUnlink \/ CompactFinish

Open == \/ OpenDiscardTemp \/ OpenDiscardPlan \/ OpenUnlink \/ OpenUnlinked \/ OpenNoPlan
        \/ OpenScan \/ RecoverIndex \/ ReplayReady \/ ReplayLeased \/ ReplayTerminal
        \/ RecoverDone

Next == Client \/ Reader \/ Expiration \/ Compaction \/ Open \/ Crash \/ Tick

Spec == Init /\ [][Next]_vars

\* The expiration thread wakes up every second, a compaction is a running thread,
\* open() is a plain call.
Fairness == /\ WF_vars(Open)
            /\ WF_vars(Expiration)
            /\ WF_vars(Compaction /\ compaction.pc # "idle")

LiveSpec == Spec /\ Fairness

-----------------------------------------------------------------------------
(* The type invariant of the engine, its files and its threads.             *)
TypeOK ==
  /\ log \in SUBSET Entry
  /\ torn \in SUBSET (Nat \X Nat)
  /\ files \in SUBSET Nat
  /\ sides \in SUBSET {"compacting", "plan"}
  /\ temp \in SUBSET Entry
  /\ planned \in SUBSET Nat
  /\ active_segment_id \in Nat
  /\ current_size \in Nat
  /\ next_id \in Nat
  /\ index \in [DOMAIN index -> Nat \X Nat] /\ DOMAIN index \subseteq Nat
  /\ data_index \in [DOMAIN data_index -> Nat \X Nat] /\ DOMAIN data_index \subseteq Nat
  /\ ready_queue \in Queue
  /\ leased \in [DOMAIN leased -> LeaseInfo] /\ DOMAIN leased \subseteq Nat
  /\ payload_cache = [entries |-> payload_cache.entries, order |-> payload_cache.order]
  /\ payload_cache.entries \in [DOMAIN payload_cache.entries -> Nat]
  /\ lock \in {"free", "expire", "compact"}
  /\ expired_tasks \in SUBSET TaskRef
  /\ pops \in [Consumers -> [pc : {"idle", "reading", "ok", "err"}, id : Nat,
                             loc : Nat \X Nat, tries : 0..2, data : Nat]]
  /\ compaction = [pc |-> compaction.pc, closed |-> compaction.closed,
                   offs |-> compaction.offs]
  /\ compaction.pc \in {"idle", "scan", "temp", "plan", "swap"}
  /\ compaction.closed \in SUBSET Nat
  /\ compaction.offs \in [DOMAIN compaction.offs -> Nat]
  /\ unlinked \in SUBSET Entry
  /\ mode \in {"down", "discard", "scan", "index", "replay", "up"}
  /\ entries \in SUBSET Nat
  /\ now \in Nat
  /\ pushed \in Seq(Nat)
  /\ acked \in SUBSET Nat /\ dead \in SUBSET Nat /\ stranded \in SUBSET Nat
  /\ crashes \in Nat /\ compactions \in Nat /\ faults \in Nat

(* At-least-once: a task that was pushed and neither acknowledged nor       *)
(* dead-lettered is waiting or leased, through expiry races, compactions    *)
(* and restarts.  The one exception is pop_and_lease failing to write the   *)
(* lease after it has taken the task off the queue.                         *)
NoTaskLost ==
  CanLock => \A n \in DOMAIN pushed :
    n \in acked \cup dead \/ pushed[n] \in ReadyIds \cup DOMAIN leased \cup stranded

(* "No ACKed task is resurrected into ready_queue"                          *)
(* (tests/adversarial_lease_and_queue_test.rs:431), and neither is a        *)
(* dead-lettered one; nor is either leased again.  An id that a later push  *)
(* was given speaks for that push.                                          *)
TerminalIsFinal ==
  CanLock => \A n \in acked \cup dead :
    PushOf(pushed[n]) = n => pushed[n] \notin ReadyIds \cup DOMAIN leased

(* A task waits or is leased, never both, and waits once: two entries of    *)
(* one task would be delivered to two consumers.                            *)
OnePlace ==
  CanLock => /\ ready_queue.len = Cardinality(ReadyIds)
             /\ ReadyIds \cap DOMAIN leased = {}

(* Whatever waits or is leased has a data_index entry, and that entry leads *)
(* to a frame of this task that carries the payload of its push.            *)
PayloadReachable ==
  CanLock => \A id \in ReadyIds \cup DOMAIN leased :
    /\ id \in DOMAIN data_index
    /\ \E e \in log : /\ Loc(e) = data_index[id]
                      /\ e.frame.id = id
                      /\ UserPayload(e.frame) = PushOf(id)

(* A pop that succeeds hands out the payload that was pushed under that id. *)
RightPayload ==
  \A c \in Consumers : pops[c].pc = "ok" => pops[c].data = PushOf(pops[c].id)

(* The log alone determines the state: what recover() would make of the     *)
(* files is what memory holds, lease by lease and retry by retry.  A lease  *)
(* that has run out comes back as a waiting task.                           *)
RestartIsTransparent ==
  CanLock => \A id \in IdsIn(log) \cup ReadyIds \cup DOMAIN leased :
    LET f == Last(Of(log, id)).frame
    IN  /\ id \in IdsIn(log)
        /\ id \in ReadyIds => [id |-> id, priority |-> f.priority, retries |-> f.retries]
                                \in Queued(ready_queue)
        /\ id \in DOMAIN leased =>
             /\ f.op = "Leased"
             /\ leased[id] = [consumer_id |-> f.consumer, expire_timestamp |-> f.expire,
                              retries |-> f.retries, priority |-> f.priority]
        /\ id \notin ReadyIds \cup DOMAIN leased \cup stranded => f.op \in Terminal

\* The n-th push as its latest record tells it; compaction drops what is done.
TaskOf(n) ==
  LET records == Of(log, pushed[n])
      f       == Last(records).frame
  IN  IF records = {} \/ PushOf(pushed[n]) # n \/ f.op \in Terminal
      THEN [state |-> "done", retries |-> 0]
      ELSE [state   |-> IF f.op = "Leased" THEN "leased" ELSE "waiting",
            retries |-> f.retries]

Promise == INSTANCE TaskQueue WITH tasks <- [n \in DOMAIN pushed |-> TaskOf(n)]

(* The log implements the abstract queue of tasks: every append is one step *)
(* of it, and nothing else changes the state or the retries of any task, no *)
(* file operation of compaction or of open(), no kill, torn write or failed *)
(* call (engine.rs:165-383, wal.rs:123-263 and 355-527).                    *)
ImplementsTaskQueue == Promise!Spec

(* "bit-exact FIFO preservation" (engine.rs:617): tasks of one priority     *)
(* wait in the order of their latest records, the order recover() uses.     *)
ReadyInLogOrder ==
  CanLock => \A p \in Priorities :
    \A i, j \in DOMAIN ready_queue.buckets[p] :
      i < j => LocLess(Loc(Last(Of(log, ready_queue.buckets[p][i].id))),
                       Loc(Last(Of(log, ready_queue.buckets[p][j].id))))

(* Segments have no gap and no two frames in one place: the end of the      *)
(* active segment that open() computes (wal.rs:200-254), and the one that   *)
(* append keeps, is where the next frame goes, kills, failed rotations and  *)
(* compactions notwithstanding.                                             *)
LogIsGapless == Unique(log) /\ Dense(log)

(* No task waits or is leased with its retries used up.                     *)
RetriesBounded ==
  /\ \A t \in Queued(ready_queue) \cup expired_tasks : t.retries < MAX_RETRIES
  /\ \A id \in DOMAIN leased : leased[id].retries < MAX_RETRIES

(* "no ID collision": push never hands out an id a second time.             *)
IdsUnique == \A m, n \in DOMAIN pushed : pushed[m] = pushed[n] => m = n

(* The expiration thread keeps up (engine.rs:385-448): a lease that has run *)
(* out is taken away, unless the process is killed before, although the     *)
(* thread lets go of the lock between finding and ending it, its append may *)
(* fail, and phase 2 of a compaction holds the lock meanwhile.              *)
ExpiredLeaseEnds ==
  \A id \in 1..MaxPushes :
    (id \in DOMAIN leased /\ leased[id].expire_timestamp <= now)
      ~> ~(id \in DOMAIN leased /\ leased[id].expire_timestamp <= now)

=============================================================================
