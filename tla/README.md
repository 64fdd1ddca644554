# Nesso: TLA+ models, model checking and proofs

Nesso is a persistent message queue: an HTTP server (`src/server.rs`) in front of
one storage engine per queue (`src/storage/`). This directory holds TLA+ modules
that model the storage engine and the server, TLC configurations that check them on small
instances, and TLAPS proofs of what holds for every instance. `PROJECT.json`
relates every definition to the source lines it models. Paths in the text are
relative to the repository, `engine.rs` standing for `src/storage/engine.rs`.

## The system

| Part | State | Operations | Guarded by |
|---|---|---|---|
| priority queue (`priority_queue.rs`) | 256 buckets, `[u64; 4]` bitmap, `len` | push, pop, clear | the engine's lock |
| payload cache (`payload_cache.rs`) | map of payloads, FIFO of ids with tombstones | insert, get, remove, clear | the engine's lock |
| record (`record.rs`) | frame with id, operation, priority, payload, CRC | encode, decode | - |
| write-ahead log (`wal.rs`) | segment files, active segment, its size | open, append with rotation, iter_all, compaction in two phases | the engine's lock, compaction's phase 1 excepted |
| reader (`wal.rs`) | up to eight open segment files | read_at, clear_cache | its own lock |
| engine (`engine.rs`) | next_id, index, data_index, ready_queue, leased | push, pop_and_lease, ack, nack, compact, recover | `inner` |
| expiration thread (`engine.rs`) | snapshot of expired leases | scan, then process | `inner`, released in between |
| group commit (`group_commit.rs`) | collecting batch, last synced batch, last_error, flags | sync, force_flush_and_wait | `state` and a condition variable |
| server (`server.rs`) | queue registry, one `Notify` per queue, shutdown token | handlers, long polling, shutdown | `queues` |

A request appends to the log and changes memory under `inner`, and with
`sync=true` then waits in group commit until an fsync has covered it. A pop leaves
the lock before it reads its payload. The expiration thread looks and acts in two
critical sections. Compaction does its heavy work without the lock and swaps files
under it. A handler of the server looks its queue up in the registry, runs one call of
the engine on a thread of the blocking pool and awaits it; a long poll that finds
nothing sleeps on the queue's `Notify`, which pushes, nacks and the expiration thread
signal. At the end the server drains its requests, flushes every engine and joins its
thread. After a kill, `Wal::open` cleans up what compaction left and cuts a torn
tail, and `recover` rebuilds memory from the log.

What makes this hard: state read before an unlock and used after it (expiry
snapshot, payload location, file of the committer), the kills between the file
operations of compaction and of `open` itself, appends that fail half-way through a
handler, two batches of group commit alive at once, notifications that collapse into one
permit, clients that go away while their job runs on, and a log in which compaction
changes both what records carry and where they are. `PROJECT.json` lists these
hazards at their lines, with the properties that watch over them.

## Modules

| Module | Models |
|---|---|
| `BucketOps` | the value of the priority queue: push, the search in the bitmap, pop |
| `PriorityFifo` | what a priority queue promises (abstract) |
| `PriorityBucketQueue` | the queue as a state machine, with the refinement to `PriorityFifo` |
| `CacheOps` | the value of the payload cache and of a hash map |
| `FifoCache` | what the payload cache promises (abstract) |
| `TaskMemory` | the priority queue and the payload cache used together, with the refinements to `PriorityFifo` and `FifoCache` |
| `Wal` | the log as a value: frames, readable part, what compaction keeps and writes |
| `TaskQueue` | what an engine promises its clients (abstract): an at-least-once queue with bounded retries |
| `Engine` | engine, log files, reader, expiration thread, compaction, kill and recovery (on `BucketOps`, `CacheOps` and `Wal`), with the refinement to `TaskQueue` |
| `GroupCommit` | callers of `Engine::sync`, the batch protocol, the log's durable part |
| `Server` | registry, request handlers, long polling, the expiration threads seen from outside, shutdown |
| `MC*` | instances for TLC |
| `*Proofs` | theorems and proofs |

**BucketOps, PriorityBucketQueue.** A `VecDeque` is a sequence. A bitmap word is the
set of its one-bits, so `63 - leading_zeros` is its largest member. `len` is an
integer of its own, as in the code, and not derived from the buckets.

**Wal.** The directory is one set of entries, a frame at the off-th place of segment
seg. A frame has the fields its payload bytes encode: lease prefix, retry byte and
user payload. Payloads are numbers, the n-th push carrying n. Only a Created frame, or
a frame consolidated by compaction, carries a payload (`NoData` otherwise). `torn` holds
the places where a write was cut; a scan of a segment stops there. The ordinal of a
frame stands for its byte offset: a read at an ordinal that belongs to another file's
content may find that frame or, because byte offsets need not line up, nothing.

**Engine.** One action is one critical section of `inner`, or one file operation where
a kill in between matters.

| Code | Actions |
|---|---|
| `push`, `ack`, `nack` | `Push`, `Ack`, `Nack` and, when the append fails, `PushFails`, `AckOrNackFails` |
| `pop_and_lease` | `PopAndLease` or `PopFails` under the lock; `ReadFrame`, `ReadNothing`, `ReadNotFound` for each turn of the read loop; `PopReturns` |
| expiration thread | `ExpireScan`, then one `ExpireApply` or `ExpireFails` per task, `inner` held until the last |
| `compact` | `plan_compaction`, `CompactWriteTemp`, `CompactWritePlan`, `CompactRename`, `CompactUnlink` per segment, `CompactFinish`; `CompactFails` |
| `Wal::open` | `OpenDiscardTemp` and `OpenDiscardPlan`, `OpenUnlink` per segment and `OpenUnlinked`, or `OpenNoPlan`; then `OpenScan` |
| `recover` | `RecoverIndex`; `ReplayReady`, `ReplayLeased`, `ReplayTerminal` per task; `RecoverDone` |
| environment | `Crash` (killed at any step, the append in progress possibly torn), `Tick` |

A kill of the process keeps what `write` has handed to the operating system, so `Engine`
keeps the log. Losing unsynced data is what `GroupCommit` is about. A failed append may
also have rotated first, or have counted the segment up without creating its file.

**GroupCommit.** A thread appends, takes the active file, joins the collecting batch,
and from then on repeats the loop of `sync`: return if its batch is synced, close and
fsync if it is its turn and a reason to close exists, otherwise wait with or without a
timeout. `holder` is the `state` mutex. `check` is the top of the loop with the mutex
held. The two timers are flags that time may raise. An fsync makes durable at least
what was written when it was called. A fault makes it fail.

**TaskMemory.** `ready_queue` and `payload_cache` as push, pop_and_lease and ack use them:
a push enters both, a pop leaves the payload cached for another delivery, an ack
removes it and leaves its id behind in the FIFO. The abstract cache is the sequence of the
ids that are still cached. `VecDeque::retain` is defined by what it returns: the places that stay, in
their order (`Retained`).

**Engine and TaskQueue.** The abstract state of the n-th push is read off the log: its
latest record says whether the task waits or is leased and how often it has failed; a task
that is done may have no record left. An append is then one step of `TaskQueue`, and the
file operations of compaction and of `open`, kills and failed calls have to be none.

**Server.** An engine is seen from outside: how many tasks wait, how many are leased,
and which requests wrote a record that no fsync has covered. A request is a handler
(`hand`) and, while the handler awaits it, a job of the blocking pool (`job`).

| Code | Actions |
|---|---|
| `get_existing_queue`, `get_or_create_queue` | actions of the same names, one per critical section of the registry; the second also when the first releases the lock in between |
| `spawn_blocking` of each handler | `EnginePush`, `EnginePop`, `EngineAck`, `EngineNack`, `EngineRead` (status and compact), `EngineRefuses`, `EngineFails`; then `Callback` (`on_task_ready`, outside the engine's lock) and `JobSync` |
| the handler after its await | `Finish`; for a pop that found nothing `PopNothing`, `Retry`, `Cancelled`, `Deadline` (the branches of `select!`) |
| expiration thread | `WorkerStops`, `WorkerScans`, `WorkerExpires`, `WorkerCallback` once per task given back |
| `shutdown_signal`, `main`, `shutdown_all_queues` | `Signal`, `StopAccepting`, `TakeSnapshot`, `FlushQueue`, `NextQueue`, `NoQueues`; after a failed flush `DropEngine` and `Exit` |
| environment | `Arrive`, `Disconnect` |

`Notify` is modelled from its use: `notify_one` wakes one waiter or leaves the one permit there
is; the future of `notified()` neither takes the permit nor waits before `select!` polls it; when
it is dropped after it was notified, the notification goes to the next waiter. `overtaken`
is history: it marks a poller that has looked at its queue while another poller of that
queue took a wakeup. `gone` counts leases that end between the expiration thread's two
critical sections, since the thread gives those tasks back all the same. Flushing covers every
record appended before it; how far group commit keeps that is the subject of `GroupCommit`
and of run `commit_rotation`.

## Runs

| Run | Question | Result |
|---|---|---|
| `queue` | are bitmap, buckets and counter consistent, is the queue a priority FIFO queue, the cache a bounded FIFO cache | holds, 105 492 states |
| `engine_restart` | with a compaction that fails or is killed anywhere, do memory and log agree, and does the log implement the abstract queue | holds, 268 233 states |
| `engine_crash` | after two kills with torn writes, are payloads, order and ids right, and frames never overwritten | holds, 162 607 states |
| `engine_live` | do expiry, a failing append, a compaction and a kill lose a task or exceed the retries; do expired leases end | holds, 72 954 states |
| `group_commit` | one fsync at a time, synced batch on disk, every caller returns | holds, 534 267 states |
| `server` | one engine per directory; who can be left asleep, and is everyone else woken; does the shutdown end, with answered requests flushed and threads joined | holds, 676 402 states |
| `resurrection` | "No ACKed task is resurrected into ready_queue" | violated |
| `reboot_payload` | payloads right "across cold reboot" | violated |
| `stale_read` | "zero data corruption" of pops racing compaction | violated |
| `open_killed` | no task lost when `open` is killed | violated |
| `commit_rotation` | Ok means "durably persisted to disk" | violated |
| `commit_error` | Ok only after the batch's fsync succeeded | violated |

**The six violations** are behaviours of the code that disagree with a test's or a
comment's words; each is quoted in `PROJECT.json` and reproduced by a short trace.

- `resurrection`: a lease runs out, the expiration thread takes its snapshot, the
  consumer acks, the thread processes the snapshot: the acked task waits again.
- `reboot_payload`: a compaction folds the payload into a Leased record, a nack appends a
  record without payload, the process restarts: `data_index` points at the nack.
- `stale_read`: a pop gets its location, compaction replaces segment 1, the pop reads
  another task's frame there; the id of the frame is not compared.
- `open_killed`: killed after the rename's preparation, then killed again inside `open`
  between the two `remove_file`s; the third start takes the lone plan for a finished
  rename and deletes live segments.
- `commit_rotation`: a thread takes the old file, another appends after the rotation and
  joins the same batch, the first commits with the old file.
- `commit_error`: a batch fails, the next one succeeds before a member of the first has
  woken up: the member reads the second outcome.

Four more disagreements were seen and have no run of their own. server.rs:379-383 says that a
wakeup between check and `select!` "is captured without any loss". For one poller it is. Two
pollers that have both found nothing, and are not waiting yet, share one permit: two pushes leave
one permit, one poller retries and the other sleeps beside a waiting task until its deadline or
the next notification. `SleepsOnlyIfOvertaken` says that this is the only way, and `SleeperIsServed` that everyone else is
woken. A lease taken after the
snapshot can be expired early (same cause as `resurrection`). Compaction writes survivors
in the order of ids, so the FIFO order after a restart differs (`ReadyInLogOrder` fails with
`MaxCompactions = 1`, `MaxPushes = 3`). After a compaction that dropped the largest id and a
restart, `next_id` repeats it (`IdsUnique` fails with `MaxCompactions = 1`, `MaxCrashes = 1`).

**What the passing runs leave out on purpose.** `engine_restart` has no clock, and
`engine_live` does not claim `TerminalIsFinal`, because of `resurrection`. `engine_crash` has
no compaction, because of `reboot_payload`, `stale_read` and the order and id findings. One kill, not two, goes
with compaction, because of `open_killed`. `NoTaskLost` excepts tasks whose pop failed to write
its lease (`stranded`): they are out of reach until a restart.

**Bounds.** Two consumers suffice for every race between owners; they are symmetric.
`engine_live` has one, for its liveness property rules symmetry out (with two it holds as well,
669 783 states). One
or two tasks suffice because handlers touch one task at a time, and the places where tasks
meet are the order of a bucket, the frames of one segment and the slots of the compacted
file. Segments of two frames make rotation and compaction happen within a few operations.
`MAX_RETRIES` is 3 as in the code, and 2 where the runs have to be shorter.
The queue run uses the priorities on both sides of a word boundary and both ends, and a cache
of two entries, so that five pushes with acks in between fill its FIFO to the bound. Group
commit has three callers: a committer, a member of its batch, a member of the next one.
The server has two queues and three requests: two pollers of one queue and someone who wakes
them, or one poller and a request to the other queue, so that the shutdown has two engines to
stop. The queue is new, or was left with a lease that the expiration thread or the client ends.
One I/O error may hit any call. Its run checks for deadlock: only the end of `main` is final.
The runs of `Engine` and `GroupCommit` switch the deadlock check off: the bounds end every
behaviour, and a queue nobody calls may rest.

**Fairness.** `open` is a plain call, the expiration thread wakes every second and takes the
lock, a compaction once begun is a running thread: weak fairness
for each. Clients need not call or read on, nobody need crash or fail. In `GroupCommit` a thread
inside `sync` proceeds and the batch window runs out; callers need not come back. Mutexes are
assumed to be obtained eventually by weak fairness of the steps that take them. `ExpiredLeaseEnds`
needs all three: the thread gets the lock because a compaction in phase 2 goes on to release it,
and a lease that `recover` has read back can only be taken away once `open` has ended (TLC refutes it without either). That `open` and `compact` end by themselves is not
claimed: they are straight-line code, and it would say no more than their fairness.
In `Server` some handler or job that can go on does (the runtime and the blocking pool have
threads), every expiration thread's `wait_timeout` ends, and `main` goes on. No deadline is
assumed to pass, no client to leave, no signal to come: pollers end at shutdown because they see
the token, and sleepers are served (`SleeperIsServed`) because a notification reaches them. A request
enters the model when its body has been read; a client that never finishes its body would hold
axum's draining up, and `ShutdownEnds` does not speak of it.

Every property of a passing run has a mutant in `PROJECT.json`: a plausible slip in a
modelled definition (operators marked "Mutant" in the modules) under which TLC refutes the
property.

## Proofs

All constants are arbitrary within the named assumptions: any set of u8 priorities, any
capacity of the cache, any number of pushes, threads, segments, batches and faults. The engine's four proof modules build on
each other in the order below. In them, in `OperatorProofs` and in `TaskMemoryProofs` a `USE` at the top sets which provers a
leaf is given to, and `HIDE DEF` puts lemmas away that the rest of a module does not cite; both only save
time and change no statement.

- `OperatorProofs`: lemmas on the operators the models are built from. The queue as a value: a push
  or pop keeps the type and `BitmapMatches`, and when a bit is set the word and bit found denote a
  priority whose bucket is not empty and no higher bucket holds a task; the largest bit of a word
  exists by well-foundedness of `<` on a bounded set of naturals. The log as a value: a finite log
  has a last record of every task (one with the fewest records above it); the number of frames in a
  gapless segment is the place of its last one; what compaction writes is well formed, gapless and
  keeps every field but the payload; deleting, replacing or cutting a segment leaves no gap.
  What the log *says*: `Tips(log)` is the latest record of every task without its payload. An append
  replaces one tip (`TipsAppend`); the rename of a compaction and each single deletion, by `compact`
  or by `open`, loses tips of finished tasks only (`TipsRename`, `TipsUnlink`).
- `TaskMemoryProofs`, on the queue: `TypeCorrect`, `BitmapIsExact`, `LenIsCount`, `BucketsStaySorted` and the
  refinement `BucketsImplementFifo`. The inductive invariant joins the four: the counter can
  only be shown to drop by one when the task popped occurs once, which needs the buckets
  sorted; finding a task at all needs the exact bitmap. These are theorems about `Spec` of
  `PriorityBucketQueue`; `MemoryIsQueue` carries them over to `MemorySpec`, which the run checks.
  On the payload cache: `CacheStaysBounded` (`CacheBounded`) and the refinement `CacheIsFifo`
  (`ImplementsFifoCache`), for any capacity, 0 included. The invariant `MemoryInv` adds to the bounds that the
  FIFO is ascending (a push inserts an id above all others), that its ids were pushed, and that every cached id is in
  it. Without the last, the eviction loop could empty the FIFO and leave the cache over its
  capacity; without the first, the hygiene could leave an id twice and the FIFO over its bound.
  An ascending sequence is determined by its set of elements (`SameElements`), so that the evictions,
  removals and `retain` are compared with the abstract cache as sets.
- `EngineProofs`: `TypeCorrect`, `RetriesAreBounded` (`RetriesBounded`) and `NoFrameOverwritten`
  (`LogIsGapless`). The inductive invariant `IInv` has four parts. `Layout`: the log is finite and
  gapless, the active segment is the newest and ends at `current_size` unless a rotation failed, and
  compaction works on segments older than it; without this, a restart could compute a size that
  puts the next frame on top of another. `TasksOK`: whatever names a task, in a record of the log or
  of the temporary file, in the queue, a lease or the snapshot, names one that was pushed, with
  retries to spare; records are included because `recover` turns them into tasks again.
  `IndexOK`: during replay the index leads into the log. `RestOK`: the remaining types. There is
  one lemma per action or group of actions. The last part of the module is about
  the directory. The invariant `Disk` says what the two side
  files of a compaction mean at every step; its core is `Replaced`: while a plan is alone, segment 1 has
  every task that the segments still to be deleted would leave unfinished, once. It is what makes a
  kill between any two deletions harmless.
- `EngineSafeProofs`: `NoTaskIsLost` (`NoTaskLost`) needs `Disk` and `Safe`:
  a push that is not finished has a tip that says so and keeps its id to itself (`Kept`); before
  `recover` memory is empty (`Blank`); afterwards the next id is above all others, every entry
  still to be replayed lies where the index says, and every unfinished push is an entry, waits, is
  leased or stranded (`Placed`). Lemmas named `...Moves` sum up what an action changes in
  these terms, so that the lemmas on the invariant do not expand it again. `IdsReusedWhenFinished`
  follows from `Kept`. `IdsNeverReused` (`IdsUnique`) has two halves: without compaction every push keeps its
  Created record (`Recorded`), so `recover` starts above all ids; without a kill `next_id`
  only rises (`Rising`).
- `EngineTaskProofs`: `TaskHasOnePlace` (`OnePlace`), `RestartChangesNothing`
  (`RestartIsTransparent`), `FinishedStaysFinished` (`TerminalIsFinal`) and the refinement
  `LogImplementsTaskQueue` (`ImplementsTaskQueue`). The invariant `Agreed`: every task in memory is
  where its tip says, with the tip's priority, retries and lease, and in one place only; every tip that
  is not terminal has such a place; the tip of a finished push is terminal or belongs to a later push.
  Under it the three invariants are one line each. For the refinement, `IsTask` reads the
  abstract state of a push off the tips; an append then changes one task, by an abstract step that depends
  on the tip before and the record appended, and a step that only forgets finished tips
  changes none.
- `EnginePayloadProofs`: `PopsAreRight` (`RightPayload`), `PayloadsAreFound` (`PayloadReachable`) and
  `TasksWaitInLogOrder` (`ReadyInLogOrder`). `Rights`: `data_index` leads to the Created record, the
  cache has the payload of the push with that id, and a pop between lock and read holds a location at which
  the Created record of its task still is; without compaction records never move.
  `Reachable`: whatever waits or is leased is in `data_index`. `QueueInOrder`: each bucket is in the
  order of the latest records, and everything that `recover` has still to replay is behind what
  it has replayed; the second half is what its sort provides (`NextIsAhead`).

  These theorems carry hypotheses, because the code does not keep the properties without them; for
  each, a violation run or a TLC run named above shows a behaviour that breaks the property.
  `OpenUndisturbed`: no kill between the two `remove_file`s of `open` (run `open_killed`).
  `[]SnapshotFresh`: what the expiration thread's snapshot says of a lease is still so, until it is applied
  (run `resurrection`). `Uncompacted`: no compaction is started (runs `reboot_payload` and
  `stale_read`, the order and the ids after a compaction). `NoTaskIsLost` and `PopsAreRight` hold with stale snapshots, too.

  | Theorem | `OpenUndisturbed` | `[]SnapshotFresh` | `Uncompacted` |
  |---|---|---|---|
  | `NoTaskIsLost`, `IdsReusedWhenFinished` | needed | | |
  | `TaskHasOnePlace`, `RestartChangesNothing`, `FinishedStaysFinished`, `LogImplementsTaskQueue` | needed | needed | |
  | `IdsNeverReused` | | | or never killed |
  | `PopsAreRight` | | | needed |
  | `PayloadsAreFound`, `TasksWaitInLogOrder` | | needed | needed |

  The invariants `Disk`, `Safe`, `Agreed`, `Recorded`, `Rights`, `Reachable` and `QueueInOrder` were model-checked on
  the instances of the engine's runs before they were proved. The proof of `FinishedStaysFinished`
  corrected the property: an id that a later push was given (after a compaction and a
  restart) may wait again, for that push; `TerminalIsFinal` now speaks of the last push with an id.
- `GroupCommitProofs`: `TypeCorrect`, `FsyncIsSerial` (`OneFsync`), `SyncedBatchIsOnDisk`, and what an
  Ok is worth. The inductive invariant adds: who is at the top of the loop holds the mutex (`MutexHeld`); a
  thread's batch is at most the collecting one, that of a committer is the one after the last synced
  (`BatchesOrdered`); closed segments are durable and no record is past the written part
  (`LogSynced`); the committer's snapshot covers the records in its file of its own batch and of those
  before (`SnapCovers`); a record whose batch, or a later one, was fsynced through its or a later
  segment is durable (`GoodOnDisk`); every Ok that is published or returned goes back to an
  fsync (`Backed`), and to that of each published batch while none has failed (`FaultFree`).
  Two violation runs show that Ok can mean less than the comments say; the theorems say how much it
  does mean. `OkAfterFsync`: always, an fsync of the caller's batch or of a later one has succeeded, and the
  caller's record is on the disk if it lies in the file of that fsync or in a segment before.
  `OkDurableBeforeRotation`: until the log rotates, Ok means durable, failed fsyncs included, so a rotation is
  all that `commit_rotation` needs. `OkIsOwnBatchBeforeFault`: until an fsync fails, Ok means that the
  fsync of the caller's own batch succeeded, rotations included, so a failure is all that `commit_error` needs.

- `ServerProofs`: `TypeCorrect`, `OneEngine` (`OneEnginePerQueue`), `SleepersOvertaken`
  (`SleepsOnlyIfOvertaken`), `AnswersFlushed` (`AnsweredIsFlushed`) and `ThreadsStop`
  (`WorkersStopped`), for any queues, requests and calls. `RequestsOK` says which jobs a handler
  can have at each place, `RegistryOK` that a queue is registered exactly when its engine
  is open, `CallbacksOwed` that a thread in its callbacks has one left to make. `WakeupsOK` is the
  strengthening of `SleepsOnlyIfOvertaken`: a poller that has looked and has not been overtaken finds no task
  waiting, or a notification on its way, or, while it is not yet asleep, the permit.
  It is needed because the wakeup may arrive in three forms between the empty pop and the
  sleep, and each step turns one into another. `Drains` (once `main` is past draining every accepted
  request is over), `StopsThreads` and `Flushes` (the queues `main` is done with are joined and
  have nothing unflushed of an answered request) carry the loop of `shutdown_all_queues`. Lemmas
  `HandlerMoves`, `JobMoves`, `WorkerMoves` and `MainMoves` sum up what each actor can change.

Only model-checked: the liveness properties (fairness and ENABLED are outside what the prover
handles). Every invariant and every refinement of a passing run is also a theorem, those of
`Engine` under the hypotheses of the table above, which the bounds of the runs stand for.

## Not modelled

- Wording and layout: JSON, base64, status codes, the CRC and the byte layout of a record, the
  statistics of the cache and of group commit.
- `health_handler` and `list_queues_handler` read and change nothing.
- Which eight files the reader keeps open: a read may find the current file or a replaced one.
- The file `nesso.compaction_swap` (wal.rs:132-141): `open` looks for it and compaction removes it, but
  nothing writes it.
- Errors that the code ignores (`remove_file` at wal.rs:525, `set_len`): these calls succeed.
- The width of `expire_timestamp` (engine.rs:213): clock and lease times are small numbers.
- A poisoned mutex: no modelled step panics.
- An error while a queue is opened ends the request in `Server`; that a waiting pop tries once more
  when the error is of kind NotFound (server.rs:355-359) is left out.
- The command line and the start of the runtime (`main.rs` up to line 145), sequential and without
  shared state; the benchmark and `examples/worker_pool.rs`, which are client programs.
- `Server` does not contain `Engine`: their product is out of TLC's reach. The counts of waiting and
  leased tasks in `Server` follow the critical sections of `Engine`, the stale snapshot included.

## What could come next

The order of the queue and the payloads under a compaction that is not raced; a failing `remove_file` in
compaction.
