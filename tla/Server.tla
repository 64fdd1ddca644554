------------------------------- MODULE Server -------------------------------
(***************************************************************************)
(* The HTTP server (src/server.rs) and its shutdown (src/main.rs): the     *)
(* registry of queues, the request handlers, long polling on a             *)
(* tokio::sync::Notify per queue, the expiration thread of every engine    *)
(* and the order in which all of them end.                                 *)
(*                                                                         *)
(* An engine is seen from outside: how many tasks wait, how many are       *)
(* leased, and which requests wrote records that no fsync has covered.     *)
(* What the engine does inside is module Engine, fsync is GroupCommit.     *)
(*                                                                         *)
(* A request is a handler (hand) and, while the handler awaits it, a job   *)
(* on a thread of the blocking pool (job).  When the client goes away the  *)
(* handler is dropped where it awaits; a job that runs is not.             *)
(***************************************************************************)
EXTENDS Naturals, FiniteSets

CONSTANTS
  Queues,             \* queue names
  Requests,           \* requests, each served once
  Offered,            \* per request, the calls it may turn out to be
  MaxStored,          \* bound: tasks of each kind found on disk at the start
  MaxFaults           \* bound: I/O errors

Ops   == {"push", "pop", "ack", "nack", "read"}
Calls == [op : Ops, queue : Queues, wait : BOOLEAN, sync : BOOLEAN]

ASSUME ServerAssumption ==
  /\ Offered \in [Requests -> SUBSET Calls]
  /\ MaxStored \in Nat /\ MaxFaults \in Nat

VARIABLES
  dirs,               \* queues that have a directory
  queues,             \* AppState.queues: the registered ones
  opened,             \* engines opened on each directory
  ready, leased,      \* per queue, the tasks waiting and the tasks leased
  unflushed,          \* per queue, requests with a record no fsync has covered
  permit,             \* Notify: a notification nobody has taken yet
  call,               \* what each request asks for
  hand,               \* where its handler is; "ok" is an answer of success
  job,                \* where its job is
  overtaken,          \* another poller took a wakeup since this one's last pop
  worker,             \* per queue, where the expiration thread is
  owed,               \* expired tasks the thread has found, then callbacks it has to make
  gone,               \* leases that have ended since it found them
  shutdown_flag,      \* per queue, ExpirationWorker.shutdown_flag
  shutdown_token,     \* the CancellationToken
  main, todo,         \* where main is, and the queues it has still to do
  faults

store    == <<dirs, queues, opened>>
tasks    == <<ready, leased, unflushed>>
request  == <<call, hand, job, overtaken>>
threads  == <<worker, owed, gone, shutdown_flag>>
shutdown == <<shutdown_token, main, todo>>
vars == <<dirs, queues, opened, ready, leased, unflushed, permit, call, hand, job,
          overtaken, worker, owed, gone, shutdown_flag, shutdown_token, main, todo, faults>>

NoCall == [op |-> "none", queue |-> "none", wait |-> FALSE, sync |-> FALSE]

QueueOf(r) == call[r].queue

Init ==
  /\ dirs \in SUBSET Queues
  /\ queues = {} /\ opened = [q \in Queues |-> 0]
  /\ ready \in [Queues -> 0..MaxStored] /\ leased \in [Queues -> 0..MaxStored]
  /\ \A q \in Queues \ dirs : ready[q] = 0 /\ leased[q] = 0
  /\ unflushed = [q \in Queues |-> {}]
  /\ permit = [q \in Queues |-> FALSE]
  /\ call = [r \in Requests |-> NoCall]
  /\ hand = [r \in Requests |-> "new"] /\ job = [r \in Requests |-> "none"]
  /\ overtaken = [r \in Requests |-> FALSE]
  /\ worker = [q \in Queues |-> "none"] /\ owed = [q \in Queues |-> 0]
  /\ gone = [q \in Queues |-> 0]
  /\ shutdown_flag = [q \in Queues |-> FALSE]
  /\ shutdown_token = FALSE /\ main = "serving" /\ todo = {}
  /\ faults = 0

-----------------------------------------------------------------------------
(* tokio::sync::Notify.  notify_one wakes one handler that waits, or leaves *)
(* a permit; there is at most one.  h is where the handlers are by then.    *)

Waiting(h, q) == {r \in Requests : h[r] = "asleep" /\ QueueOf(r) = q}

notify_one(q, h) ==
  \/ \E r \in Waiting(h, q) : hand' = [h EXCEPT ![r] = "woken"] /\ UNCHANGED permit
  \/ /\ Waiting(h, q) = {}
     /\ hand' = h
     /\ permit' = [permit EXCEPT ![q] = TRUE]

\* s has looked at its queue and found nothing, and may be about to sleep.
Looked(s) == hand[s] = "asleep" \/ (hand[s] = "await" /\ job[s] = "nothing")

\* r takes a wakeup that others who have looked could have had.
Overtake(r) ==
  overtaken' = [s \in Requests |->
    s # r /\ (overtaken[s] \/ (QueueOf(s) = QueueOf(r) /\ Looked(s)))]

-----------------------------------------------------------------------------
(* Requests arrive, and are answered or dropped.                            *)

\* The handler of r is over, without success.
Ended(r) == [hand EXCEPT ![r] = "end"]
Forget(r) == overtaken' = [overtaken EXCEPT ![r] = FALSE]

Arrive(r, c) ==
  /\ main = "serving"
  /\ hand[r] = "new"
  /\ c \in Offered[r]
  /\ call' = [call EXCEPT ![r] = c]
  /\ hand' = [hand EXCEPT ![r] = IF c.op = "push" THEN "create" ELSE "lookup"]
  /\ UNCHANGED <<store, tasks, permit, job, overtaken, threads, shutdown, faults>>

\* The client closes the connection.  A handler that had been notified hands the
\* notification on when it is dropped.
Disconnect(r) ==
  /\ hand[r] \in {"await", "asleep", "woken"}
  /\ IF hand[r] = "woken" THEN notify_one(QueueOf(r), Ended(r))
     ELSE hand' = Ended(r) /\ UNCHANGED permit
  /\ Forget(r)
  /\ UNCHANGED <<store, tasks, call, job, threads, shutdown, faults>>

-----------------------------------------------------------------------------
(* The registry.                                                            *)

\* The handler goes on with the queue: it spawns its job and awaits it.
\* pop_handler looks at the token first, at the head of its loop.
Begin(r) ==
  IF call[r].op = "pop" /\ shutdown_token
  THEN hand' = Ended(r) /\ UNCHANGED job
  ELSE /\ hand' = [hand EXCEPT ![r] = "await"]
       /\ job' = [job EXCEPT ![r] = "run"]

\* get_existing_queue, after the token check that pop_handler begins with.
get_existing_queue(r) ==
  /\ hand[r] = "lookup"
  /\ IF (call[r].op = "pop" /\ shutdown_token) \/ QueueOf(r) \in queues
     THEN Begin(r)
     ELSE IF QueueOf(r) \in dirs \/ (call[r].op = "pop" /\ call[r].wait)
     THEN hand' = [hand EXCEPT ![r] = "create"] /\ UNCHANGED job
     ELSE hand' = Ended(r) /\ UNCHANGED job
  /\ UNCHANGED <<store, tasks, permit, call, overtaken, threads, shutdown, faults>>

\* push decodes the payload when it has the queue.
Attached(r) == \/ Begin(r)
               \/ call[r].op = "push" /\ hand' = Ended(r) /\ UNCHANGED job

Open(q) == /\ dirs' = dirs \cup {q}
           /\ queues' = queues \cup {q}
           /\ opened' = [opened EXCEPT ![q] = @ + 1]
           /\ worker' = [worker EXCEPT ![q] = "idle"]

\* Mutant: the registry is not consulted again under the lock that opens.
get_or_create_unchecked(r) ==
  /\ hand[r] = "create"
  /\ Open(QueueOf(r))
  /\ Attached(r)
  /\ UNCHANGED <<tasks, permit, call, overtaken, owed, gone, shutdown_flag, shutdown, faults>>

\* get_or_create_queue: one critical section of the registry's mutex.
get_or_create_queue(r) ==
  /\ hand[r] = "create"
  /\ \/ /\ QueueOf(r) \in queues
        /\ Attached(r)
        /\ UNCHANGED <<store, worker, faults>>
     \/ /\ QueueOf(r) \notin queues
        /\ Open(QueueOf(r))
        /\ Attached(r)
        /\ UNCHANGED faults
     \/ /\ QueueOf(r) \notin queues       \* create_dir_all or Engine::open fails
        /\ faults < MaxFaults
        /\ faults' = faults + 1
        /\ dirs' \in {dirs, dirs \cup {QueueOf(r)}}
        /\ hand' = Ended(r)
        /\ UNCHANGED <<queues, opened, worker, job>>
  /\ UNCHANGED <<tasks, permit, call, overtaken, owed, gone, shutdown_flag, shutdown>>

-----------------------------------------------------------------------------
(* The job: a call of the engine, its callback, and sync() if asked for.    *)

Running(r, op) == job[r] = "run" /\ call[r].op = op
JobGoesTo(r, pc) == job' = [job EXCEPT ![r] = pc]
Done(r) == IF call[r].sync THEN "sync" ELSE "some"
Wrote(r) == unflushed' = [unflushed EXCEPT ![QueueOf(r)] = @ \cup {r}]

\* A lease of q ends while the expiration thread may have its task in a snapshot.
LeaseEnds(q) ==
  /\ leased' = [leased EXCEPT ![q] = @ - 1]
  /\ gone' = [gone EXCEPT ![q] = IF worker[q] = "scan" THEN @ + 1 ELSE @]

LeaseFrame == <<store, permit, call, hand, overtaken, worker, owed, shutdown_flag, shutdown>>
JobFrame == <<LeaseFrame, gone>>

EnginePush(r) ==
  /\ Running(r, "push")
  /\ ready' = [ready EXCEPT ![QueueOf(r)] = @ + 1]
  /\ Wrote(r)
  /\ JobGoesTo(r, "callback")
  /\ UNCHANGED <<JobFrame, leased, faults>>

\* The payload is read after the lease has been written; when that fails the
\* lease stays.
EnginePop(r) ==
  /\ Running(r, "pop")
  /\ IF ready[QueueOf(r)] = 0
     THEN JobGoesTo(r, "nothing") /\ UNCHANGED tasks
     ELSE /\ ready' = [ready EXCEPT ![QueueOf(r)] = @ - 1]
          /\ leased' = [leased EXCEPT ![QueueOf(r)] = @ + 1]
          /\ Wrote(r)
          /\ \E pc \in {Done(r), "error"} : JobGoesTo(r, pc)
  /\ UNCHANGED <<JobFrame, faults>>

\* Mutant: the lease is not looked up.
EngineAckUnchecked(r) ==
  /\ Running(r, "ack")
  /\ LeaseEnds(QueueOf(r))
  /\ Wrote(r)
  /\ JobGoesTo(r, Done(r))
  /\ UNCHANGED <<LeaseFrame, ready, faults>>

EngineAck(r) ==
  /\ Running(r, "ack")
  /\ leased[QueueOf(r)] > 0
  /\ LeaseEnds(QueueOf(r))
  /\ Wrote(r)
  /\ JobGoesTo(r, Done(r))
  /\ UNCHANGED <<LeaseFrame, ready, faults>>

\* The task waits again, or its retries are used up and it does not.
EngineNack(r) ==
  /\ Running(r, "nack")
  /\ leased[QueueOf(r)] > 0
  /\ LeaseEnds(QueueOf(r))
  /\ Wrote(r)
  /\ \/ /\ ready' = [ready EXCEPT ![QueueOf(r)] = @ + 1]
        /\ JobGoesTo(r, "callback")
     \/ UNCHANGED ready /\ JobGoesTo(r, Done(r))
  /\ UNCHANGED <<LeaseFrame, faults>>

\* status and compact.
EngineRead(r) ==
  /\ Running(r, "read")
  /\ JobGoesTo(r, "some")
  /\ UNCHANGED <<JobFrame, tasks, faults>>

\* No such lease, or it belongs to someone else.
EngineRefuses(r) ==
  /\ Running(r, "ack") \/ Running(r, "nack")
  /\ JobGoesTo(r, "error")
  /\ UNCHANGED <<JobFrame, tasks, faults>>

\* append fails.  A pop has taken its task off the queue by then.
EngineFails(r) ==
  /\ job[r] = "run"
  /\ faults < MaxFaults
  /\ faults' = faults + 1
  /\ IF call[r].op = "pop"
     THEN ready[QueueOf(r)] > 0 /\ ready' = [ready EXCEPT ![QueueOf(r)] = @ - 1]
     ELSE UNCHANGED ready
  /\ JobGoesTo(r, "error")
  /\ UNCHANGED <<JobFrame, leased, unflushed>>

\* on_task_ready, after the engine has let go of its lock.
Callback(r) ==
  /\ job[r] = "callback"
  /\ notify_one(QueueOf(r), hand)
  /\ JobGoesTo(r, Done(r))
  /\ UNCHANGED <<store, tasks, call, overtaken, threads, shutdown, faults>>

\* sync() may fail when the engine has already done what it was asked.
JobSync(r) ==
  /\ job[r] = "sync"
  /\ \/ /\ unflushed' = [unflushed EXCEPT ![QueueOf(r)] = {}]
        /\ JobGoesTo(r, "some")
        /\ UNCHANGED faults
     \/ /\ faults < MaxFaults
        /\ faults' = faults + 1
        /\ JobGoesTo(r, "error")
        /\ UNCHANGED unflushed
  /\ UNCHANGED <<JobFrame, ready, leased>>

-----------------------------------------------------------------------------
(* The handler after its job, and the long poll.                            *)

HandlerFrame == <<store, tasks, call, threads, shutdown, faults>>

\* push and nack notify once more before they answer.
Finish(r) ==
  /\ hand[r] = "await"
  /\ job[r] \in {"some", "error"}
  /\ IF job[r] = "some" /\ call[r].op \in {"push", "nack"}
     THEN notify_one(QueueOf(r), [hand EXCEPT ![r] = "ok"])
     ELSE /\ hand' = [hand EXCEPT ![r] = IF job[r] = "some" THEN "ok" ELSE "end"]
          /\ UNCHANGED permit
  /\ UNCHANGED <<HandlerFrame, job, overtaken>>

\* Mutant: a permit that was left before the handler waits is not taken.
PopNothingAsleep(r) ==
  /\ hand[r] = "await" /\ job[r] = "nothing"
  /\ \/ hand' = Ended(r) /\ Forget(r)
     \/ /\ call[r].wait /\ ~shutdown_token
        /\ hand' = [hand EXCEPT ![r] = "asleep"]
        /\ UNCHANGED overtaken
  /\ UNCHANGED <<HandlerFrame, permit, job>>

\* Nothing to pop.  Without wait_secs or past the deadline the answer is 204.
\* Else select! tries its branches in any order, and only now does the future
\* of notified() take the permit or become a waiter.
PopNothing(r) ==
  /\ hand[r] = "await" /\ job[r] = "nothing"
  /\ \/ hand' = Ended(r) /\ Forget(r) /\ UNCHANGED <<permit, job>>
     \/ /\ call[r].wait /\ permit[QueueOf(r)]
        /\ permit' = [permit EXCEPT ![QueueOf(r)] = FALSE]
        /\ Begin(r)
        /\ Overtake(r)
     \/ /\ call[r].wait /\ ~permit[QueueOf(r)] /\ ~shutdown_token
        /\ hand' = [hand EXCEPT ![r] = "asleep"]
        /\ UNCHANGED <<permit, job, overtaken>>
  /\ UNCHANGED HandlerFrame

\* Notified: pop again.
Retry(r) ==
  /\ hand[r] = "woken"
  /\ Begin(r)
  /\ Overtake(r)
  /\ UNCHANGED <<HandlerFrame, permit>>

\* Another branch of select! is taken.  A notification that had come as well is
\* handed on when the future is dropped.
Leave(r) ==
  /\ hand[r] \in {"asleep", "woken"}
  /\ IF hand[r] = "woken" THEN notify_one(QueueOf(r), Ended(r))
     ELSE hand' = Ended(r) /\ UNCHANGED permit
  /\ Forget(r)
  /\ UNCHANGED <<HandlerFrame, job>>

Cancelled(r) == shutdown_token /\ Leave(r)

Deadline(r) == Leave(r)

-----------------------------------------------------------------------------
(* The expiration thread of a queue's engine.                               *)

WorkerFrame == <<store, call, job, overtaken, shutdown, faults>>

\* Mutant: the flag is looked at only when there is something to scan.
WorkerStopsLate(q) ==
  /\ worker[q] = "idle" /\ shutdown_flag[q] /\ leased[q] > 0
  /\ worker' = [worker EXCEPT ![q] = "exited"]
  /\ UNCHANGED <<WorkerFrame, tasks, permit, hand, owed, gone, shutdown_flag>>

\* wait_timeout ends, by time or by notify_all, and the flag is set.
WorkerStops(q) ==
  /\ worker[q] = "idle" /\ shutdown_flag[q]
  /\ worker' = [worker EXCEPT ![q] = "exited"]
  /\ UNCHANGED <<WorkerFrame, tasks, permit, hand, owed, gone, shutdown_flag>>

\* It is not: the leases that have run out are collected under the lock, which is
\* then released.
WorkerScans(q, found) ==
  /\ worker[q] = "idle" /\ ~shutdown_flag[q]
  /\ found <= leased[q]
  /\ owed' = [owed EXCEPT ![q] = found]
  /\ worker' = [worker EXCEPT ![q] = "scan"]
  /\ UNCHANGED <<WorkerFrame, tasks, permit, hand, gone, shutdown_flag>>

\* Mutant: the thread gives tasks back and calls no one.
WorkerExpiresSilently(q, expired, again) ==
  /\ worker[q] = "scan"
  /\ expired <= leased[q] /\ expired <= owed[q]
  /\ again <= owed[q] /\ again <= expired + gone[q]
  /\ leased' = [leased EXCEPT ![q] = @ - expired]
  /\ ready' = [ready EXCEPT ![q] = @ + again]
  /\ owed' = [owed EXCEPT ![q] = 0]
  /\ gone' = [gone EXCEPT ![q] = 0]
  /\ worker' = [worker EXCEPT ![q] = "idle"]
  /\ UNCHANGED <<WorkerFrame, unflushed, permit, hand, shutdown_flag>>

\* Every task found is given back or buried, unless its record cannot be written.
\* A task whose lease has ended since then is given back all the same.
WorkerExpires(q, expired, again) ==
  /\ worker[q] = "scan"
  /\ expired <= leased[q] /\ expired <= owed[q]
  /\ again <= owed[q] /\ again <= expired + gone[q]
  /\ leased' = [leased EXCEPT ![q] = @ - expired]
  /\ ready' = [ready EXCEPT ![q] = @ + again]
  /\ owed' = [owed EXCEPT ![q] = again]
  /\ gone' = [gone EXCEPT ![q] = 0]
  /\ worker' = [worker EXCEPT ![q] = IF again > 0 THEN "callback" ELSE "idle"]
  /\ UNCHANGED <<WorkerFrame, unflushed, permit, hand, shutdown_flag>>

\* One callback for each task that waits again.
WorkerCallback(q) ==
  /\ worker[q] = "callback"
  /\ notify_one(q, hand)
  /\ owed' = [owed EXCEPT ![q] = @ - 1]
  /\ worker' = [worker EXCEPT ![q] = IF owed[q] = 1 THEN "idle" ELSE "callback"]
  /\ UNCHANGED <<WorkerFrame, tasks, gone, shutdown_flag>>

-----------------------------------------------------------------------------
(* shutdown_signal, axum's graceful shutdown and shutdown_all_queues.       *)

MainFrame == <<store, permit, request, owed, gone>>

Signal ==
  /\ ~shutdown_token
  /\ shutdown_token' = TRUE
  /\ UNCHANGED <<MainFrame, tasks, worker, shutdown_flag, main, todo, faults>>

StopAccepting ==
  /\ main = "serving" /\ shutdown_token
  /\ main' = "draining"
  /\ UNCHANGED <<MainFrame, tasks, worker, shutdown_flag, shutdown_token, todo, faults>>

\* Mutant: the requests in flight are not waited for.
NotWaitedFor == main = "draining"

\* Every request that was accepted is answered, or its client has gone.
Drained == main = "draining" /\ \A r \in Requests : hand[r] \in {"new", "ok", "end"}

TakeSnapshot ==
  /\ Drained
  /\ main' = "flush" /\ todo' = queues
  /\ UNCHANGED <<MainFrame, tasks, worker, shutdown_flag, shutdown_token, faults>>

\* force_flush_group_commit.  Its error ends the loop, and main with it.
FlushQueue(q) ==
  /\ main = "flush" /\ q \in todo
  /\ \/ /\ unflushed' = [unflushed EXCEPT ![q] = {}]
        /\ main' = "stop" /\ todo' = todo \ {q}
        /\ shutdown_flag' = [shutdown_flag EXCEPT ![q] = TRUE]
        /\ UNCHANGED faults
     \/ /\ faults < MaxFaults
        /\ faults' = faults + 1
        /\ main' = "failed" /\ todo' = queues
        /\ UNCHANGED <<unflushed, shutdown_flag>>
  /\ UNCHANGED <<MainFrame, ready, leased, worker, shutdown_token>>

\* Mutant: stop() does not join.
StopReturns == main = "stop"

\* stop() returns when the thread it told to stop has ended.
Joined == main = "stop" /\ \A q \in Queues : shutdown_flag[q] => worker[q] = "exited"

NextQueue ==
  /\ Joined
  /\ main' = IF todo = {} THEN "complete" ELSE "flush"
  /\ UNCHANGED <<MainFrame, tasks, worker, shutdown_flag, shutdown_token, todo, faults>>

NoQueues ==
  /\ main = "flush" /\ todo = {}
  /\ main' = "complete"
  /\ UNCHANGED <<MainFrame, tasks, worker, shutdown_flag, shutdown_token, todo, faults>>

\* After an error the AppState is dropped, and ExpirationWorker::drop stops the
\* threads, each when the last job that holds the engine is done.
DropEngine(q) ==
  /\ main = "failed" /\ q \in todo
  /\ \A r \in Requests : QueueOf(r) = q => job[r] \notin {"run", "callback", "sync"}
  /\ shutdown_flag' = [shutdown_flag EXCEPT ![q] = TRUE]
  /\ todo' = todo \ {q}
  /\ UNCHANGED <<MainFrame, tasks, worker, shutdown_token, main, faults>>

Exit ==
  /\ main = "failed" /\ todo = {}
  /\ \A q \in queues : worker[q] = "exited"
  /\ main' = "aborted"
  /\ UNCHANGED <<MainFrame, tasks, worker, shutdown_flag, shutdown_token, todo, faults>>

Exited == main \in {"complete", "aborted"} /\ UNCHANGED vars

-----------------------------------------------------------------------------
Environment == \/ \E r \in Requests : \E c \in Offered[r] : Arrive(r, c)
               \/ \E r \in Requests : Disconnect(r)
               \/ \E r \in Requests : Deadline(r)
               \/ Signal

Handler(r) == \/ get_existing_queue(r) \/ get_or_create_queue(r) \/ Finish(r)
              \/ PopNothing(r) \/ Retry(r) \/ Cancelled(r)

Job(r) == \/ EnginePush(r) \/ EnginePop(r) \/ EngineAck(r) \/ EngineNack(r)
          \/ EngineRead(r) \/ EngineRefuses(r) \/ EngineFails(r) \/ Callback(r)
          \/ JobSync(r)

Worker(q) == \/ WorkerStops(q)
             \/ \E found \in 1..leased[q] : WorkerScans(q, found)
             \/ \E expired, again \in 0..owed[q] : WorkerExpires(q, expired, again)
             \/ WorkerCallback(q)

Main == \/ StopAccepting \/ TakeSnapshot
        \/ \E q \in Queues : FlushQueue(q)
        \/ NextQueue \/ NoQueues
        \/ \E q \in Queues : DropEngine(q)
        \/ Exit

Next == \/ Environment
        \/ \E r \in Requests : Handler(r)
        \/ \E r \in Requests : Job(r)
        \/ \E q \in Queues : Worker(q)
        \/ Main
        \/ Exited

Spec == Init /\ [][Next]_vars

\* Some handler or job that can go on does, as tokio and its blocking pool have
\* threads; so does main, and wait_timeout ends.  Nothing makes a deadline pass
\* soon, a client go away or a signal come.  A request is here from when its body
\* has been read: a client that never ends its body is not a request.
Fairness == /\ WF_vars(\E r \in Requests : Handler(r) \/ Job(r))
            /\ \A q \in Queues : WF_vars(Worker(q))
            /\ WF_vars(Main)

FairSpec == Spec /\ Fairness

-----------------------------------------------------------------------------
(* The type invariant of the server.                                        *)
TypeOK ==
  /\ dirs \in SUBSET Queues /\ queues \in SUBSET Queues
  /\ opened \in [Queues -> Nat]
  /\ ready \in [Queues -> Nat] /\ leased \in [Queues -> Nat]
  /\ unflushed \in [Queues -> SUBSET Requests]
  /\ permit \in [Queues -> BOOLEAN]
  /\ call \in [Requests -> Calls \cup {NoCall}]
  /\ hand \in [Requests -> {"new", "lookup", "create", "await", "asleep", "woken", "ok",
                            "end"}]
  /\ job \in [Requests -> {"none", "run", "callback", "sync", "some", "nothing", "error"}]
  /\ overtaken \in [Requests -> BOOLEAN]
  /\ worker \in [Queues -> {"none", "idle", "scan", "callback", "exited"}]
  /\ owed \in [Queues -> Nat] /\ gone \in [Queues -> Nat]
  /\ shutdown_flag \in [Queues -> BOOLEAN] /\ shutdown_token \in BOOLEAN
  /\ main \in {"serving", "draining", "flush", "stop", "failed", "complete", "aborted"}
  /\ todo \in SUBSET Queues
  /\ faults \in Nat

(* A queue's directory never has two engines on it, each with its own idea  *)
(* of the log's end, however many requests find the queue missing from the  *)
(* registry at once (server.rs:96-133).                                     *)
OneEnginePerQueue == \A q \in Queues : opened[q] <= 1

\* A notification for q is on its way to a handler that will pop.
UnderWay(q) == \/ worker[q] = "callback"
               \/ \E r \in Requests : QueueOf(r) = q
                                        /\ (job[r] = "callback" \/ hand[r] = "woken")

(* "the wakeup is captured without any loss" (server.rs:382), as far as it  *)
(* goes: a handler that sleeps while a task waits, and to which no          *)
(* notification is on its way, was overtaken by another handler after its   *)
(* last pop.  A consumer that polls alone is never left behind, even when   *)
(* the producer goes away in the middle of its push.                        *)
SleepsOnlyIfOvertaken ==
  \A r \in Requests :
    hand[r] = "asleep" /\ ready[QueueOf(r)] > 0 /\ ~UnderWay(QueueOf(r)) => overtaken[r]

(* "all pending batches have been fsync-ed" (main.rs:162): when main says   *)
(* so, every record of a request that was answered with success is covered  *)
(* by an fsync, also of one that did not ask for it.                        *)
AnsweredIsFlushed ==
  main = "complete" =>
    \A q \in Queues, r \in Requests : hand[r] = "ok" => r \notin unflushed[q]

(* "expiration threads stopped" (main.rs:162): no thread of any engine that *)
(* was opened is left to write.                                             *)
WorkersStopped ==
  main \in {"complete", "aborted"} =>
    \A q \in Queues : opened[q] > 0 => worker[q] = "exited"

(* A handler that sleeps beside a waiting task does not stay there: a       *)
(* notification reaches it, another handler takes the task or overtakes it, *)
(* or it ends.  No deadline is needed for that, though the push's client    *)
(* may be gone, a notified handler may be dropped, and the expiration       *)
(* thread puts tasks back without a request (server.rs:331-338 and 379-432, *)
(* engine.rs:438-443).                                                      *)
SleeperIsServed ==
  \A r \in Requests :
    []<>~(hand[r] = "asleep" /\ ready[QueueOf(r)] > 0 /\ ~overtaken[r])

(* After the signal the server comes to its end: handlers that sleep see    *)
(* the token, jobs and expiration threads finish, no one waits for anyone.  *)
(* The token is never taken back, so a server that does not stay between    *)
(* the signal and the end of main for ever reaches that end (server.rs:     *)
(* 75-94 and 419-425, main.rs:151-165).                                     *)
ShutdownEnds == []<>(shutdown_token => main \in {"complete", "aborted"})

=============================================================================
