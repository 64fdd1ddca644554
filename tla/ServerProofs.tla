---------------------------- MODULE ServerProofs ----------------------------
(***************************************************************************)
(* Proofs about Server for any number of queues, requests, stored tasks    *)
(* and faults.                                                             *)
(***************************************************************************)
EXTENDS Server, TLAPS

HandPcs == {"new", "lookup", "create", "await", "asleep", "woken", "ok", "end"}
JobPcs  == {"none", "run", "callback", "sync", "some", "nothing", "error"}

\* A handler spawns its job when it has its queue, and answers when the job is done.
RequestsOK ==
  \A r \in Requests :
    /\ hand[r] \in {"new", "lookup", "create"} => job[r] = "none"
    /\ hand[r] # "new" => call[r] \in Calls
    /\ hand[r] \in {"await", "asleep", "woken"} => job[r] # "none"
    /\ hand[r] = "ok" => job[r] = "some"
    /\ job[r] # "none" => call[r] \in Calls /\ QueueOf(r) \in queues

\* What is not registered was never opened, and has no thread and no record.
RegistryOK ==
  /\ \A q \in queues : opened[q] = 1
  /\ \A q \in Queues \ queues : opened[q] = 0 /\ worker[q] = "none" /\ unflushed[q] = {}
  /\ todo \subseteq queues

\* The expiration thread has a callback to make wherever it makes them.
CallbacksOwed == \A q \in Queues : worker[q] = "callback" => owed[q] > 0

\* A permit is left only where nobody waits, and it is there for a handler that
\* found nothing, that nobody has overtaken since, and whom no one is about to wake.
WakeupsOK ==
  \A q \in Queues, r \in Requests : QueueOf(r) = q =>
    /\ hand[r] = "asleep" => ~permit[q]
    /\ Looked(r) /\ ready[q] > 0 /\ ~UnderWay(q) /\ ~overtaken[r] => permit[q]

\* main goes from queue to queue when every handler has ended.
Drains == main \notin {"serving", "draining"} =>
            \A r \in Requests : hand[r] \in {"new", "ok", "end"}

\* The queues that main is done with have no thread and no record of an answer.
StopsThreads ==
  /\ main \in {"flush", "stop", "complete"} => \A q \in queues \ todo : shutdown_flag[q]
  /\ main \in {"flush", "complete"} => \A q \in queues \ todo : worker[q] = "exited"
  /\ main = "complete" => todo = {}
  /\ main = "aborted" => \A q \in queues : worker[q] = "exited"

Flushes ==
  main \in {"flush", "stop", "complete"} =>
    \A q \in Queues \ todo : \A r \in unflushed[q] : hand[r] # "ok"

IInv == /\ TypeOK /\ RequestsOK /\ RegistryOK /\ CallbacksOwed /\ WakeupsOK
        /\ Drains /\ StopsThreads /\ Flushes

-----------------------------------------------------------------------------
\* A pc is one of those of a handler, or of a job.
LEMMA Pcs == /\ TypeOK => hand \in [Requests -> HandPcs] /\ job \in [Requests -> JobPcs]
             /\ hand' \in [Requests -> HandPcs] /\ job' \in [Requests -> JobPcs]
                  => hand' \in [Requests -> {"new", "lookup", "create", "await", "asleep",
                                             "woken", "ok", "end"}]
                     /\ job' \in [Requests -> {"none", "run", "callback", "sync", "some",
                                               "nothing", "error"}]
  BY DEF TypeOK, HandPcs, JobPcs

(* notify_one (tokio::sync::Notify) moves at most one handler, from asleep  *)
(* to woken, on its own queue.                                              *)
LEMMA Notified ==
  ASSUME NEW q \in Queues, NEW h \in [Requests -> HandPcs], permit \in [Queues -> BOOLEAN],
         notify_one(q, h)
  PROVE  /\ hand' \in [Requests -> HandPcs]
         /\ permit' \in [Queues -> BOOLEAN]
         /\ \A s \in Requests : \/ hand'[s] = h[s]
                                \/ h[s] = "asleep" /\ hand'[s] = "woken" /\ QueueOf(s) = q
  BY Zenon DEF notify_one, Waiting, HandPcs

-----------------------------------------------------------------------------
(* What the steps of each of the actors leave alone.                        *)

\* The steps of a request's handler and of its client.
Acts(r) == Handler(r) \/ Disconnect(r) \/ Leave(r) \/ \E c \in Offered[r] : Arrive(r, c)

\* Every step is one of a handler, of a job, of an expiration thread or of main.
LEMMA Actors ==
  ASSUME Next
  PROVE  \/ \E r \in Requests : Acts(r)
         \/ \E r \in Requests : Job(r)
         \/ \E q \in Queues : Worker(q)
         \/ Signal \/ Main \/ Exited
  BY DEF Next, Environment, Deadline, Acts

\* A handler leaves the tasks, the threads' orders and main alone.
LEMMA HandlerMoves ==
  ASSUME NEW r \in Requests, Acts(r)
  PROVE  /\ UNCHANGED <<ready, leased, unflushed, owed, shutdown_flag, main, todo>>
         /\ ~get_or_create_queue(r) => UNCHANGED <<dirs, queues, opened, worker>>
<1>1. CASE Disconnect(r) \/ Leave(r) \/ \E c \in Offered[r] : Arrive(r, c)
  BY <1>1 DEF Disconnect, Leave, Arrive, HandlerFrame, store, tasks, threads, shutdown
<1>2. CASE get_existing_queue(r) \/ get_or_create_queue(r)
  BY <1>2 DEF get_existing_queue, get_or_create_queue, store, tasks, threads, shutdown
<1>3. CASE Finish(r) \/ PopNothing(r) \/ Retry(r)
  BY SMTT(30), <1>3 DEF Finish, PopNothing, Retry, HandlerFrame, store, tasks, threads, shutdown
<1> QED
  BY <1>1, <1>2, <1>3 DEF Acts, Handler, Cancelled

\* A job writes for its own request, and only a callback moves a handler.
LEMMA JobMoves ==
  ASSUME TypeOK, NEW r \in Requests, Job(r)
  PROVE  /\ UNCHANGED <<dirs, queues, opened, call, overtaken, worker, owed, shutdown_flag, main,
                        todo>>
         /\ job[r] \in {"run", "callback", "sync"}
         /\ \A q \in Queues : unflushed'[q] # unflushed[q] =>
              q = QueueOf(r) /\ unflushed'[q] \subseteq unflushed[q] \cup {r}
         /\ ~Callback(r) => /\ UNCHANGED <<hand, permit>> /\ job[r] # "callback"
                            /\ \E pc \in JobPcs \ {"none"} : JobGoesTo(r, pc)
<1> USE DEF TypeOK, LeaseFrame, JobFrame, store, threads, shutdown, Running, Done, JobPcs
<1>1. CASE EnginePush(r) \/ EngineAck(r)
  BY <1>1 DEF EnginePush, EngineAck, Wrote
<1>2. CASE EnginePop(r)
  BY <1>2 DEF EnginePop, tasks, Wrote
<1>3. CASE EngineNack(r)
  BY <1>3 DEF EngineNack, Wrote
<1>4. CASE EngineRead(r) \/ EngineRefuses(r) \/ EngineFails(r)
  BY <1>4 DEF EngineRead, EngineRefuses, EngineFails, tasks
<1>5. CASE Callback(r)
  BY <1>5 DEF Callback, tasks
<1>6. CASE JobSync(r)
  BY <1>6 DEF JobSync
<1> QED
  BY <1>1, <1>2, <1>3, <1>4, <1>5, <1>6 DEF Job

\* An expiration thread moves while it has not exited.
LEMMA WorkerMoves ==
  ASSUME NEW q \in Queues, Worker(q)
  PROVE  /\ UNCHANGED <<dirs, queues, opened, call, job, overtaken, unflushed, shutdown_flag,
                        main, todo>>
         /\ worker[q] \notin {"none", "exited"} /\ \E pc : worker' = [worker EXCEPT ![q] = pc]
         /\ ~WorkerCallback(q) => UNCHANGED <<hand, permit>> /\ worker[q] # "callback"
<1>1. CASE WorkerStops(q) \/ WorkerCallback(q)
  BY <1>1 DEF WorkerStops, WorkerCallback, WorkerFrame, store, tasks, shutdown
<1>2. CASE \E found \in 1..leased[q] : WorkerScans(q, found)
  BY Zenon, <1>2 DEF WorkerScans, WorkerFrame, store, tasks, shutdown
<1>3. CASE \E expired, again \in 0..owed[q] : WorkerExpires(q, expired, again)
  BY Zenon, <1>3 DEF WorkerExpires, WorkerFrame, store, shutdown
<1> QED
  BY Zenon, <1>1, <1>2, <1>3 DEF Worker

\* Main leaves the requests and the tasks alone, and the threads to stop by themselves.
LEMMA MainMoves ==
  ASSUME Signal \/ Main \/ Exited
  PROVE  UNCHANGED <<dirs, queues, opened, ready, permit, call, hand, job, overtaken, worker, owed>>
<1> USE DEF MainFrame, store, tasks, request
<1>1. CASE Signal \/ StopAccepting \/ TakeSnapshot \/ NextQueue \/ NoQueues \/ Exit
  BY <1>1 DEF Signal, StopAccepting, TakeSnapshot, NextQueue, NoQueues, Exit
<1>2. CASE \E q \in Queues : FlushQueue(q) \/ DropEngine(q)
  BY <1>2 DEF FlushQueue, DropEngine
<1>3. CASE Exited
  BY <1>3 DEF Exited, vars
<1> QED
  BY <1>1, <1>2, <1>3 DEF Main

(* Going on with a queue keeps the types of the two pcs.                    *)
LEMMA BeginTypes ==
  ASSUME TypeOK, NEW r \in Requests, Begin(r) \/ Attached(r)
  PROVE  hand' \in [Requests -> HandPcs] /\ job' \in [Requests -> JobPcs]
<1>1. hand \in [Requests -> HandPcs] /\ job \in [Requests -> JobPcs]
  BY Pcs
<1> QED
  BY <1>1 DEF Begin, Attached, Ended, HandPcs, JobPcs

(* Arrival, disconnection and the registry keep the types.                  *)
LEMMA TypeOfRequests ==
  ASSUME TypeOK, NEW r \in Requests, RequestsOK,
         \/ \E c \in Offered[r] : Arrive(r, c)
         \/ Disconnect(r) \/ get_existing_queue(r) \/ get_or_create_queue(r)
  PROVE  TypeOK'
<1>0. hand \in [Requests -> HandPcs] /\ job \in [Requests -> JobPcs]
  BY SMTT(30), Pcs
<1>1. ASSUME NEW c \in Offered[r], Arrive(r, c) PROVE TypeOK'
  <2>1. c \in Calls
    BY ServerAssumption
  <2>2. call' \in [Requests -> Calls \cup {NoCall}]
    BY <1>1, <2>1 DEF TypeOK, Arrive
  <2>3. hand' \in [Requests -> HandPcs] /\ job' \in [Requests -> JobPcs]
    BY SMTT(30), <1>0, <1>1 DEF Arrive, HandPcs
  <2> QED
    BY <1>1, <2>2, <2>3, Pcs DEF TypeOK, Arrive, store, tasks, threads, shutdown
<1>2. ASSUME Disconnect(r) PROVE TypeOK'
  <2>1. QueueOf(r) \in Queues /\ Ended(r) \in [Requests -> HandPcs]
    BY Zenon, <1>0, <1>2 DEF RequestsOK, Disconnect, QueueOf, Calls, Ended, HandPcs
  <2>2. hand' \in [Requests -> HandPcs] /\ permit' \in [Queues -> BOOLEAN]
    BY SMTT(30), <1>2, <2>1, Notified DEF TypeOK, Disconnect
  <2>3. overtaken' \in [Requests -> BOOLEAN]
    BY Zenon, <1>2 DEF TypeOK, Disconnect, Forget
  <2> QED
    BY <1>0, <1>2, <2>2, <2>3, Pcs DEF TypeOK, Disconnect, store, tasks, threads, shutdown
<1>3. ASSUME get_existing_queue(r) PROVE TypeOK'
  <2>1. hand' \in [Requests -> HandPcs] /\ job' \in [Requests -> JobPcs]
    BY ZenonT(30), <1>0, <1>3, BeginTypes DEF get_existing_queue, Ended, HandPcs
  <2> QED
    BY <1>3, <2>1, Pcs DEF TypeOK, get_existing_queue, store, tasks, threads, shutdown
<1>4. ASSUME get_or_create_queue(r) PROVE TypeOK'
  <2>1. hand' \in [Requests -> HandPcs] /\ job' \in [Requests -> JobPcs]
    BY <1>0, <1>4, BeginTypes DEF get_or_create_queue, Ended, HandPcs
  <2>2. QueueOf(r) \in Queues
    BY Zenon, <1>4 DEF RequestsOK, get_or_create_queue, QueueOf, Calls
  <2>3. /\ dirs' \in SUBSET Queues /\ queues' \in SUBSET Queues
        /\ opened' \in [Queues -> Nat]
        /\ worker' \in [Queues -> {"none", "idle", "scan", "callback", "exited"}]
    BY <1>4, <2>2 DEF TypeOK, get_or_create_queue, Open, store
  <2>4. faults' \in Nat
    BY <1>4 DEF TypeOK, get_or_create_queue
  <2> QED
    BY <1>4, <2>1, <2>3, <2>4, Pcs DEF TypeOK, get_or_create_queue, tasks, shutdown
<1> QED
  BY <1>1, <1>2, <1>3, <1>4

(* A job keeps the types: what it takes from a count is there.              *)
LEMMA TypeOfJobs ==
  ASSUME TypeOK, RequestsOK, NEW r \in Requests, Job(r)
  PROVE  TypeOK'
<1>0. hand \in [Requests -> HandPcs] /\ job \in [Requests -> JobPcs]
  BY ZenonT(30), Pcs
<1>1. job[r] # "none" /\ call[r] \in Calls /\ QueueOf(r) \in Queues
  BY DEF Job, RequestsOK, EnginePush, EnginePop, EngineAck, EngineNack, EngineRead,
         EngineRefuses, EngineFails, Callback, JobSync, Running, QueueOf, Calls
<1>2. \A pc \in JobPcs : JobGoesTo(r, pc) => job' \in [Requests -> JobPcs]
  BY <1>0 DEF JobGoesTo
<1>3. Done(r) \in JobPcs /\ {"callback", "nothing", "some", "error"} \subseteq JobPcs
  BY DEF Done, JobPcs
<1>4. Wrote(r) => unflushed' \in [Queues -> SUBSET Requests]
  BY <1>1 DEF TypeOK, Wrote
<1>5. UNCHANGED LeaseFrame /\ job' \in [Requests -> JobPcs] /\ faults' \in Nat
        /\ ready' \in [Queues -> Nat] /\ leased' \in [Queues -> Nat] /\ gone' \in [Queues -> Nat]
        /\ unflushed' \in [Queues -> SUBSET Requests] => TypeOK'
  BY Zenon, <1>0, Pcs DEF TypeOK, LeaseFrame, store, shutdown
<1>14. leased[QueueOf(r)] > 0 /\ LeaseEnds(QueueOf(r))
         => leased' \in [Queues -> Nat] /\ gone' \in [Queues -> Nat]
  BY <1>1 DEF TypeOK, LeaseEnds
<1>6. CASE EnginePush(r)
  <2>1. ready' \in [Queues -> Nat]
    BY SMTT(30), <1>1, <1>6 DEF TypeOK, EnginePush
  <2> QED
    BY <1>2, <1>3, <1>4, <1>5, <1>6, <2>1 DEF TypeOK, EnginePush, JobFrame
<1>7. CASE EnginePop(r)
  <2>1. ready' \in [Queues -> Nat] /\ leased' \in [Queues -> Nat]
    BY SMTT(30), <1>1, <1>7 DEF TypeOK, EnginePop, tasks
  <2> QED
    BY <1>2, <1>3, <1>4, <1>5, <1>7, <2>1 DEF TypeOK, EnginePop, tasks, JobFrame
<1>8. CASE EngineAck(r)
  BY <1>2, <1>3, <1>4, <1>5, <1>8, <1>14 DEF TypeOK, EngineAck
<1>9. CASE EngineNack(r)
  <2>1. ready' \in [Queues -> Nat]
    BY <1>1, <1>9 DEF TypeOK, EngineNack
  <2> QED
    BY <1>2, <1>3, <1>4, <1>5, <1>9, <1>14, <2>1 DEF TypeOK, EngineNack
<1>10. CASE EngineRead(r) \/ EngineRefuses(r)
  BY Zenon, <1>2, <1>3, <1>5, <1>10 DEF TypeOK, EngineRead, EngineRefuses, tasks, JobFrame
<1>11. CASE EngineFails(r)
  <2>1. ready' \in [Queues -> Nat]
    BY <1>1, <1>11 DEF TypeOK, EngineFails
  <2>2. faults' \in Nat
    BY <1>11 DEF TypeOK, EngineFails
  <2> QED
    BY <1>2, <1>3, <1>5, <1>11, <2>1, <2>2 DEF TypeOK, EngineFails, JobFrame
<1>12. CASE Callback(r)
  <2>1. hand' \in [Requests -> HandPcs] /\ permit' \in [Queues -> BOOLEAN]
    BY <1>0, <1>1, <1>12, Notified DEF TypeOK, Callback
  <2>2. job' \in [Requests -> JobPcs]
    BY ZenonT(30), <1>2, <1>3, <1>12 DEF Callback
  <2> QED
    BY <1>12, <2>1, <2>2, Pcs DEF TypeOK, Callback, store, tasks, threads, shutdown
<1>13. CASE JobSync(r)
  <2>1. unflushed' \in [Queues -> SUBSET Requests]
    BY <1>1, <1>13 DEF TypeOK, JobSync
  <2>2. faults' \in Nat
    BY <1>13 DEF TypeOK, JobSync
  <2> QED
    BY <1>2, <1>3, <1>5, <1>13, <2>1, <2>2 DEF TypeOK, JobSync, JobFrame
<1> QED
  BY <1>6, <1>7, <1>8, <1>9, <1>10, <1>11, <1>12, <1>13 DEF Job

(* The handler's steps after its job keep the types.                        *)
LEMMA TypeOfHandlers ==
  ASSUME TypeOK, RequestsOK, NEW r \in Requests,
         Finish(r) \/ PopNothing(r) \/ Retry(r) \/ Leave(r)
  PROVE  TypeOK'
<1>0. hand \in [Requests -> HandPcs] /\ job \in [Requests -> JobPcs]
  BY ZenonT(30), Pcs
<1>1. call[r] \in Calls /\ QueueOf(r) \in Queues
  BY ZenonT(30) DEF RequestsOK, Finish, PopNothing, Retry, Leave, QueueOf, Calls
<1>2. UNCHANGED HandlerFrame /\ hand' \in [Requests -> HandPcs] /\ job' \in [Requests -> JobPcs]
        /\ permit' \in [Queues -> BOOLEAN] /\ overtaken' \in [Requests -> BOOLEAN] => TypeOK'
  BY Pcs DEF TypeOK, HandlerFrame, store, tasks, threads, shutdown
<1>3. Ended(r) \in [Requests -> HandPcs]
  BY <1>0 DEF Ended, HandPcs
<1>4. Forget(r) \/ Overtake(r) => overtaken' \in [Requests -> BOOLEAN]
  BY Zenon DEF TypeOK, Forget, Overtake
<1>5. CASE Finish(r)
  <2>1. [hand EXCEPT ![r] = "ok"] \in [Requests -> HandPcs]
    BY <1>0 DEF HandPcs
  <2>2. hand' \in [Requests -> HandPcs] /\ permit' \in [Queues -> BOOLEAN]
    BY ZenonT(30), <1>0, <1>1, <1>3, <1>5, <2>1, Notified DEF TypeOK, Finish, HandPcs
  <2> QED
    BY <1>0, <1>2, <1>5, <2>2 DEF TypeOK, Finish
<1>6. CASE PopNothing(r)
  <2>1. hand' \in [Requests -> HandPcs] /\ job' \in [Requests -> JobPcs]
    BY Zenon, <1>0, <1>3, <1>6, BeginTypes DEF PopNothing, HandPcs
  <2>2. permit' \in [Queues -> BOOLEAN]
    BY Zenon, <1>6 DEF TypeOK, PopNothing
  <2>3. overtaken' \in [Requests -> BOOLEAN]
    BY <1>4, <1>6 DEF TypeOK, PopNothing
  <2> QED
    BY <1>2, <1>6, <2>1, <2>2, <2>3 DEF PopNothing
<1>7. CASE Retry(r)
  BY <1>2, <1>4, <1>7, BeginTypes DEF TypeOK, Retry
<1>8. CASE Leave(r)
  <2>1. hand' \in [Requests -> HandPcs] /\ permit' \in [Queues -> BOOLEAN]
    BY <1>1, <1>3, <1>8, Notified DEF TypeOK, Leave
  <2> QED
    BY SMTT(30), <1>0, <1>2, <1>4, <1>8, <2>1 DEF Leave
<1> QED
  BY <1>5, <1>6, <1>7, <1>8

(* The expiration threads keep the types: they give back what was leased.   *)
LEMMA TypeOfWorkers ==
  ASSUME TypeOK, CallbacksOwed, NEW q \in Queues, Worker(q)
  PROVE  TypeOK'
<1>0. hand \in [Requests -> HandPcs] /\ job \in [Requests -> JobPcs]
  BY Pcs
<1>1. CASE WorkerStops(q)
  <2>1. worker' \in [Queues -> {"none", "idle", "scan", "callback", "exited"}]
    BY <1>1 DEF TypeOK, WorkerStops
  <2> QED
    BY <1>1, <2>1 DEF TypeOK, WorkerStops, WorkerFrame, store, tasks, shutdown
<1>4. ASSUME NEW found \in 1..leased[q], WorkerScans(q, found) PROVE TypeOK'
  <2>1. worker' \in [Queues -> {"none", "idle", "scan", "callback", "exited"}]
    BY <1>4 DEF TypeOK, WorkerScans
  <2>2. owed' \in [Queues -> Nat]
    BY <1>4 DEF TypeOK, WorkerScans
  <2> QED
    BY <1>4, <2>1, <2>2 DEF TypeOK, WorkerScans, WorkerFrame, store, tasks, shutdown
<1>2. ASSUME NEW expired \in 0..owed[q], NEW again \in 0..owed[q],
             WorkerExpires(q, expired, again)
      PROVE  TypeOK'
  <2>1. worker' \in [Queues -> {"none", "idle", "scan", "callback", "exited"}]
    BY <1>2 DEF TypeOK, WorkerExpires
  <2>2. expired \in Nat /\ again \in Nat /\ expired <= leased[q]
    BY <1>2 DEF TypeOK, WorkerExpires
  <2>3. leased' \in [Queues -> Nat]
    BY <1>2, <2>2 DEF TypeOK, WorkerExpires
  <2>4. ready' \in [Queues -> Nat] /\ owed' \in [Queues -> Nat] /\ gone' \in [Queues -> Nat]
    BY <1>2, <2>2 DEF TypeOK, WorkerExpires
  <2> QED
    BY <1>2, <2>1, <2>3, <2>4 DEF TypeOK, WorkerExpires, WorkerFrame, store, shutdown
<1>3. CASE WorkerCallback(q)
  <2>1. hand' \in [Requests -> HandPcs] /\ permit' \in [Queues -> BOOLEAN]
    BY <1>0, <1>3, Notified DEF TypeOK, WorkerCallback
  <2>2. owed' \in [Queues -> Nat]
    BY <1>3 DEF TypeOK, CallbacksOwed, WorkerCallback
  <2>3. worker' \in [Queues -> {"none", "idle", "scan", "callback", "exited"}]
    BY ZenonT(30), <1>3 DEF TypeOK, WorkerCallback
  <2> QED
    BY <1>0, <1>3, <2>1, <2>2, <2>3, Pcs
       DEF TypeOK, WorkerCallback, WorkerFrame, store, tasks, shutdown
<1> QED
  BY <1>1, <1>2, <1>3, <1>4 DEF Worker

(* The signal and main keep the types.                                      *)
LEMMA TypeOfMain == ASSUME TypeOK, Signal \/ Main \/ Exited PROVE TypeOK'
<1> USE DEF TypeOK, MainFrame, store, tasks, request
<1>1. CASE Signal \/ StopAccepting \/ TakeSnapshot
  BY Zenon, <1>1 DEF Signal, StopAccepting, TakeSnapshot
<1>2. ASSUME NEW q \in Queues, FlushQueue(q) PROVE TypeOK'
  <2>1. unflushed' \in [Queues -> SUBSET Requests]
    BY <1>2 DEF FlushQueue
  <2>2. shutdown_flag' \in [Queues -> BOOLEAN]
    BY Zenon, <1>2 DEF FlushQueue
  <2>4. faults' \in Nat
    BY <1>2 DEF FlushQueue
  <2>3. main' \in {"stop", "failed"} /\ todo' \in SUBSET Queues
    BY Zenon, <1>2 DEF FlushQueue
  <2> QED
    BY <1>2, <2>1, <2>2, <2>3, <2>4 DEF FlushQueue
<1>3. CASE NextQueue \/ NoQueues \/ Exit
  BY <1>3 DEF NextQueue, NoQueues, Exit
<1>4. ASSUME NEW q \in Queues, DropEngine(q) PROVE TypeOK'
  BY <1>4 DEF DropEngine
<1>5. CASE Exited
  BY Zenon, <1>5 DEF Exited, vars
<1> QED
  BY <1>1, <1>2, <1>3, <1>4, <1>5 DEF Main

-----------------------------------------------------------------------------
(* Handler and job of a request stay in step, and a job has a queue that is *)
(* registered (server.rs:312-481).                                          *)
LEMMA RequestsStep == ASSUME TypeOK, RequestsOK, Next PROVE RequestsOK'
<1>0. hand \in [Requests -> HandPcs] /\ job \in [Requests -> JobPcs]
      /\ permit \in [Queues -> BOOLEAN] /\ queues \subseteq Queues
      /\ call \in [Requests -> Calls \cup {NoCall}]
  BY Zenon, Pcs DEF TypeOK
<1>1. ASSUME NEW r \in Requests, NEW c \in Offered[r], Arrive(r, c) PROVE RequestsOK'
  <2>1. c \in Calls
    BY ServerAssumption
  <2> QED
    BY <1>0, <1>1, <2>1 DEF RequestsOK, Arrive, QueueOf, store
\* Handlers are notified, and that of r may end or its job go on.
<1>2. ASSUME NEW q \in Queues, NEW r \in Requests, NEW h \in [Requests -> HandPcs],
             notify_one(q, h), UNCHANGED <<call, queues>>,
             \/ /\ hand[r] # "new" /\ job' = job
                /\ \/ h = [hand EXCEPT ![r] = "end"]
                   \/ h = [hand EXCEPT ![r] = "ok"] /\ job[r] = "some"
             \/ h = hand /\ job[r] = "callback" /\ JobGoesTo(r, Done(r))
      PROVE  RequestsOK'
  <2>1. \A s \in Requests : hand'[s] = h[s] \/ (h[s] = "asleep" /\ hand'[s] = "woken")
    BY <1>0, <1>2, Notified
  <2> QED
    BY <1>0, <1>2, <2>1 DEF RequestsOK, QueueOf, JobGoesTo, Done
<1>3. ASSUME NEW r \in Requests, Disconnect(r) \/ Leave(r) PROVE RequestsOK'
  <2>1. QueueOf(r) \in Queues /\ Ended(r) \in [Requests -> HandPcs]
    BY <1>0, <1>3 DEF RequestsOK, Disconnect, Leave, QueueOf, Calls, Ended, HandPcs
  <2>2. hand[r] # "new" /\ job' = job /\ UNCHANGED <<call, queues>>
    BY <1>3 DEF Disconnect, Leave, HandlerFrame, store
  <2>3. CASE hand' = Ended(r)
    BY <1>0, <2>2, <2>3 DEF RequestsOK, Ended, QueueOf
  <2>4. CASE notify_one(QueueOf(r), Ended(r))
    BY Zenon, <1>2, <2>1, <2>2, <2>4 DEF Ended
  <2> QED
    BY <1>3, <2>3, <2>4 DEF Disconnect, Leave
<1>4. ASSUME NEW r \in Requests, get_existing_queue(r) PROVE RequestsOK'
  BY <1>0, <1>4 DEF RequestsOK, get_existing_queue, Begin, Ended, QueueOf, store
<1>5. ASSUME NEW r \in Requests, get_or_create_queue(r) PROVE RequestsOK'
  BY <1>0, <1>5 DEF RequestsOK, get_or_create_queue, Open, Attached, Begin, Ended, QueueOf, store
<1>6. ASSUME NEW r \in Requests, Job(r) PROVE RequestsOK'
  <2>1. CASE Callback(r)
    <3>1. QueueOf(r) \in Queues
      BY <1>0, <2>1 DEF RequestsOK, Callback
    <3> QED
      BY <1>0, <1>2, <2>1, <3>1 DEF Callback, store
  <2>2. CASE ~Callback(r)
    <3>1. UNCHANGED <<call, hand, queues>> /\ job[r] \in {"run", "sync"}
          /\ \E pc \in JobPcs \ {"none"} : JobGoesTo(r, pc)
      BY <1>6, <2>2, JobMoves
    <3> QED
      BY <1>0, <3>1 DEF RequestsOK, QueueOf, JobGoesTo
  <2> QED
    BY <2>1, <2>2
<1>7. ASSUME NEW r \in Requests, Finish(r) PROVE RequestsOK'
  <2>1. QueueOf(r) \in Queues /\ [hand EXCEPT ![r] = "ok"] \in [Requests -> HandPcs]
    BY <1>0, <1>7 DEF RequestsOK, Finish, HandPcs
  <2>2. CASE job[r] = "some" /\ call[r].op \in {"push", "nack"}
    BY Zenon, <1>0, <1>2, <1>7, <2>1, <2>2 DEF Finish, HandlerFrame, store
  <2>3. CASE ~(job[r] = "some" /\ call[r].op \in {"push", "nack"})
    BY <1>0, <1>7, <2>3 DEF RequestsOK, Finish, HandlerFrame, store, QueueOf
  <2> QED
    BY <1>7, <2>2, <2>3 DEF Finish
<1>8. ASSUME NEW r \in Requests, PopNothing(r) \/ Retry(r) PROVE RequestsOK'
  <2>1. UNCHANGED <<call, queues>> /\ hand[r] \notin {"new", "lookup", "create"} /\ job[r] # "none"
    BY <1>0, <1>8 DEF RequestsOK, PopNothing, Retry, HandlerFrame, store
  <2>2. \/ job' = job /\ \E pc \in {"end", "asleep"} : hand' = [hand EXCEPT ![r] = pc]
        \/ job' = [job EXCEPT ![r] = "run"] /\ hand' = [hand EXCEPT ![r] = "await"]
    BY <1>8 DEF PopNothing, Retry, Begin, Ended
  <2> QED
    BY <1>0, <2>1, <2>2 DEF RequestsOK, QueueOf
<1>9. ASSUME NEW q \in Queues, Worker(q) PROVE RequestsOK'
  <2>1. CASE WorkerCallback(q)
    <3>1. \A s \in Requests : hand'[s] = hand[s] \/ (hand[s] = "asleep" /\ hand'[s] = "woken")
      <4>1. notify_one(q, hand)
        BY Zenon, <2>1 DEF WorkerCallback
      <4>2. hand \in [Requests -> HandPcs] /\ permit \in [Queues -> BOOLEAN]
        BY ZenonT(30), Pcs DEF TypeOK
      <4> QED
        BY Zenon, <4>1, <4>2, Notified
    <3> QED
      BY <1>0, <2>1, <3>1 DEF WorkerCallback, WorkerFrame, store, RequestsOK, QueueOf
  <2>2. CASE ~WorkerCallback(q)
    BY <1>9, <2>2, WorkerMoves DEF RequestsOK, QueueOf
  <2> QED
    BY <2>1, <2>2
<1>10. CASE Signal \/ Main \/ Exited
  BY SMTT(30), <1>10, MainMoves DEF RequestsOK, QueueOf
<1> QED
  BY Zenon, <1>1, <1>3, <1>4, <1>5, <1>6, <1>7, <1>8, <1>9, <1>10, Actors DEF Acts, Handler,
     Cancelled

-----------------------------------------------------------------------------
(* An engine is opened once: the registry is looked at and added to under   *)
(* one lock (server.rs:96-119), and main stops what it holds (74-94).       *)
LEMMA RegistryStep ==
  ASSUME TypeOK, RequestsOK, RegistryOK, Next PROVE RegistryOK'
<1> USE DEF RegistryOK
<1>1. CASE UNCHANGED <<opened, queues, worker, unflushed, todo>>
  BY Zenon, <1>1
<1>2. ASSUME NEW r \in Requests, get_or_create_queue(r) PROVE RegistryOK'
  <2>1. QueueOf(r) \in Queues /\ UNCHANGED <<unflushed, todo>>
    BY SMTT(30), <1>2 DEF RequestsOK, get_or_create_queue, QueueOf, Calls, tasks, shutdown
  <2>2. CASE Open(QueueOf(r)) /\ QueueOf(r) \notin queues
    BY SMTT(30), <2>1, <2>2 DEF Open, TypeOK
  <2> QED
    BY ZenonT(30), <1>1, <1>2, <2>1, <2>2 DEF get_or_create_queue, store
<1>3. ASSUME NEW r \in Requests, Job(r) PROVE RegistryOK'
  BY <1>3, JobMoves DEF RequestsOK
<1>4. ASSUME NEW q \in Queues, Worker(q) PROVE RegistryOK'
  BY <1>4, WorkerMoves DEF TypeOK
<1>5. CASE Signal \/ Main \/ Exited
  <2>1. todo' \subseteq queues /\ \A p \in Queues \ queues : unflushed'[p] = unflushed[p]
    BY ZenonT(30), <1>5 DEF TypeOK, Signal, Main, Exited, StopAccepting, TakeSnapshot, NextQueue,
       NoQueues, Exit, FlushQueue, DropEngine, tasks, vars
  <2> QED
    BY Zenon, <1>5, <2>1, MainMoves
<1> QED
  BY <1>1, <1>2, <1>3, <1>4, <1>5, Actors, HandlerMoves

(* The expiration thread counts its callbacks down to none (engine.rs:424-  *)
(* 444), and a new thread owes none.                                        *)
LEMMA CallbacksStep ==
  ASSUME TypeOK, RequestsOK, CallbacksOwed, Next PROVE CallbacksOwed'
<1> USE DEF CallbacksOwed
<1>1. CASE UNCHANGED <<worker, owed>>
  BY <1>1
<1>2. ASSUME NEW r \in Requests, get_or_create_queue(r) PROVE CallbacksOwed'
  BY Zenon, <1>2 DEF TypeOK, get_or_create_queue, Open
<1>3. ASSUME NEW q \in Queues, Worker(q) PROVE CallbacksOwed'
  <2>1. CASE WorkerStops(q) \/ \E found \in 1..leased[q] : WorkerScans(q, found)
    BY ZenonT(30), <2>1 DEF TypeOK, WorkerStops, WorkerScans
  <2>2. ASSUME NEW expired \in 0..owed[q], NEW again \in 0..owed[q],
               WorkerExpires(q, expired, again)
        PROVE  CallbacksOwed'
    BY <2>2 DEF TypeOK, WorkerExpires
  <2>3. CASE WorkerCallback(q)
    BY <2>3 DEF TypeOK, WorkerCallback
  <2> QED
    BY Zenon, <1>3, <2>1, <2>2, <2>3 DEF Worker
<1> QED
  BY Zenon, <1>1, <1>2, <1>3, Actors, HandlerMoves, JobMoves, MainMoves

-----------------------------------------------------------------------------
(* Once axum has returned (main.rs:154-156) no handler moves and no queue   *)
(* is added; jobs of clients that went away, the threads and main go on.    *)
LEMMA Frozen ==
  ASSUME TypeOK, Drains, Next, main \notin {"serving", "draining"}
  PROVE  /\ UNCHANGED <<hand, queues>>
         /\ \/ \E r \in Requests : Job(r)
            \/ \E q \in Queues : Worker(q)
            \/ Signal \/ Main \/ Exited
<1>0. \A r \in Requests : hand[r] \in {"new", "ok", "end"}
  BY Zenon DEF Drains
<1>1. \A r \in Requests : ~Acts(r)
  BY ZenonT(30), <1>0 DEF Acts, Handler, get_existing_queue, get_or_create_queue, Finish,
     PopNothing, Retry, Cancelled, Leave, Disconnect, Arrive
<1>2. \A q : notify_one(q, hand) => hand' = hand
  BY <1>0 DEF notify_one, Waiting
<1>3. \A r \in Requests : Job(r) => UNCHANGED <<hand, queues>>
  BY Zenon, <1>2, JobMoves DEF Callback
<1>4. \A q \in Queues : Worker(q) => UNCHANGED <<hand, queues>>
  BY Zenon, <1>2, WorkerMoves DEF WorkerCallback
<1> QED
  BY <1>1, <1>3, <1>4, Actors, MainMoves

\* Until then main only waits, or takes its snapshot of the registry.
LEMMA Serving ==
  ASSUME TypeOK, Next, main \in {"serving", "draining"}
  PROVE  main' \in {"serving", "draining"} \/ TakeSnapshot
<1>1. main' = main \/ Main
  BY Zenon, Actors, HandlerMoves, JobMoves, WorkerMoves DEF Signal, Exited, vars
<1> QED
  BY Zenon, <1>1 DEF Main, StopAccepting, FlushQueue, NextQueue, NoQueues, DropEngine, Joined, Exit

(* Main goes on only when the handlers have ended (main.rs:154-159).        *)
LEMMA DrainsStep == ASSUME TypeOK, Drains, Next PROVE Drains'
<1>1. CASE main \in {"serving", "draining"}
  BY <1>1, Serving DEF Drains, TakeSnapshot, Drained, MainFrame, request
<1>2. CASE main \notin {"serving", "draining"}
  BY <1>2, Frozen DEF Drains
<1> QED
  BY <1>1, <1>2

(* The thread of a queue that main is done with has ended: stop() joins it  *)
(* (engine.rs:30-42).                                                       *)
LEMMA StopsThreadsStep ==
  ASSUME TypeOK, Drains, StopsThreads, RegistryOK, Next PROVE StopsThreads'
<1>1. CASE main \in {"serving", "draining"}
  BY <1>1, Serving DEF StopsThreads, TakeSnapshot, MainFrame, store
<1>2. CASE main \notin {"serving", "draining"}
  <2>0. queues' = queues /\ queues \subseteq Queues
    BY <1>2, Frozen DEF TypeOK
  <2>1. ASSUME UNCHANGED <<worker, shutdown_flag, main, todo>> PROVE StopsThreads'
    BY Zenon, <2>0, <2>1 DEF StopsThreads
  <2>2. ASSUME NEW r \in Requests, Job(r) PROVE StopsThreads'
    BY Zenon, <2>1, <2>2, JobMoves
  <2>3. ASSUME NEW q \in Queues, Worker(q) PROVE StopsThreads'
    BY <2>0, <2>3, WorkerMoves DEF StopsThreads, TypeOK
  <2>4. CASE Signal \/ Exited
    BY Zenon, <2>1, <2>4 DEF Signal, Exited, vars
  <2>5. ASSUME NEW q \in Queues, FlushQueue(q) PROVE StopsThreads'
    BY ZenonT(30), <2>0, <2>5 DEF FlushQueue, StopsThreads, TypeOK
  <2>6. CASE NextQueue
    BY <2>0, <2>6 DEF NextQueue, Joined, StopsThreads
  <2>7. CASE NoQueues \/ Exit
    BY <2>0, <2>7 DEF NoQueues, Exit, StopsThreads
  <2>8. ASSUME NEW q \in Queues, DropEngine(q) PROVE StopsThreads'
    BY <2>8 DEF DropEngine, StopsThreads
  <2> QED
    BY Zenon, <1>2, <2>2, <2>3, <2>4, <2>5, <2>6, <2>7, <2>8, Frozen
       DEF Main, StopAccepting, TakeSnapshot, Drained
<1> QED
  BY <1>1, <1>2

(* What was answered with success is covered on every queue that main is    *)
(* done with: no job of an answered request writes again (server.rs:74-94). *)
LEMMA FlushesStep ==
  ASSUME TypeOK, RequestsOK, RegistryOK, Drains, Flushes, Next PROVE Flushes'
<1>1. CASE main \in {"serving", "draining"}
  BY <1>1, Serving DEF Flushes, TakeSnapshot, RegistryOK, MainFrame, store, tasks
<1>2. CASE main \notin {"serving", "draining"}
  <2>0. hand' = hand
    BY <1>2, Frozen
  <2>1. ASSUME UNCHANGED <<unflushed, main, todo>> PROVE Flushes'
    BY Zenon, <2>0, <2>1 DEF Flushes
  <2>2. ASSUME NEW r \in Requests, Job(r) PROVE Flushes'
    <3>1. UNCHANGED <<main, todo>> /\ hand[r] # "ok"
      BY Zenon, <2>2, JobMoves DEF RequestsOK
    <3>2. \A q \in Queues : \A s \in unflushed'[q] : s \in unflushed[q] \/ s = r
      BY Zenon, <2>2, JobMoves
    <3> QED
      BY Zenon, <2>0, <3>1, <3>2 DEF Flushes
  <2>3. CASE (\E q \in Queues : Worker(q)) \/ Signal \/ Exited
    BY Zenon, <2>1, <2>3, WorkerMoves DEF tasks, Signal, Exited, vars
  <2>4. ASSUME NEW q \in Queues, FlushQueue(q) \/ DropEngine(q) PROVE Flushes'
    BY Zenon, <2>0, <2>4 DEF FlushQueue, DropEngine, Flushes, TypeOK
  <2>5. CASE NextQueue \/ NoQueues \/ Exit
    BY Zenon, <2>0, <2>5 DEF NextQueue, NoQueues, Exit, Joined, tasks, Flushes
  <2> QED
    BY <1>2, <2>2, <2>3, <2>4, <2>5, Frozen DEF Main, StopAccepting, TakeSnapshot, Drained
<1> QED
  BY <1>1, <1>2

-----------------------------------------------------------------------------
(* notify_one keeps the wakeups in order: it wakes a handler of q, which    *)
(* then is under way, or leaves a permit where no handler waits.            *)
LEMMA NotifyKeepsWakeups ==
  ASSUME TypeOK, RequestsOK, WakeupsOK, UNCHANGED <<call, ready>>,
         NEW q \in Queues, NEW h \in [Requests -> HandPcs], notify_one(q, h),
         \A s \in Requests : h[s] \in {hand[s], "ok", "end"},
         \A s \in Requests : h[s] = hand[s] => overtaken'[s] = overtaken[s],
         \A s \in Requests : job'[s] = "nothing" => job[s] = "nothing",
         \A s \in Requests : QueueOf(s) # q =>
           (job[s] = "callback" => job'[s] = "callback") /\ (hand[s] = "woken" => h[s] = "woken"),
         \A p \in Queues \ {q} : worker'[p] = worker[p]
  PROVE  WakeupsOK'
<1>0. \A s \in Requests : QueueOf(s)' = QueueOf(s)
  BY Zenon DEF QueueOf
<1>1. \A s \in Requests : hand'[s] = h[s] \/ (h[s] = "asleep" /\ hand'[s] = "woken")
  BY ZenonT(30), Notified DEF TypeOK
<1>2. \A s \in Requests : Looked(s)' => Looked(s) /\ h[s] = hand[s] /\ hand'[s] = hand[s]
  BY Zenon, <1>1 DEF Looked
<1>3. \A p \in Queues \ {q} : UnderWay(p) => UnderWay(p)'
  BY Zenon, <1>0, <1>1 DEF UnderWay
<1>4. \A p \in Queues \ {q} : permit'[p] = permit[p]
  BY ZenonT(30) DEF notify_one, TypeOK
<1> SUFFICES ASSUME NEW p \in Queues, NEW s \in Requests, QueueOf(s) = p
             PROVE  /\ hand'[s] = "asleep" => ~permit'[p]
                    /\ Looked(s)' /\ ready'[p] > 0 /\ ~UnderWay(p)' /\ ~overtaken'[s] => permit'[p]
  BY Zenon, <1>0 DEF WakeupsOK
<1>5. ASSUME hand'[s] = "asleep" PROVE ~permit'[p]
  <2>1. hand[s] = "asleep" /\ h[s] = "asleep" /\ ~permit[p]
    BY Zenon, <1>2, <1>5 DEF Looked, WakeupsOK
  <2>2. p = q => permit' = permit
    BY Zenon, <2>1 DEF notify_one, Waiting
  <2> QED
    BY Zenon, <1>4, <2>1, <2>2
<1>6. ASSUME Looked(s)', ready'[p] > 0, ~UnderWay(p)', ~overtaken'[s] PROVE permit'[p]
  <2>1. CASE p = q
    <3>1. ~\E w \in Waiting(h, q) : hand' = [h EXCEPT ![w] = "woken"]
      <4> SUFFICES ASSUME NEW w \in Waiting(h, q), hand' = [h EXCEPT ![w] = "woken"] PROVE FALSE
        BY Zenon
      <4>1. w \in Requests /\ QueueOf(w)' = q
        BY Zenon, <1>0 DEF Waiting
      <4>2. hand'[w] = "woken"
        BY Zenon, <4>1
      <4> QED
        BY Zenon, <4>1, <4>2, <1>6, <2>1 DEF UnderWay
    <3> QED
      BY ZenonT(30), <2>1, <3>1 DEF notify_one, TypeOK
  <2>2. CASE p # q
    BY <1>2, <1>3, <1>4, <1>6, <2>2 DEF WakeupsOK
  <2> QED
    BY Zenon, <2>1, <2>2
<1> QED
  BY Zenon, <1>5, <1>6

(* A job keeps them: what it adds to the queue it has still to announce     *)
(* (engine.rs:183-185, 352-354), and it finds nothing only where there is   *)
(* nothing.                                                                 *)
LEMMA JobKeepsWakeups ==
  ASSUME TypeOK, RequestsOK, WakeupsOK, NEW r \in Requests, Job(r) PROVE WakeupsOK'
<1>0. QueueOf(r) \in Queues /\ \A s \in Requests : UNCHANGED call => QueueOf(s)' = QueueOf(s)
  BY Zenon, JobMoves DEF TypeOK, RequestsOK, QueueOf
<1>1. CASE Callback(r)
  <2>1. hand \in [Requests -> HandPcs] /\ UNCHANGED <<call, ready, overtaken, worker>>
    BY <1>1, Pcs DEF Callback, tasks, threads
  <2>2. \A s \in Requests : job'[s] = IF s = r THEN Done(r) ELSE job[s]
    BY <1>1 DEF Callback, JobGoesTo, TypeOK
  <2>3. notify_one(QueueOf(r), hand) /\ Done(r) \in {"sync", "some"}
    BY Zenon, <1>1 DEF Callback, Done
  <2>4. \A s \in Requests : job'[s] = "nothing" => job[s] = "nothing"
    BY Zenon, <2>2, <2>3
  <2>5. \A s \in Requests : QueueOf(s) # QueueOf(r) =>
           (job[s] = "callback" => job'[s] = "callback") /\ (hand[s] = "woken" => hand[s] = "woken")
    BY Zenon, <2>2
  <2>6. /\ \A s \in Requests : hand[s] \in {hand[s], "ok", "end"}
        /\ \A s \in Requests : hand[s] = hand[s] => overtaken'[s] = overtaken[s]
        /\ \A p \in Queues \ {QueueOf(r)} : worker'[p] = worker[p]
    BY Zenon, <2>1
  <2>7. UNCHANGED <<call, ready>> /\ QueueOf(r) \in Queues /\ hand \in [Requests -> HandPcs]
    BY Zenon, <1>0, <2>1
  <2> QED
    BY ZenonT(30), <2>3, <2>4, <2>5, <2>6, <2>7, NotifyKeepsWakeups
<1>2. CASE ~Callback(r)
  <2>1. UNCHANGED <<hand, permit, call, overtaken, worker>> /\ job[r] \in {"run", "sync"}
    BY Zenon, <1>2, JobMoves
  <2>2. PICK pc \in JobPcs : /\ JobGoesTo(r, pc)
                             /\ pc = "nothing" => ready'[QueueOf(r)] = 0
                             /\ \A q \in Queues : \/ ready'[q] <= ready[q]
                                                  \/ q = QueueOf(r) /\ pc = "callback"
    <3>1. CASE EnginePush(r) \/ EngineNack(r)
      <4>1. ready \in [Queues -> Nat] /\ {"callback", "sync", "some"} \subseteq JobPcs
        BY Zenon DEF TypeOK, JobPcs
      <4>2. \A q \in Queues : ready[q] <= ready[q]
        BY SMTT(30), <4>1
      <4>3. CASE ready' = [ready EXCEPT ![QueueOf(r)] = @ + 1] /\ JobGoesTo(r, "callback")
        BY Zenon, <1>0, <4>1, <4>2, <4>3
      <4>4. CASE ready' = ready /\ JobGoesTo(r, Done(r))
        BY Zenon, <4>1, <4>2, <4>4 DEF Done
      <4> QED
        BY Zenon, <3>1, <4>3, <4>4 DEF EnginePush, EngineNack
    <3>2. CASE EnginePop(r) \/ EngineFails(r)
      <4>1. ready \in [Queues -> Nat] /\ {"nothing", "sync", "some", "error"} \subseteq JobPcs
        BY Zenon DEF TypeOK, JobPcs
      <4>2. \A q \in Queues : ready[q] <= ready[q] /\ ready[q] - 1 <= ready[q]
        BY SMTT(30), <4>1
      <4>3. CASE ready' = ready /\ ready[QueueOf(r)] = 0 /\ JobGoesTo(r, "nothing")
        BY Zenon, <4>1, <4>2, <4>3
      <4>4. CASE /\ ready' = ready \/ ready' = [ready EXCEPT ![QueueOf(r)] = @ - 1]
                 /\ \E pc \in {Done(r), "error"} : JobGoesTo(r, pc)
        <5>1. \A q \in Queues : ready'[q] <= ready[q]
          BY Zenon, <1>0, <4>1, <4>2, <4>4
        <5>2. {Done(r), "error"} \subseteq JobPcs \ {"nothing"}
          BY ZenonT(30), <4>1 DEF Done
        <5> QED
          BY Zenon, <4>4, <5>1, <5>2
      <4> QED
        BY Zenon, <3>2, <4>3, <4>4 DEF EnginePop, EngineFails, tasks
    <3>3. CASE EngineAck(r) \/ EngineRead(r) \/ EngineRefuses(r) \/ JobSync(r)
      <4>1. ready' = ready /\ \A q \in Queues : ready[q] <= ready[q]
        BY <3>3 DEF TypeOK, EngineAck, EngineRead, EngineRefuses, JobSync, tasks
      <4> QED
        BY <3>3, <4>1 DEF EngineAck, EngineRead, EngineRefuses, JobSync, Done, JobPcs
    <3> QED
      BY Zenon, <1>2, <3>1, <3>2, <3>3 DEF Job
  <2>3. job' = [job EXCEPT ![r] = pc] /\ job \in [Requests -> JobPcs]
    BY Zenon, <2>2, Pcs DEF JobGoesTo
  <2>4. \A q \in Queues : UnderWay(q) => UnderWay(q)'
    BY Zenon, <1>0, <2>1, <2>3 DEF UnderWay
  <2>5. ASSUME NEW p \in Queues, NEW s \in Requests, QueueOf(s) = p,
               Looked(s)', ready'[p] > 0, ~UnderWay(p)', ~overtaken'[s]
        PROVE  permit'[p]
    <3>1. ready \in [Queues -> Nat] /\ ready' \in [Queues -> Nat]
      BY ZenonT(30), TypeOfJobs DEF TypeOK
    <3>2. ~(p = QueueOf(r) /\ pc = "callback")
      BY <1>0, <2>1, <2>3, <2>5 DEF UnderWay
    <3>3. ready[p] > 0 /\ ~(s = r /\ pc = "nothing")
      BY <2>2, <2>5, <3>1, <3>2
    <3>4. Looked(s)
      BY Zenon, <2>1, <2>3, <2>5, <3>3 DEF Looked
    <3> QED
      BY Zenon, <2>1, <2>4, <2>5, <3>3, <3>4 DEF WakeupsOK
  <2> QED
    BY ZenonT(30), <1>0, <2>1, <2>5 DEF WakeupsOK
<1> QED
  BY Zenon, <1>1, <1>2

\* A request that moves on without notifying anyone, and finds nothing new.
LEMMA QuietKeepsWakeups ==
  ASSUME TypeOK, WakeupsOK, NEW r \in Requests, UNCHANGED <<ready, permit>>, hand[r] # "woken",
         \A s \in Requests \ {r} : /\ call'[s] = call[s] /\ hand'[s] = hand[s]
                                   /\ job'[s] = job[s] /\ overtaken'[s] = overtaken[s],
         job[r] = "callback" => job'[r] = "callback" /\ call' = call,
         \A p \in Queues : worker[p] = "callback" => worker'[p] = "callback",
         \/ ~Looked(r)'
         \/ Looked(r) /\ ~permit[QueueOf(r)] /\ overtaken' = overtaken /\ call' = call
  PROVE  WakeupsOK'
<1>1. \A s \in Requests \ {r} : QueueOf(s)' = QueueOf(s) /\ (Looked(s)' <=> Looked(s))
  BY Zenon DEF QueueOf, Looked
<1>2. \A p \in Queues : UnderWay(p) => UnderWay(p)'
  BY Zenon, <1>1 DEF UnderWay, QueueOf
<1>3. ASSUME NEW p \in Queues, NEW s \in Requests \ {r}, QueueOf(s)' = p
      PROVE  /\ hand'[s] = "asleep" => ~permit'[p]
             /\ Looked(s)' /\ ready'[p] > 0 /\ ~UnderWay(p)' /\ ~overtaken'[s] => permit'[p]
  BY ZenonT(30), <1>1, <1>2, <1>3 DEF WakeupsOK
<1>4. ASSUME NEW p \in Queues, QueueOf(r)' = p
      PROVE  /\ hand'[r] = "asleep" => ~permit'[p]
             /\ Looked(r)' /\ ready'[p] > 0 /\ ~UnderWay(p)' /\ ~overtaken'[r] => permit'[p]
  <2>1. CASE ~Looked(r)'
    BY Zenon, <2>1 DEF Looked
  <2>2. CASE Looked(r) /\ ~permit[QueueOf(r)] /\ overtaken' = overtaken /\ call' = call
    BY Zenon, <1>2, <1>4, <2>2 DEF WakeupsOK, QueueOf
  <2> QED
    BY Zenon, <2>1, <2>2
<1> QED
  BY Zenon, <1>3, <1>4 DEF WakeupsOK

(* A handler that takes a wakeup and pops again (server.rs:419-432) leaves  *)
(* the others that have looked overtaken.                                   *)
LEMMA OvertakeKeepsWakeups ==
  ASSUME TypeOK, WakeupsOK, NEW r \in Requests, Retry(r) \/ PopNothing(r), Overtake(r), Begin(r)
  PROVE  WakeupsOK'
<1>1. UNCHANGED <<call, ready, worker>>
  BY Zenon DEF Retry, PopNothing, HandlerFrame, tasks, threads
<1>2. \A p \in Queues : (permit'[p] => permit[p]) /\ (p # QueueOf(r) => permit'[p] = permit[p])
  BY Zenon DEF Retry, PopNothing, TypeOK
<1>3. \A s \in Requests \ {r} : hand'[s] = hand[s] /\ job'[s] = job[s]
  BY ZenonT(30) DEF Begin, Ended, TypeOK
<1>4. ~Looked(r)'
  BY DEF Begin, Ended, TypeOK, Looked
<1>5. \A s \in Requests : QueueOf(s)' = QueueOf(s)
  BY ZenonT(30), <1>1 DEF QueueOf
<1>7. \A p \in Queues \ {QueueOf(r)} : UnderWay(p) => UnderWay(p)'
  BY <1>1, <1>3, <1>5 DEF UnderWay
<1>8. \A s \in Requests \ {r} :
        overtaken'[s] <=> overtaken[s] \/ (QueueOf(s) = QueueOf(r) /\ Looked(s))
  BY Zenon DEF Overtake
<1>9. \A s \in Requests \ {r} : Looked(s)' <=> Looked(s)
  BY Zenon, <1>3 DEF Looked
<1> SUFFICES ASSUME NEW p \in Queues, NEW s \in Requests, QueueOf(s) = p
             PROVE  /\ hand'[s] = "asleep" => ~permit'[p]
                    /\ Looked(s)' /\ ready'[p] > 0 /\ ~UnderWay(p)' /\ ~overtaken'[s] => permit'[p]
  BY Zenon, <1>5 DEF WakeupsOK
<1>10. hand'[s] = "asleep" => ~permit'[p]
  BY ZenonT(30), <1>2, <1>3, <1>4 DEF WakeupsOK, Looked
<1>11. Looked(s)' /\ ready'[p] > 0 /\ ~UnderWay(p)' /\ ~overtaken'[s] => permit'[p]
  BY <1>1, <1>2, <1>4, <1>7, <1>8, <1>9 DEF WakeupsOK
<1> QED
  BY Zenon, <1>10, <1>11

(* The handlers keep the wakeups, the ones that are dropped included.       *)
LEMMA HandlersKeepWakeups ==
  ASSUME TypeOK, RequestsOK, RegistryOK, WakeupsOK, NEW r \in Requests,
         Handler(r) \/ Disconnect(r) \/ Leave(r)
  PROVE  WakeupsOK'
<1>0. /\ hand \in [Requests -> HandPcs] /\ job \in [Requests -> JobPcs]
      /\ hand[r] # "new" /\ QueueOf(r) \in Queues
  BY Zenon, Pcs DEF RequestsOK, Handler, get_existing_queue, get_or_create_queue, Finish,
     PopNothing, Retry, Cancelled, Leave, Disconnect, QueueOf, Calls
<1>1. CASE Disconnect(r) \/ Leave(r)
  <2>1. /\ UNCHANGED <<call, ready, job, worker>> /\ Ended(r) \in [Requests -> HandPcs]
        /\ \A s \in Requests \ {r} : overtaken'[s] = overtaken[s]
        /\ \A s \in Requests : Ended(r)[s] = IF s = r THEN "end" ELSE hand[s]
    BY ZenonT(30), <1>0, <1>1 DEF Disconnect, Leave, Forget, TypeOK, HandlerFrame, tasks,
       threads, Ended, HandPcs
  <2>2. CASE hand[r] = "woken"
    <3>1. notify_one(QueueOf(r), Ended(r))
      BY Zenon, <1>1, <2>2 DEF Disconnect, Leave
    <3> QED
      <4>1. \A s \in Requests : Ended(r)[s] \in {hand[s], "ok", "end"}
        BY Zenon, <2>1
      <4>2. \A s \in Requests : Ended(r)[s] = hand[s] => overtaken'[s] = overtaken[s]
        BY Zenon, <2>1, <2>2
      <4>3. \A s \in Requests : QueueOf(s) # QueueOf(r) /\ hand[s] = "woken" => Ended(r)[s] = "woken"
        BY Zenon, <2>1
      <4> QED
        BY ZenonT(30), <1>0, <2>1, <3>1, <4>1, <4>2, <4>3, NotifyKeepsWakeups
  <2>3. CASE hand[r] # "woken"
    BY Zenon, <1>1, <2>1, <2>3, QuietKeepsWakeups DEF Disconnect, Leave, Looked
  <2> QED
    BY Zenon, <2>2, <2>3
<1>2. CASE get_existing_queue(r)
  <2>1. UNCHANGED <<call, ready, permit, worker, overtaken>> /\ job[r] = "none" /\ hand[r] # "woken"
    BY Zenon, <1>2 DEF get_existing_queue, RequestsOK, tasks, threads
  <2>2. \E pc \in {"await", "create", "end"} : hand' = [hand EXCEPT ![r] = pc]
    BY Zenon, <1>2 DEF get_existing_queue, Begin, Ended
  <2>3. job' = job \/ job' = [job EXCEPT ![r] = "run"]
    BY Zenon, <1>2 DEF get_existing_queue, Begin
  <2> QED
    BY Zenon, <1>0, <2>1, <2>2, <2>3, QuietKeepsWakeups DEF Looked
<1>3. CASE get_or_create_queue(r)
  <2>1. UNCHANGED <<call, ready, permit, overtaken>> /\ job[r] = "none" /\ hand[r] # "woken"
    BY Zenon, <1>3 DEF get_or_create_queue, RequestsOK, tasks
  <2>2. \E pc \in {"await", "end"} : hand' = [hand EXCEPT ![r] = pc]
    BY Zenon, <1>3 DEF get_or_create_queue, Attached, Begin, Ended
  <2>3. job' = job \/ job' = [job EXCEPT ![r] = "run"]
    BY Zenon, <1>3 DEF get_or_create_queue, Attached, Begin
  <2>4. \A p \in Queues : worker[p] = "callback" => worker'[p] = "callback"
    <3>1. CASE worker' = worker
      BY Zenon, <3>1
    <3>2. CASE QueueOf(r) \notin queues /\ worker' = [worker EXCEPT ![QueueOf(r)] = "idle"]
      BY Zenon, <3>2 DEF RegistryOK, TypeOK
    <3> QED
      BY Zenon, <1>3, <3>1, <3>2 DEF get_or_create_queue, Open
  <2> QED
    BY Zenon, <1>0, <2>1, <2>2, <2>3, <2>4, QuietKeepsWakeups DEF Looked
<1>4. CASE Finish(r)
  <2>1. UNCHANGED <<call, ready, job, worker, overtaken>> /\ hand[r] = "await" /\ job[r] # "nothing"
    BY Zenon, <1>4 DEF Finish, HandlerFrame, tasks, threads
  <2>2. CASE notify_one(QueueOf(r), [hand EXCEPT ![r] = "ok"])
    <3>1. [hand EXCEPT ![r] = "ok"] \in [Requests -> HandPcs]
      BY <1>0 DEF HandPcs
    <3>2. \A s \in Requests : [hand EXCEPT ![r] = "ok"][s] = IF s = r THEN "ok" ELSE hand[s]
      BY Zenon, <1>0
    <3> QED
      BY Zenon, <1>0, <2>1, <2>2, <3>1, <3>2, NotifyKeepsWakeups
  <2>3. CASE UNCHANGED permit /\ \E pc \in {"ok", "end"} : hand' = [hand EXCEPT ![r] = pc]
    BY Zenon, <1>0, <2>1, <2>3, QuietKeepsWakeups DEF Looked
  <2> QED
    BY ZenonT(30), <1>4, <2>2, <2>3 DEF Finish
<1>5. CASE PopNothing(r)
  <2>1. UNCHANGED <<call, ready, worker>> /\ Looked(r) /\ hand[r] = "await" /\ job[r] = "nothing"
    BY Zenon, <1>5 DEF PopNothing, HandlerFrame, tasks, threads, Looked
  <2>2. CASE hand' = Ended(r) /\ Forget(r) /\ UNCHANGED <<permit, job>>
    BY Zenon, <1>0, <2>1, <2>2, QuietKeepsWakeups DEF Ended, Forget, Looked, TypeOK
  <2>3. CASE /\ ~permit[QueueOf(r)] /\ hand' = [hand EXCEPT ![r] = "asleep"]
             /\ UNCHANGED <<permit, job, overtaken>>
    BY Zenon, <1>0, <2>1, <2>3, QuietKeepsWakeups
  <2>4. CASE Overtake(r) /\ Begin(r)
    BY <1>5, <2>4, OvertakeKeepsWakeups
  <2> QED
    BY Zenon, <1>5, <2>2, <2>3, <2>4 DEF PopNothing
<1>6. CASE Retry(r)
  BY <1>6, OvertakeKeepsWakeups DEF Retry
<1> QED
  BY Zenon, <1>1, <1>2, <1>3, <1>4, <1>5, <1>6 DEF Handler, Cancelled

(* So do the expiration threads, which announce what they give back         *)
(* (engine.rs:424-444), and main.                                           *)
LEMMA WorkersKeepWakeups ==
  ASSUME TypeOK, RequestsOK, CallbacksOwed, WakeupsOK, NEW q \in Queues, Worker(q)
  PROVE  WakeupsOK'
<1>1. UNCHANGED <<call, job, overtaken>> /\ \E pc : worker' = [worker EXCEPT ![q] = pc]
  BY WorkerMoves
<1>2. \A p \in Queues \ {q} : worker'[p] = worker[p]
  BY SMTT(30), <1>1 DEF TypeOK
<1>3. CASE WorkerCallback(q)
  <2>1. hand \in [Requests -> HandPcs] /\ UNCHANGED ready /\ notify_one(q, hand)
    BY Zenon, <1>3, Pcs DEF WorkerCallback, tasks
  <2> QED
    BY <1>1, <1>2, <2>1, NotifyKeepsWakeups
<1>4. CASE ~WorkerCallback(q)
  <2>1. UNCHANGED <<hand, permit>> /\ worker[q] # "callback"
    BY Zenon, <1>4, WorkerMoves
  <2>2. \A p \in Queues : UnderWay(p) => UnderWay(p)'
    BY Zenon, <1>1, <1>2, <2>1 DEF UnderWay, QueueOf
  <2>3. \A p \in Queues : ready'[p] = ready[p] \/ UnderWay(p)'
    <3>1. CASE WorkerStops(q) \/ \E found \in 1..leased[q] : WorkerScans(q, found)
      BY ZenonT(30), <3>1 DEF WorkerStops, WorkerScans, tasks
    <3>2. ASSUME NEW expired \in 0..owed[q], NEW again \in 0..owed[q],
                 WorkerExpires(q, expired, again)
          PROVE  \A p \in Queues : ready'[p] = ready[p] \/ UnderWay(p)'
      BY <3>2 DEF WorkerExpires, UnderWay, TypeOK
    <3> QED
      BY Zenon, <1>4, <3>1, <3>2 DEF Worker
  <2>4. \A s \in Requests : QueueOf(s)' = QueueOf(s) /\ (Looked(s)' <=> Looked(s))
    BY Zenon, <1>1, <2>1 DEF QueueOf, Looked
  <2> QED
    BY Zenon, <1>1, <2>1, <2>2, <2>3, <2>4 DEF WakeupsOK
<1> QED
  BY <1>3, <1>4

\* No step loses the wakeup of a handler that was not overtaken.
LEMMA WakeupsStep ==
  ASSUME TypeOK, RequestsOK, RegistryOK, CallbacksOwed, WakeupsOK, Next PROVE WakeupsOK'
<1>1. ASSUME NEW r \in Requests, NEW c \in Offered[r], Arrive(r, c) PROVE WakeupsOK'
  <2>1. UNCHANGED <<ready, permit, job, overtaken, worker>> /\ hand[r] = "new" /\ job[r] = "none"
        /\ \E pc \in {"create", "lookup"} : hand' = [hand EXCEPT ![r] = pc]
        /\ call' = [call EXCEPT ![r] = c]
    BY Zenon, <1>1 DEF Arrive, tasks, threads, RequestsOK
  <2> QED
    BY ZenonT(30), <2>1, QuietKeepsWakeups DEF Looked, TypeOK
<1>2. CASE Signal \/ Main \/ Exited
  <2>1. UNCHANGED <<ready, permit, call, hand, job, overtaken, worker>>
    BY Zenon, <1>2, MainMoves
  <2>2. \A s \in Requests : QueueOf(s)' = QueueOf(s) /\ (Looked(s)' <=> Looked(s))
    BY Zenon, <2>1 DEF QueueOf, Looked
  <2>3. \A q \in Queues : UnderWay(q)' <=> UnderWay(q)
    BY Zenon, <2>1 DEF UnderWay, QueueOf
  <2> QED
    BY Zenon, <2>1, <2>2, <2>3 DEF WakeupsOK
<1> QED
  BY Zenon, <1>1, <1>2, Actors, HandlersKeepWakeups, JobKeepsWakeups, WorkersKeepWakeups DEF Acts

-----------------------------------------------------------------------------
(* The inductive invariant holds at the start and every step keeps it.      *)
LEMMA Inductive == Spec => []IInv
<1>1. Init => IInv
  <2> SUFFICES ASSUME Init PROVE IInv
    OBVIOUS
  <2>0. 0..MaxStored \subseteq Nat
    BY ServerAssumption
  <2>4. /\ opened \in [Queues -> Nat] /\ ready \in [Queues -> Nat] /\ leased \in [Queues -> Nat]
        /\ owed \in [Queues -> Nat] /\ gone \in [Queues -> Nat]
        /\ unflushed \in [Queues -> SUBSET Requests]
    BY <2>0 DEF Init
  <2>5. /\ permit \in [Queues -> BOOLEAN] /\ overtaken \in [Requests -> BOOLEAN]
        /\ shutdown_flag \in [Queues -> BOOLEAN] /\ shutdown_token \in BOOLEAN
    BY Zenon DEF Init
  <2>6. hand \in [Requests -> HandPcs] /\ job \in [Requests -> JobPcs]
    BY DEF Init, HandPcs, JobPcs
  <2>1. TypeOK
    BY SMTT(30), <2>4, <2>5, <2>6 DEF Init, TypeOK, HandPcs, JobPcs
  <2>2. RequestsOK /\ RegistryOK /\ CallbacksOwed
    BY DEF Init, RequestsOK, RegistryOK, CallbacksOwed
  <2>3. WakeupsOK /\ Drains /\ StopsThreads /\ Flushes
    BY DEF Init, WakeupsOK, Looked, Drains, StopsThreads, Flushes
  <2> QED
    BY <2>1, <2>2, <2>3 DEF IInv
<1>2. IInv /\ [Next]_vars => IInv'
  <2>1. ASSUME IInv, Next PROVE TypeOK'
    BY Zenon, <2>1, TypeOfRequests, TypeOfJobs, TypeOfHandlers, TypeOfWorkers, TypeOfMain
       DEF IInv, Next, Environment, Handler, Deadline, Cancelled
  <2>2. ASSUME IInv, Next PROVE IInv'
    BY ZenonT(30), <2>1, <2>2, RequestsStep, RegistryStep, CallbacksStep, WakeupsStep, DrainsStep,
       StopsThreadsStep, FlushesStep DEF IInv
  <2>3. ASSUME IInv, UNCHANGED vars PROVE IInv'
    <3>1. TypeOK'
      BY SMTT(30), <2>3 DEF vars, IInv, TypeOK
    <3>2. RequestsOK' /\ RegistryOK'
      BY SMTT(30), <2>3 DEF vars, IInv, RequestsOK, RegistryOK, UnderWay, QueueOf
    <3>3. CallbacksOwed' /\ WakeupsOK'
      <4>1. /\ hand' = hand /\ job' = job /\ call' = call /\ worker' = worker /\ owed' = owed
            /\ permit' = permit /\ ready' = ready /\ overtaken' = overtaken
        BY Zenon, <2>3 DEF vars
      <4>2. CallbacksOwed'
        BY Zenon, <4>1, <2>3 DEF IInv, CallbacksOwed
      <4>3. WakeupsOK'
        BY ZenonT(30), <4>1, <2>3 DEF IInv, WakeupsOK, Looked, UnderWay, QueueOf
      <4> QED
        BY Zenon, <4>2, <4>3
    <3>4. Drains' /\ StopsThreads' /\ Flushes'
      BY <2>3 DEF vars, IInv, Drains, StopsThreads, Flushes
    <3> QED
      BY ZenonT(30), <3>1, <3>2, <3>3, <3>4 DEF IInv
  <2> QED
    BY Zenon, <2>2, <2>3
<1> QED
  BY <1>1, <1>2, PTL DEF Spec

(* Counts stay counts: a job takes from a queue only what is there          *)
(* (server.rs:312-481 over engine.rs:165-383).                              *)
THEOREM TypeCorrect == Spec => []TypeOK
<1>1. IInv => TypeOK
  BY Zenon DEF IInv
<1> QED
  BY <1>1, Inductive, PTL

(* However many requests race for a queue that is not registered, one       *)
(* engine is opened on its directory (server.rs:96-133).                    *)
THEOREM OneEngine == Spec => []OneEnginePerQueue
<1>1. IInv => OneEnginePerQueue
  <2>1. IInv => \A q \in Queues : opened[q] = 0 \/ opened[q] = 1
    BY Zenon DEF IInv, RegistryOK
  <2> QED
    BY <2>1 DEF OneEnginePerQueue
<1> QED
  BY <1>1, Inductive, PTL

(* A long poll sleeps beside a waiting task only when another handler took  *)
(* the wakeup (server.rs:371-432), for any number of pollers and producers. *)
THEOREM SleepersOvertaken == Spec => []SleepsOnlyIfOvertaken
<1>1. IInv => SleepsOnlyIfOvertaken
  <2> SUFFICES ASSUME IInv, NEW r \in Requests, hand[r] = "asleep", ready[QueueOf(r)] > 0,
                      ~UnderWay(QueueOf(r)), ~overtaken[r]
               PROVE  FALSE
    BY ZenonT(30) DEF SleepsOnlyIfOvertaken
  <2>1. QueueOf(r) \in Queues
    BY Zenon DEF IInv, RequestsOK, QueueOf, Calls
  <2> QED
    BY Zenon, <2>1 DEF IInv, WakeupsOK, Looked
<1> QED
  BY <1>1, Inductive, PTL

(* When main reports a clean end, every record of a request that was        *)
(* answered with success has been flushed (main.rs:158-162).                *)
THEOREM AnswersFlushed == Spec => []AnsweredIsFlushed
<1>1. IInv => AnsweredIsFlushed
  BY Zenon DEF IInv, StopsThreads, Flushes, AnsweredIsFlushed
<1> QED
  BY <1>1, Inductive, PTL

(* When main is over, so is the expiration thread of every engine that was  *)
(* opened, also after a flush that failed (engine.rs:30-55).                *)
THEOREM ThreadsStop == Spec => []WorkersStopped
<1>1. IInv => WorkersStopped
  BY DEF IInv, TypeOK, StopsThreads, RegistryOK, WorkersStopped
<1> QED
  BY <1>1, Inductive, PTL

=============================================================================
