------------------------------ MODULE MCServer ------------------------------
(***************************************************************************)
(* A small instance of Server: two queues, and three requests that meet on *)
(* one of them.  Either the queue is new, or its directory was left with a *)
(* lease that the expiration thread may end.                               *)
(***************************************************************************)
EXTENDS Server, TLC

CONSTANTS q1, q2, r1, r2, r3

Poll(q) == [op |-> "pop", queue |-> q, wait |-> TRUE, sync |-> FALSE]
Do(op, q, sync) == [op |-> op, queue |-> q, wait |-> FALSE, sync |-> sync]

OfferedCalls ==
     (r1 :> {Poll(q1)})
  @@ (r2 :> {Do("push", q1, TRUE), Do("nack", q1, FALSE), Do("ack", q1, FALSE)})
  @@ (r3 :> {Poll(q1), Do("read", q2, FALSE)})

LeaseLeft == [q \in Queues |-> IF q = q1 THEN 1 ELSE 0]
Nothing   == [q \in Queues |-> 0]

MCInit == /\ Init
          /\ ready = Nothing
          /\ \/ dirs = {q2} /\ leased = Nothing
             \/ dirs = {q1} /\ leased = LeaseLeft

MCSpec == MCInit /\ [][Next]_vars /\ Fairness

=============================================================================
