------------------------- MODULE PriorityBucketQueue -------------------------
(***************************************************************************)
(* src/storage/priority_queue.rs as a state machine: any sequence of       *)
(* push, pop and clear.  The tasks pushed carry the number of the push as  *)
(* id, which is what makes the FIFO promise visible.                       *)
(***************************************************************************)
EXTENDS BucketOps, FiniteSets

CONSTANT MaxPushes      \* bound: pushes in a behaviour

ASSUME MaxPushesAssumption == MaxPushes \in Nat

VARIABLES queue, popped, pushes

vars == <<queue, popped, pushes>>

TypeOK == /\ queue \in Queue
          /\ popped \in SUBSET TaskRef
          /\ pushes \in Nat

Init == queue = EmptyQueue /\ popped = {} /\ pushes = 0

Push(p) == /\ pushes < MaxPushes
           /\ queue' = QueuePush(queue, [id |-> pushes, priority |-> p, retries |-> 0])
           /\ pushes' = pushes + 1
           /\ UNCHANGED popped

Pop == /\ HasTask(queue)
       /\ popped' = {QueueFront(queue)}
       /\ queue' = QueuePop(queue)
       /\ UNCHANGED pushes

PopNone == /\ ~HasTask(queue)
           /\ popped' = {}
           /\ UNCHANGED <<queue, pushes>>

Clear == /\ queue' = EmptyQueue
         /\ UNCHANGED <<popped, pushes>>

Next == \/ \E p \in Priorities : Push(p)
        \/ Pop
        \/ PopNone
        \/ Clear

Spec == Init /\ [][Next]_vars

-----------------------------------------------------------------------------
(* pop() trusts the bitmap: "bucket must not be empty when bit is set"      *)
(* (line 55).  A bit is set exactly when its bucket holds a task, so pop    *)
(* neither panics nor overlooks a task of a higher priority.                *)
BitmapExact == BitmapMatches(queue)

(* len, which status() reports and is_empty() tests, counts the tasks that  *)
(* pop() can still return.                                                  *)
LenCounts == queue.len = Cardinality(Queued(queue))

(* Every bucket holds tasks of its own priority only, oldest push first.    *)
BucketsSorted ==
  \A p \in Priorities :
    /\ \A i \in DOMAIN queue.buckets[p] :
         queue.buckets[p][i].priority = p /\ queue.buckets[p][i].id < pushes
    /\ \A i, j \in DOMAIN queue.buckets[p] :
         i < j => queue.buckets[p][i].id < queue.buckets[p][j].id

Fifo == INSTANCE PriorityFifo WITH waiting <- Queued(queue)

(* The bucket queue implements the abstract queue: every pop answers with   *)
(* the oldest task of the highest priority, whatever came before.           *)
ImplementsFifo == Fifo!Spec

=============================================================================
