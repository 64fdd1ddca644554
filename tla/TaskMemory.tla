----------------------------- MODULE TaskMemory -----------------------------
(***************************************************************************)
(* The two containers of tasks in EngineState, ready_queue and             *)
(* payload_cache, used together as push, pop_and_lease and ack use them:   *)
(* a push enters both, a pop takes from the queue and leaves the payload   *)
(* cached for another delivery, an ack removes it.                         *)
(***************************************************************************)
EXTENDS PriorityBucketQueue, CacheOps

VARIABLES
  payload_cache,
  leased             \* ids popped and not yet acknowledged

memory == <<queue, popped, pushes, payload_cache, leased>>

MemoryInit == Init /\ payload_cache = EmptyCache /\ leased = {}

MemoryPush(p) ==
  /\ Push(p)
  /\ payload_cache' = CacheInsert(payload_cache, pushes, p)
  /\ UNCHANGED leased

MemoryPop ==
  /\ Pop
  /\ leased' = leased \cup {QueueFront(queue).id}
  /\ UNCHANGED payload_cache

MemoryAck(id) ==
  /\ payload_cache' = CacheRemove(payload_cache, id)
  /\ leased' = leased \ {id}
  /\ UNCHANGED vars

MemoryPopNone  == PopNone /\ UNCHANGED <<payload_cache, leased>>
ClearQueue == Clear /\ UNCHANGED <<payload_cache, leased>>
ClearCache == payload_cache' = EmptyCache /\ UNCHANGED <<vars, leased>>

MemoryNext == \/ \E p \in Priorities : MemoryPush(p)
              \/ MemoryPop
              \/ MemoryPopNone
              \/ \E id \in leased : MemoryAck(id)
              \/ ClearQueue
              \/ ClearCache

MemorySpec == MemoryInit /\ [][MemoryNext]_memory

-----------------------------------------------------------------------------
(* The cache stays within its capacity, and its FIFO, in which removed ids  *)
(* stay behind (payload_cache.rs:75-79), within twice the capacity.         *)
CacheBounded ==
  /\ Cardinality(DOMAIN payload_cache.entries) <= CacheCapacity
  /\ Len(payload_cache.order) <= 2 * CacheCapacity

Cache == INSTANCE FifoCache
           WITH kept <- Retained(payload_cache.order, DOMAIN payload_cache.entries)

(* The cache implements the abstract one: an insertion evicts the oldest    *)
(* payload that is still cached and never the new one, however many removed *)
(* ids are in its way (payload_cache.rs:64-73).                             *)
ImplementsFifoCache == Cache!Spec

=============================================================================
