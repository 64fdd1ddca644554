------------------------------ MODULE CacheOps ------------------------------
(***************************************************************************)
(* The value of a PayloadCache (src/storage/payload_cache.rs): a bounded   *)
(* map from task ids to payloads with a FIFO of ids deciding evictions.    *)
(* remove() leaves the id in the FIFO, so the FIFO holds tombstones.       *)
(***************************************************************************)
EXTENDS Naturals, Sequences, FiniteSets

CONSTANT CacheCapacity

ASSUME CacheCapacityAssumption == CacheCapacity \in Nat

\* HashMap::insert and HashMap::remove.
Put(f, k, v) == [x \in DOMAIN f \cup {k} |-> IF x = k THEN v ELSE f[x]]
Drop(f, k)   == [x \in DOMAIN f \ {k} |-> f[x]]

EmptyMap == [x \in {} |-> 0]

EmptyCache == [entries |-> EmptyMap, order |-> <<>>]

CacheRemove(c, id) == [c EXCEPT !.entries = Drop(@, id)]

\* The eviction loop of insert pops ids off the FIFO until one of them was
\* still cached: the first live one, tombstones before it included.
Oldest(entries, order) ==
  CHOOSE k \in DOMAIN order : /\ order[k] \in DOMAIN entries
                              /\ \A j \in 1..(k - 1) : order[j] \notin DOMAIN entries

\* Mutant: one id is taken off the FIFO, be it a tombstone.
EvictedFirst(c) == [entries |-> Drop(c.entries, Head(c.order)), order |-> Tail(c.order)]

Evicted(c) ==
  IF \E k \in DOMAIN c.order : c.order[k] \in DOMAIN c.entries
  THEN LET k == Oldest(c.entries, c.order)
       IN  [entries |-> Drop(c.entries, c.order[k]),
            order   |-> SubSeq(c.order, k + 1, Len(c.order))]
  ELSE [c EXCEPT !.order = <<>>]

\* VecDeque::retain: what is left of order when the ids outside live go.
Retained(order, live) ==
  LET stay  == {k \in DOMAIN order : order[k] \in live}
      place == CHOOSE f \in [1..Cardinality(stay) -> stay] :
                 \A i, j \in DOMAIN f : i < j => f[i] < f[j]
  IN  [i \in DOMAIN place |-> order[place[i]]]

\* Mutant: tombstones pile up until an eviction meets them.
NeverTidied(c) == c

\* Hygiene: drop tombstones once the FIFO is over twice the capacity.
Tidied(c) ==
  IF Len(c.order) > 2 * CacheCapacity
  THEN [c EXCEPT !.order = Retained(@, DOMAIN c.entries)]
  ELSE c

CacheInsert(c, id, data) ==
  LET added == [entries |-> Put(c.entries, id, data),
                order   |-> IF id \in DOMAIN c.entries THEN c.order
                            ELSE Append(c.order, id)]
  IN  IF CacheCapacity = 0 THEN c
      ELSE Tidied(IF Cardinality(DOMAIN added.entries) > CacheCapacity
                  THEN Evicted(added) ELSE added)

=============================================================================
