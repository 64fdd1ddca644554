----------------------------- MODULE BucketOps -----------------------------
(***************************************************************************)
(* The value of a PriorityBucketQueue (src/storage/priority_queue.rs) and  *)
(* the operators that push to it and pop from it.  A bucket is the         *)
(* sequence of a VecDeque; a word of the [u64; 4] bitmap is the set of its *)
(* bits that are 1, so that 63 - leading_zeros is the largest member.      *)
(***************************************************************************)
EXTENDS Integers, Sequences

CONSTANT Priorities     \* the u8 priorities the clients use

ASSUME PrioritiesAssumption == Priorities \subseteq 0..255

Words == 0..3
Bits  == 0..63

TaskRef == [id : Nat, priority : Priorities, retries : Nat]

Queue == [buckets : [Priorities -> Seq(TaskRef)],
          bitmap  : [Words -> SUBSET Bits],
          len     : Int]

EmptyQueue == [buckets |-> [p \in Priorities |-> <<>>],
               bitmap  |-> [w \in Words |-> {}],
               len     |-> 0]

\* Mutants: the bit number not reduced to its word; the counter forgotten; a
\* push to the front.
PushUnmasked(q, task) ==
  LET p == task.priority
  IN  [buckets |-> [q.buckets EXCEPT ![p] = Append(@, task)],
       bitmap  |-> [q.bitmap EXCEPT ![p \div 64] = @ \cup {p}],
       len     |-> q.len + 1]

PushUncounted(q, task) ==
  LET p == task.priority
  IN  [buckets |-> [q.buckets EXCEPT ![p] = Append(@, task)],
       bitmap  |-> [q.bitmap EXCEPT ![p \div 64] = @ \cup {p % 64}],
       len     |-> q.len]

PushFront(q, task) ==
  LET p == task.priority
  IN  [buckets |-> [q.buckets EXCEPT ![p] = <<task>> \o @],
       bitmap  |-> [q.bitmap EXCEPT ![p \div 64] = @ \cup {p % 64}],
       len     |-> q.len + 1]

QueuePush(q, task) ==
  LET p == task.priority
  IN  [buckets |-> [q.buckets EXCEPT ![p] = Append(@, task)],
       bitmap  |-> [q.bitmap EXCEPT ![p \div 64] = @ \cup {p % 64}],
       len     |-> q.len + 1]

\* pop() finds a task iff some word of the bitmap is not zero; it never looks
\* at len, which is what is_empty() and status() report.
HasTask(q) == \E w \in Words : q.bitmap[w] # {}

\* Mutant: the words are searched from the lowest one.
LowestWord(q) == CHOOSE w \in Words : /\ q.bitmap[w] # {}
                                      /\ \A v \in Words : v < w => q.bitmap[v] = {}

TopWord(q) == CHOOSE w \in Words : /\ q.bitmap[w] # {}
                                   /\ \A v \in Words : v > w => q.bitmap[v] = {}

TopBit(q) == CHOOSE b \in q.bitmap[TopWord(q)] :
               \A c \in q.bitmap[TopWord(q)] : c <= b

TopPriority(q) == 64 * TopWord(q) + TopBit(q)

\* The task pop() returns, and the queue it leaves behind.
QueueFront(q) == Head(q.buckets[TopPriority(q)])

\* Mutant: the bit of an emptied bucket stays set.
PopLeavesBit(q) ==
  [q EXCEPT !.buckets[TopPriority(q)] = Tail(@), !.len = @ - 1]

QueuePop(q) ==
  LET p    == TopPriority(q)
      rest == Tail(q.buckets[p])
  IN  [buckets |-> [q.buckets EXCEPT ![p] = rest],
       bitmap  |-> IF rest = <<>>
                   THEN [q.bitmap EXCEPT ![TopWord(q)] = @ \ {TopBit(q)}]
                   ELSE q.bitmap,
       len     |-> q.len - 1]

\* The tasks in the queue.
Queued(q) == UNION {{q.buckets[p][i] : i \in DOMAIN q.buckets[p]} : p \in Priorities}

\* A bit is set exactly when its bucket holds a task, and no bit is set that
\* stands for no bucket.
BitmapMatches(q) ==
  /\ \A p \in Priorities : (p % 64) \in q.bitmap[p \div 64] <=> q.buckets[p] # <<>>
  /\ \A w \in Words : \A b \in q.bitmap[w] : 64 * w + b \in Priorities

=============================================================================
