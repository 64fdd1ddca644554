---------------------------- MODULE PriorityFifo ----------------------------
(***************************************************************************)
(* What a priority queue promises: a pop returns a waiting task of the     *)
(* highest priority, and among those the one that was pushed first.  Tasks *)
(* carry the number of their push as id.                                   *)
(***************************************************************************)
EXTENDS Naturals

CONSTANT Priorities

VARIABLES waiting,   \* the set of tasks pushed and not yet popped
          popped     \* the answer of the last pop, as a set of at most one task

Task == [id : Nat, priority : Priorities, retries : Nat]

Init == waiting = {} /\ popped = {}

\* t must be served before u.
Before(t, u) == \/ t.priority > u.priority
                \/ t.priority = u.priority /\ t.id <= u.id

\* A new task is younger than every waiting one.
Push == /\ \E t \in waiting' : /\ t \in Task
                               /\ \A u \in waiting : u.id < t.id
                               /\ waiting' = waiting \cup {t}
        /\ UNCHANGED popped

Pop == \E t \in waiting : /\ \A u \in waiting : Before(t, u)
                          /\ popped' = {t}
                          /\ waiting' = waiting \ {t}

PopNone == waiting = {} /\ popped' = {} /\ UNCHANGED waiting

Clear == waiting' = {} /\ UNCHANGED popped

Next == Push \/ Pop \/ PopNone \/ Clear

Spec == Init /\ [][Next]_<<waiting, popped>>

=============================================================================
