----------------------------- MODULE TaskQueue -----------------------------
(***************************************************************************)
(* What an engine promises its clients: a task that was pushed waits until *)
(* it is leased; a lease ends with the task done, or with the task waiting *)
(* again and one retry less; what is done stays done.  Nothing else ever   *)
(* happens to a task.                                                      *)
(***************************************************************************)
EXTENDS Naturals, Sequences

CONSTANT MAX_RETRIES

VARIABLE tasks        \* the n-th push: its state, and how often it has failed

Task(state, retries) == [state |-> state, retries |-> retries]

Init == tasks = <<>>

\* t and u are one task before and after a step.
Lease(t, u) == t.state = "waiting" /\ u = Task("leased", t.retries)

GiveBack(t, u) == /\ t.state = "leased"
                  /\ t.retries + 1 < MAX_RETRIES
                  /\ u = Task("waiting", t.retries + 1)

Finish(t, u) == t.state = "leased" /\ u = Task("done", 0)

\* A task is pushed, or one task takes a step.  (The sets of one element make TLC
\* evaluate a refinement mapping once for a step.)
Next ==
  \E before \in {tasks}, after \in {tasks'} :
    \/ after = Append(before, Task("waiting", 0))
    \/ \E n \in DOMAIN before :
         /\ \/ Lease(before[n], after[n])
            \/ GiveBack(before[n], after[n])
            \/ Finish(before[n], after[n])
         /\ after = [before EXCEPT ![n] = after[n]]

Spec == Init /\ [][Next]_tasks

=============================================================================
