------------------------------- MODULE Executor -------------------------------
(***************************************************************************)
(* What Thread_Pool promises the thread that owns it, with no workers, no  *)
(* mutex and no condition variable: tasks are started in the order they    *)
(* were submitted, each at most once, every started task completes its     *)
(* future, and closing the executor drops tasks that were not started,     *)
(* breaking their promises.  ThreadPool is shown to implement it.          *)
(***************************************************************************)
EXTENDS Sequences

CONSTANT Tasks        \* the submissions of the owner, each used once

VARIABLES
  queue,              \* submitted and not started, in submission order
  running,            \* started and not completed
  future,             \* the state of each task's std::future
  closed              \* the executor is being destroyed

vars == <<queue, running, future, closed>>

Outcomes == {"value", "exception"}

Init == /\ queue = <<>>
        /\ running = {}
        /\ future = [t \in Tasks |-> "none"]
        /\ closed = FALSE

Submit(t) == /\ ~closed
             /\ future[t] = "none"
             /\ queue' = Append(queue, t)
             /\ future' = [future EXCEPT ![t] = "pending"]
             /\ UNCHANGED <<running, closed>>

Start == /\ queue # <<>>
         /\ queue' = Tail(queue)
         /\ running' = running \cup {Head(queue)}
         /\ UNCHANGED <<future, closed>>

Finish(t) == /\ t \in running
             /\ running' = running \ {t}
             /\ \E o \in Outcomes : future' = [future EXCEPT ![t] = o]
             /\ UNCHANGED <<queue, closed>>

Close == /\ closed' = TRUE
         /\ UNCHANGED <<queue, running, future>>

Discard == /\ closed
           /\ queue # <<>>
           /\ queue' = Tail(queue)
           /\ future' = [future EXCEPT ![Head(queue)] = "broken"]
           /\ UNCHANGED <<running, closed>>

Next == \/ \E t \in Tasks : Submit(t) \/ Finish(t)
        \/ Start \/ Close \/ Discard

Fairness == /\ WF_vars(Start \/ Discard)
            /\ \A t \in Tasks : WF_vars(Finish(t))

SafeSpec == Init /\ [][Next]_vars

Spec == SafeSpec /\ Fairness
===============================================================================
