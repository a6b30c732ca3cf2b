------------------------------ MODULE ThreadPool ------------------------------
(***************************************************************************)
(* Thread_Pool of src/multithreads/MultiThread.hpp: the workers' scheduler *)
(* loop, the mutex lockx, the condition variable cv, the task queue, the   *)
(* two atomics, and the owner's calls: pool_set, Submit, the destructor.   *)
(*                                                                         *)
(* A step is what a thread does between two accesses that another thread   *)
(* can observe.  A critical section that never reads an atomic another     *)
(* thread writes is one step (addTask); getTask is split where it sleeps,  *)
(* because the destructor writes done and notifies without the mutex.      *)
(***************************************************************************)
EXTENDS Integers, Sequences, FiniteSets

CONSTANTS
  Workers,       \* the threads of pool_vector once pool_set has returned
  First,         \* the one the constructor started; the rest is pool_set's
  Tasks,         \* the tasks the owner may submit, each once
  Free,          \* lockx is not held
  NoTask         \* the worker holds no task

ASSUME PoolAssumption ==
  /\ IsFiniteSet(Workers)
  /\ First \in Workers
  /\ Workers # {First}      \* main passes pool_set a positive number
  /\ Free \notin Workers
  /\ NoTask \notin Tasks

VARIABLES
  lockx,         \* the worker inside getTask, or Free
  Task_assemble, \* the queue of tasks
  done,          \* the stop flag
  idleThreadNum, \* the counter Thread_count returns
  wpc,           \* where each worker is
  held,          \* the task a worker took and has not finished
  future,        \* the std::future of each task
  mpc            \* where the owner (the main thread) is

vars == <<lockx, Task_assemble, done, idleThreadNum, wpc, held, future, mpc>>

-------------------------------------------------------------------------------
(***************************************************************************)
(* Program points.  A worker is "unborn" until pool_set creates it, at the *)
(* test of "loop", asking for lockx in "lock", has seen an empty queue and *)
(* is about to sleep ("park"), sleeps in cv ("wait"), has seen a task and  *)
(* is about to take it ("pop"), "got" a task, is in task() ("run"), has    *)
(* completed its future ("ran"), or returned ("exit").  "undefined" is a   *)
(* worker that took front() of an empty queue.                             *)
(***************************************************************************)
InCritical == {"park", "pop"}
Awake == {"loop", "lock", "pop"}
Counted == {"run", "ran"}
WorkerPC == InCritical \cup Awake \cup Counted
              \cup {"unborn", "wait", "got", "exit", "undefined"}

OwnerPC == {"boot", "open", "drain", "notify", "join", "gone"}

Outcomes == {"value", "exception"}
FutureState == {"none", "pending", "broken"} \cup Outcomes

\* The workers whose program counter, in pc, is one of S.
At(pc, S) == {w \in Workers : pc[w] \in S}
Sleepers == At(wpc, {"wait"})

\* Thread_count: the owner reads idleThreadNum without the mutex.
Thread_count == idleThreadNum

Init ==
  /\ lockx = Free
  /\ Task_assemble = <<>>
  /\ done = FALSE
  /\ idleThreadNum = 1
  /\ wpc = [w \in Workers |-> IF w = First THEN "loop" ELSE "unborn"]
  /\ held = [w \in Workers |-> NoTask]
  /\ future = [t \in Tasks |-> "none"]
  /\ mpc = "boot"

\* cv.notify_one in a state whose program counters are pc: one sleeper goes
\* back to asking for lockx; with none the notification is lost.
NotifyOne(pc) ==
  IF Sleepers = {} THEN {pc}
  ELSE {[pc EXCEPT ![w] = "lock"] : w \in Sleepers}
-------------------------------------------------------------------------------
(* The worker: scheduler and getTask. *)

Goto(w, p) == wpc' = [wpc EXCEPT ![w] = p]

\* MUTANT of LoopTest: while (true).
LoopForever(w) ==
  /\ wpc[w] = "loop"
  /\ Goto(w, "lock")
  /\ UNCHANGED <<lockx, Task_assemble, done, idleThreadNum, held, future, mpc>>

\* while (!done.load())
LoopTest(w) ==
  /\ wpc[w] = "loop"
  /\ Goto(w, IF done THEN "exit" ELSE "lock")
  /\ UNCHANGED <<lockx, Task_assemble, done, idleThreadNum, held, future, mpc>>

\* getTask locks lockx and finds nothing to do: it keeps the mutex until the
\* wait begins.  The predicate reads done here, and not again before the wait.
SeeEmpty(w) ==
  /\ wpc[w] = "lock"
  /\ lockx = Free
  /\ Task_assemble = <<>>
  /\ ~done
  /\ lockx' = w
  /\ Goto(w, "park")
  /\ UNCHANGED <<Task_assemble, done, idleThreadNum, held, future, mpc>>

\* getTask locks lockx, sees done and returns the empty function.
SeeDone(w) ==
  /\ wpc[w] = "lock"
  /\ lockx = Free
  /\ done
  /\ Goto(w, "loop")
  /\ UNCHANGED <<lockx, Task_assemble, done, idleThreadNum, held, future, mpc>>

\* MUTANT of SeeTask: the queue is tested without the mutex.
SeeTaskUnlocked(w) ==
  /\ wpc[w] = "lock"
  /\ Task_assemble # <<>>
  /\ ~done
  /\ Goto(w, "pop")
  /\ UNCHANGED <<lockx, Task_assemble, done, idleThreadNum, held, future, mpc>>

\* getTask locks lockx and passes both tests.
SeeTask(w) ==
  /\ wpc[w] = "lock"
  /\ lockx = Free
  /\ Task_assemble # <<>>
  /\ ~done
  /\ lockx' = w
  /\ Goto(w, "pop")
  /\ UNCHANGED <<Task_assemble, done, idleThreadNum, held, future, mpc>>

\* cv.wait(lock) releases the mutex and sleeps, atomically.
Park(w) ==
  /\ wpc[w] = "park"
  /\ lockx' = Free
  /\ Goto(w, "wait")
  /\ UNCHANGED <<Task_assemble, done, idleThreadNum, held, future, mpc>>

\* A wakeup nobody asked for, which std::condition_variable allows.
SpuriousWake(w) ==
  /\ wpc[w] = "wait"
  /\ Goto(w, "lock")
  /\ UNCHANGED <<lockx, Task_assemble, done, idleThreadNum, held, future, mpc>>

\* MUTANT of Pop: front() without pop().
PopKeepsHead(w) ==
  /\ wpc[w] = "pop"
  /\ Task_assemble # <<>>
  /\ held' = [held EXCEPT ![w] = Head(Task_assemble)]
  /\ wpc' \in NotifyOne([wpc EXCEPT ![w] = "got"])
  /\ lockx' = Free
  /\ UNCHANGED <<Task_assemble, done, idleThreadNum, future, mpc>>

\* front(), pop(), notify_one, and the mutex is released on return.
Pop(w) ==
  /\ wpc[w] = "pop"
  /\ Task_assemble # <<>>
  /\ Task_assemble' = Tail(Task_assemble)
  /\ held' = [held EXCEPT ![w] = Head(Task_assemble)]
  /\ wpc' \in NotifyOne([wpc EXCEPT ![w] = "got"])
  /\ lockx' = Free
  /\ UNCHANGED <<done, idleThreadNum, future, mpc>>

\* The destructor, which does not lock, emptied the queue after the test:
\* front() of an empty queue is undefined behaviour.
PopEmpty(w) ==
  /\ wpc[w] = "pop"
  /\ Task_assemble = <<>>
  /\ lockx' = Free
  /\ Goto(w, "undefined")
  /\ UNCHANGED <<Task_assemble, done, idleThreadNum, held, future, mpc>>

\* idleThreadNum--
CountBusy(w) ==
  /\ wpc[w] = "got"
  /\ idleThreadNum' = idleThreadNum - 1
  /\ Goto(w, "run")
  /\ UNCHANGED <<lockx, Task_assemble, done, held, future, mpc>>

\* task() returns: the packaged_task stored a value, or the exception.  The
\* owner may see the future ready from here on.
TaskEnds(w, outcome) ==
  /\ wpc[w] = "run"
  /\ future' = [future EXCEPT ![held[w]] = outcome]
  /\ held' = [held EXCEPT ![w] = NoTask]
  /\ Goto(w, "ran")
  /\ UNCHANGED <<lockx, Task_assemble, done, idleThreadNum, mpc>>

\* idleThreadNum++
CountIdle(w) ==
  /\ wpc[w] = "ran"
  /\ idleThreadNum' = idleThreadNum + 1
  /\ Goto(w, "loop")
  /\ UNCHANGED <<lockx, Task_assemble, done, held, future, mpc>>
-------------------------------------------------------------------------------
(* The owner. *)

\* pool_set, called once by main before the first query.
PoolSet ==
  /\ mpc = "boot"
  /\ idleThreadNum' = Cardinality(Workers) - 1
  /\ wpc' = [w \in Workers |-> IF wpc[w] = "unborn" THEN "loop" ELSE wpc[w]]
  /\ mpc' = "open"
  /\ UNCHANGED <<lockx, Task_assemble, done, held, future>>

\* MUTANTS of Submit: no notify_one; the new task goes to the front.
SubmitSilently(t) ==
  /\ mpc = "open"
  /\ lockx = Free
  /\ future[t] = "none"
  /\ Task_assemble' = Append(Task_assemble, t)
  /\ future' = [future EXCEPT ![t] = "pending"]
  /\ UNCHANGED <<lockx, done, idleThreadNum, wpc, held, mpc>>

SubmitInFront(t) ==
  /\ mpc = "open"
  /\ lockx = Free
  /\ future[t] = "none"
  /\ Task_assemble' = <<t>> \o Task_assemble
  /\ future' = [future EXCEPT ![t] = "pending"]
  /\ wpc' \in NotifyOne(wpc)
  /\ UNCHANGED <<lockx, done, idleThreadNum, held, mpc>>

\* Submit: wraps the call and pushes it under the mutex, with one notify_one.
Submit(t) ==
  /\ mpc = "open"
  /\ lockx = Free
  /\ future[t] = "none"
  /\ Task_assemble' = Append(Task_assemble, t)
  /\ future' = [future EXCEPT ![t] = "pending"]
  /\ wpc' \in NotifyOne(wpc)
  /\ UNCHANGED <<lockx, done, idleThreadNum, held, mpc>>

\* MUTANT of Closed: an empty function is queued to stop a worker.
ClosedByPoison ==
  /\ mpc \in {"boot", "open"}
  /\ done' = TRUE
  /\ Task_assemble' = Append(Task_assemble, NoTask)
  /\ mpc' = "drain"
  /\ UNCHANGED <<lockx, idleThreadNum, wpc, held, future>>

\* The destructor begins with closed(): exit() ran in main, before pool_set
\* or after it.  None of the destructor's steps takes lockx.
Closed ==
  /\ mpc \in {"boot", "open"}
  /\ done' = TRUE
  /\ mpc' = "drain"
  /\ UNCHANGED <<lockx, Task_assemble, idleThreadNum, wpc, held, future>>

\* One turn of the loop that empties the queue: the packaged_task dies unrun.
Drain ==
  /\ mpc = "drain"
  /\ Task_assemble # <<>>
  /\ Task_assemble' = Tail(Task_assemble)
  /\ future' = [future EXCEPT ![Head(Task_assemble)] = "broken"]
  /\ UNCHANGED <<lockx, done, idleThreadNum, wpc, held, mpc>>

Drained ==
  /\ mpc = "drain"
  /\ Task_assemble = <<>>
  /\ mpc' = "notify"
  /\ UNCHANGED <<lockx, Task_assemble, done, idleThreadNum, wpc, held, future>>

\* cv.notify_all wakes the workers that sleep now.
NotifyAll ==
  /\ mpc = "notify"
  /\ wpc' = [w \in Workers |-> IF wpc[w] = "wait" THEN "lock" ELSE wpc[w]]
  /\ mpc' = "join"
  /\ UNCHANGED <<lockx, Task_assemble, done, idleThreadNum, held, future>>

\* MUTANT of Join: the threads are detached.
JoinDetached ==
  /\ mpc = "join"
  /\ mpc' = "gone"
  /\ UNCHANGED <<lockx, Task_assemble, done, idleThreadNum, wpc, held, future>>

\* join() on every thread there is, then pool_vector.clear().
Join ==
  /\ mpc = "join"
  /\ \A w \in Workers : wpc[w] \in {"exit", "unborn"}
  /\ mpc' = "gone"
  /\ UNCHANGED <<lockx, Task_assemble, done, idleThreadNum, wpc, held, future>>
-------------------------------------------------------------------------------
GetTask(w) == SeeEmpty(w) \/ SeeDone(w) \/ SeeTask(w) \/ Park(w) \/ Pop(w)
                \/ PopEmpty(w)

\* What a worker does between two calls of task().
WorkerMoves(w) == LoopTest(w) \/ GetTask(w) \/ CountBusy(w) \/ CountIdle(w)

Destructor == Drain \/ Drained \/ NotifyAll \/ Join

Next ==
  \/ \E w \in Workers : \/ WorkerMoves(w)
                        \/ \E o \in Outcomes : TaskEnds(w, o)
                        \/ SpuriousWake(w)
  \/ \E t \in Tasks : Submit(t)
  \/ PoolSet \/ Closed \/ Destructor

(***************************************************************************)
(* The operating system runs every thread that is not blocked, a task is a *)
(* loop over finitely many rows, and a destructor that began goes on.      *)
(* Nothing makes the owner submit or quit, and no spurious wakeup is owed. *)
(***************************************************************************)
Fairness ==
  /\ \A w \in Workers :
       WF_vars(WorkerMoves(w) \/ \E o \in Outcomes : TaskEnds(w, o))
  /\ WF_vars(Destructor)

SafeSpec == Init /\ [][Next]_vars

Spec == SafeSpec /\ Fairness
-------------------------------------------------------------------------------
TypeOK ==
  /\ lockx \in Workers \cup {Free}
  /\ Task_assemble \in Seq(Tasks)
  /\ done \in BOOLEAN
  /\ idleThreadNum \in Int
  /\ wpc \in [Workers -> WorkerPC]
  /\ held \in [Workers -> Tasks \cup {NoTask}]
  /\ future \in [Tasks -> FutureState]
  /\ mpc \in OwnerPC

\* At most one worker is between the lock and the unlock of getTask, and it is
\* the one lockx names.
MutexHeld == \A w \in Workers : lockx = w <=> wpc[w] \in InCritical

\* A pending task is in exactly one place, once: in the queue or in the hands
\* of one worker.  None is lost, none is run twice.
OnePlace ==
  /\ \A t \in Tasks :
       future[t] = "pending" <=>
         \/ \E i \in DOMAIN Task_assemble : Task_assemble[i] = t
         \/ \E w \in Workers : held[w] = t
  /\ \A i, j \in DOMAIN Task_assemble :
       Task_assemble[i] = Task_assemble[j] => i = j
  /\ \A v, w \in Workers : held[v] = held[w] /\ held[v] # NoTask => v = w
  /\ \A w \in Workers, i \in DOMAIN Task_assemble : held[w] # Task_assemble[i]

\* While a worker sleeps, every queued task has an awake worker coming for it:
\* no task waits in the queue behind a wakeup that was lost.
NoTaskStranded ==
  ~done /\ Sleepers # {} =>
    Len(Task_assemble) <= Cardinality(At(wpc, Awake))

\* A future that is completed or broken stays as it is.
FutureIsFinal ==
  [][\A t \in Tasks :
       future[t] \in Outcomes \cup {"broken"} => future'[t] = future[t]]_vars

\* When the destructor has returned no worker runs any more and no future is
\* left waiting: what the workers captured may be destroyed.
QuietWhenGone ==
  mpc = "gone" =>
    /\ \A w \in Workers : wpc[w] \in {"exit", "unborn"}
    /\ \A t \in Tasks : future[t] # "pending"

\* The strengthening that makes the invariants above inductive: where a task is
\* held, which phase of the owner's life allows what, and what may happen while
\* pool_set has not started the other workers.
Phases ==
  /\ \A w \in Workers : held[w] # NoTask <=> wpc[w] \in {"got", "run"}
  /\ done <=> mpc \in {"drain", "notify", "join", "gone"}
  /\ mpc \in {"notify", "join", "gone"} => Task_assemble = <<>>
  /\ mpc = "boot" => At(wpc, {"unborn"}) # {}
  /\ mpc = "open" => At(wpc, {"unborn"}) = {}
  /\ At(wpc, {"unborn"}) # {} =>
       /\ Task_assemble = <<>>
       /\ \A w \in Workers :
            wpc[w] \in {"unborn", "loop", "lock", "park", "wait", "exit"}
  /\ \A w \in Workers : wpc[w] = "park" => done \/ Task_assemble = <<>>

\* What the counter really is: of the workers that are not in a task, one less
\* once pool_set has run, because it writes over the constructor's 1.  The
\* comment of Thread_count says "Return the current idle_threads": it never
\* does, and returns -1 when every worker is in a task.
CountIsOneShort ==
  idleThreadNum =
    IF At(wpc, {"unborn"}) # {} THEN 1
    ELSE Cardinality(Workers) - 1 - Cardinality(At(wpc, Counted))

IndInv == TypeOK /\ MutexHeld /\ OnePlace /\ CountIsOneShort /\ NoTaskStranded
            /\ QuietWhenGone /\ Phases

\* Every submitted task's future is completed, or broken by the destructor:
\* a get() of the owner returns.
EveryGetReturns ==
  \A t \in Tasks : future[t] = "pending" ~> future[t] # "pending"

\* When the destructor waits in join, every worker returns but for those that
\* sleep in cv: the notification is the only thing a worker can miss.
OnlySleepersStay ==
  mpc = "join" ~>
    \A w \in Workers : wpc[w] \in {"exit", "unborn", "wait", "undefined"}

\* The pool implements Executor.
Contract == INSTANCE Executor WITH
  queue   <- Task_assemble,
  running <- {held[w] : w \in Workers} \ {NoTask},
  closed  <- done

ImplementsExecutor == Contract!Spec
===============================================================================
