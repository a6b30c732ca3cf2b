------------------------------ MODULE QueryEngine ------------------------------
(***************************************************************************)
(* The main thread's loop over data queries on top of ThreadPool: the      *)
(* fork-join that COUNT, SUM, MIN, MAX, SELECT, ADD, SUB, SWAP and         *)
(* DUPLICATE share.  execute() writes the file's static variables, submits *)
(* one task per partition, and waits for the futures in order; a task      *)
(* reads the statics when it runs.  Main then reads the next query, stops  *)
(* at QUIT (exit() destroys the pool) or leaves at the end of the input.   *)
(***************************************************************************)
EXTENDS ThreadPool

CONSTANTS
  NQ,          \* the number of data queries in the input
  NP,          \* the number of partitions of a table that is split
  Kind,        \* the query class of each query: each class has its statics
  Large,       \* the queries whose table has 2000 rows or more
  Throws       \* the partitions <<q, p>> in which evaluating query q throws

Queries == 1 .. NQ
Parts == 0 .. NP - 1
Kinds == {Kind[q] : q \in Queries}

ASSUME EngineAssumption ==
  /\ NQ \in Nat \ {0} /\ NP \in Nat \ {0}
  /\ Tasks = Queries \X Parts
  /\ DOMAIN Kind = Queries
  /\ Large \subseteq Queries
  /\ Throws \subseteq Tasks

VARIABLES
  cur,         \* the query read last
  phase,       \* where main is in the REPL and in execute(); "undefined" when a
               \* task has run into freed memory and the process is dead
  next,        \* the loop variable i of the submit and of the get loop
  copy_this,   \* for each kind, the query its static copy_this points to
  total_thread,\* for each kind, its static total_thread
  part_begun,  \* the worker has computed head and tail of its partition
  scans,       \* how often each partition was scanned for each query
  answer       \* what main printed for each query

engine == <<cur, phase, next, copy_this, total_thread, part_begun, scans, answer>>
allvars == <<vars, engine>>

Unread == 0    \* no query yet: cur, and copy_this before it is assigned

EngineInit ==
  /\ Init
  /\ cur = Unread
  /\ phase = "repl"
  /\ next = 0
  /\ copy_this = [k \in Kinds |-> Unread]
  /\ total_thread = [k \in Kinds |-> 0]
  /\ part_begun = [w \in Workers |-> FALSE]
  /\ scans = [q \in Queries |-> [p \in Parts |-> 0]]
  /\ answer = [q \in Queries |-> "none"]

\* The query object lives while main executes it.
Executing == phase \in {"scan", "fork", "submit", "get"}
Alive(q) == q = cur /\ Executing

\* total_thread < 2, after the cast of Thread_count to unsigned int.
TooFewThreads(n) == n \in {0, 1}

Scanned(q, S) ==
  [scans EXCEPT ![q] = [p \in Parts |-> scans[q][p] + IF p \in S THEN 1 ELSE 0]]
-------------------------------------------------------------------------------
(* Main. *)

MainMoves(p) == /\ mpc = "open" /\ phase' = p /\ UNCHANGED vars

\* Read and parse the next query; execute() evaluates the condition into the
\* static result, reads Thread_count into the static total_thread, and decides.
BeginQuery ==
  /\ phase = "repl" /\ cur < NQ
  /\ cur' = cur + 1
  /\ total_thread' = [total_thread EXCEPT ![Kind[cur + 1]] = Thread_count]
  /\ MainMoves(IF TooFewThreads(Thread_count) \/ cur + 1 \notin Large
               THEN "scan" ELSE "fork")
  /\ UNCHANGED <<next, copy_this, part_begun, scans, answer>>

\* MUTANT of ScanAll: the parallel branch follows the sequential one.
ScanAllThenFork ==
  /\ phase = "scan"
  /\ scans' = Scanned(cur, Parts)
  /\ MainMoves("fork")
  /\ UNCHANGED <<cur, next, copy_this, total_thread, part_begun, answer>>

\* The sequential branch.  The first row that matches throws, if any does:
\* evaluating the operands of an ill-formed query throws on every such row.
ScanAll ==
  /\ phase = "scan"
  /\ IF \E p \in Parts : <<cur, p>> \in Throws
       THEN /\ answer' = [answer EXCEPT ![cur] = "error"]
            /\ UNCHANGED scans
       ELSE /\ answer' = [answer EXCEPT ![cur] = "result"]
            /\ scans' = Scanned(cur, Parts)
  /\ MainMoves("repl")
  /\ UNCHANGED <<cur, next, copy_this, total_thread, part_begun>>

\* The parallel branch points the statics at this query and its table.
Fork ==
  /\ phase = "fork"
  /\ total_thread' = [total_thread EXCEPT ![Kind[cur]] = NP]
  /\ copy_this' = [copy_this EXCEPT ![Kind[cur]] = cur]
  /\ next' = 0
  /\ MainMoves("submit")
  /\ UNCHANGED <<cur, part_begun, scans, answer>>

\* futures[i] = worker.Submit(Sub, i)
SubmitPart ==
  /\ phase = "submit"
  /\ Submit(<<cur, next>>)
  /\ IF next = NP - 1 THEN phase' = "get" /\ next' = 0
                      ELSE phase' = "submit" /\ next' = next + 1
  /\ UNCHANGED <<cur, copy_this, total_thread, part_begun, scans, answer>>

\* MUTANT of GetPart: the answer is given after the first future.
GetFirstOnly ==
  /\ phase = "get"
  /\ future[<<cur, next>>] = "value"
  /\ answer' = [answer EXCEPT ![cur] = "result"]
  /\ MainMoves("repl")
  /\ UNCHANGED <<cur, next, copy_this, total_thread, part_begun, scans>>

\* futures[i].get() returns a value; after the last one execute() answers.
GetPart ==
  /\ phase = "get"
  /\ future[<<cur, next>>] = "value"
  /\ IF next = NP - 1
       THEN /\ answer' = [answer EXCEPT ![cur] = "result"]
            /\ MainMoves("repl")
            /\ UNCHANGED next
       ELSE /\ next' = next + 1
            /\ MainMoves("get")
            /\ UNCHANGED answer
  /\ UNCHANGED <<cur, copy_this, total_thread, part_begun, scans>>

\* MUTANT of Rethrow: the exception of a partition is ignored.
IgnoreException ==
  /\ phase = "get"
  /\ future[<<cur, next>>] = "exception"
  /\ IF next = NP - 1
       THEN /\ answer' = [answer EXCEPT ![cur] = "result"]
            /\ MainMoves("repl")
            /\ UNCHANGED next
       ELSE /\ next' = next + 1
            /\ MainMoves("get")
            /\ UNCHANGED answer
  /\ UNCHANGED <<cur, copy_this, total_thread, part_begun, scans>>

\* futures[i].get() rethrows: execute() answers with the error and returns,
\* leaving the tasks behind futures[i + 1] and on to themselves.
Rethrow ==
  /\ phase = "get"
  /\ future[<<cur, next>>] = "exception"
  /\ answer' = [answer EXCEPT ![cur] = "error"]
  /\ MainMoves("repl")
  /\ UNCHANGED <<cur, next, copy_this, total_thread, part_begun, scans>>

\* QUIT between two queries, and exit(-1) before or after pool_set.
Quit ==
  /\ phase = "repl"
  /\ Closed
  /\ UNCHANGED engine

\* The end of the input: pthread_exit ends the main thread and nothing else.
EndOfInput ==
  /\ phase = "repl" /\ cur = NQ
  /\ MainMoves("eof")
  /\ UNCHANGED <<cur, next, copy_this, total_thread, part_begun, scans, answer>>
-------------------------------------------------------------------------------
(* The body of a task, run by a worker: Sub_AddQuery and its kin. *)

TaskKind(w) == Kind[held[w][1]]

\* head and tail are computed from subtable_num, copy_table and total_thread.
TaskBegins(w) ==
  /\ wpc[w] = "run" /\ ~part_begun[w]
  /\ part_begun' = [part_begun EXCEPT ![w] = TRUE]
  /\ UNCHANGED <<vars, cur, phase, next, copy_this, total_thread, scans, answer>>

\* The query that copy_this of the task's class points to now.
Addressee(w) == copy_this[TaskKind(w)]

\* The rows are evaluated and changed through copy_this, whoever that is now.
TaskScans(w) ==
  /\ wpc[w] = "run" /\ part_begun[w] /\ Alive(Addressee(w))
  /\ part_begun' = [part_begun EXCEPT ![w] = FALSE]
  /\ LET p == held[w][2]
     IN IF <<Addressee(w), p>> \in Throws
          THEN TaskEnds(w, "exception") /\ UNCHANGED scans
          ELSE TaskEnds(w, "value") /\ scans' = Scanned(Addressee(w), {p})
  /\ UNCHANGED <<cur, phase, next, copy_this, total_thread, answer>>

\* Through a query that was destroyed the members and operands that are read are
\* freed memory: the task may end in any way ...
TaskStrays(w) ==
  /\ wpc[w] = "run" /\ part_begun[w] /\ ~Alive(Addressee(w))
  /\ part_begun' = [part_begun EXCEPT ![w] = FALSE]
  /\ \E o \in Outcomes : TaskEnds(w, o)
  /\ UNCHANGED <<cur, phase, next, copy_this, total_thread, scans, answer>>

\* ... or take the process with it: no thread moves any more.
TaskCrashes(w) ==
  /\ wpc[w] = "run" /\ part_begun[w] /\ ~Alive(Addressee(w))
  /\ phase' = "undefined"
  /\ UNCHANGED <<vars, cur, next, copy_this, total_thread, part_begun, scans, answer>>
-------------------------------------------------------------------------------
Main == BeginQuery \/ ScanAll \/ Fork \/ SubmitPart \/ GetPart \/ Rethrow

\* The process has not been stopped by undefined behaviour.
Up == phase # "undefined"

Worker(w) == Up /\ \/ WorkerMoves(w) /\ UNCHANGED engine
                   \/ TaskBegins(w)
                   \/ TaskScans(w)
                   \/ TaskStrays(w)
                   \/ TaskCrashes(w)

DestructorMoves == Up /\ Destructor /\ UNCHANGED engine

EngineNext ==
  \/ Main \/ Quit \/ EndOfInput
  \/ PoolSet /\ UNCHANGED engine
  \/ DestructorMoves
  \/ \E w \in Workers : Worker(w)
  \/ \E w \in Workers : Up /\ SpuriousWake(w) /\ UNCHANGED engine

\* The worker threads and a main thread that is not blocked keep running; the
\* input may end at any query, and QUIT need not come.  The C++ library may
\* wake sleepers spuriously, but not for ever: otherwise they could keep lockx
\* from main for ever.
EngineFairness ==
  /\ <>[][\A w \in Workers : ~SpuriousWake(w)]_allvars
  /\ \A w \in Workers : WF_allvars(Worker(w))
  /\ WF_allvars(ScanAll \/ Fork \/ SubmitPart \/ GetPart \/ Rethrow)
  /\ WF_allvars(DestructorMoves)

EngineSafeSpec == EngineInit /\ [][EngineNext]_allvars

EngineSpec == EngineSafeSpec /\ EngineFairness
-------------------------------------------------------------------------------
\* The types, and of the history: no partition is scanned twice for a query.
EngineTypeOK ==
  /\ TypeOK
  /\ cur \in 0 .. NQ
  /\ phase \in {"repl", "scan", "fork", "submit", "get", "eof"}
  /\ next \in Parts
  /\ copy_this \in [Kinds -> 0 .. NQ]
  /\ total_thread \in [Kinds -> Int]
  /\ part_begun \in [Workers -> BOOLEAN]
  /\ scans \in [Queries -> [Parts -> 0 .. 1]]
  /\ answer \in [Queries -> {"none", "result", "error"}]

\* The tasks somebody still has to run are those of the query main executes:
\* between two queries, and at the destructor, the pool has nothing to do.
NoTaskOutlivesQuery ==
  \A t \in Tasks : future[t] = "pending" => Alive(t[1])

\* A task in progress belongs to the query its kind's statics describe: main
\* does not write them under a reader.
StaticsBelongToTask ==
  \A w \in Workers : wpc[w] = "run" =>
    /\ copy_this[TaskKind(w)] = held[w][1]
    /\ total_thread[TaskKind(w)] = NP

\* The destructor pops the queue without lockx: no worker does so as well.
DrainIsAlone == mpc = "drain" => At(wpc, {"pop"}) = {}

\* A query is answered with its error if and only if evaluating it threw on
\* one of its own partitions, whatever other queries left in the pool.
AnswerIsOwn ==
  \A q \in Queries : answer[q] # "none" =>
    (answer[q] = "error" <=> \E p \in Parts : <<q, p>> \in Throws)

\* Every query main reads is answered, also when evaluating it throws, and
\* whatever is left in the pool; unless a task that was left behind goes through
\* a query that was destroyed and takes the process with it.
AnsweredUnlessUndefined ==
  \A q \in Queries : cur = q ~> answer[q] # "none" \/ phase = "undefined"

\* QUIT ends the process: the destructor comes back from join.
QuitReturns == mpc = "drain" ~> mpc = "gone"

\* The engine executes queries one by one, each partition once.
Serial == INSTANCE SerialQueries WITH executing <- Executing

ImplementsSerial == Serial!Spec
-------------------------------------------------------------------------------
(* The inductive invariant of the queries that do not throw, with the pool's. *)

MainOK == /\ cur \in 0 .. NQ /\ next \in Parts
          /\ phase \in {"repl", "scan", "fork", "submit", "get", "eof", "undefined"}
          /\ Executing => cur \in Queries
          /\ mpc # "open" => phase \in {"repl", "undefined"}

\* The tasks of the query are submitted in order, and gathered in order.
FuturesOK ==
  /\ \A t \in Tasks :
       /\ future[t] \in {"none", "pending", "value"}
       /\ future[t] = "pending" => t[1] = cur /\ phase \in {"submit", "get"}
       /\ t[1] > cur => future[t] = "none"
  /\ \A p \in Parts :
       /\ phase \in {"scan", "fork"} => future[<<cur, p>>] = "none"
       /\ phase = "submit" => (future[<<cur, p>>] = "none" <=> p >= next)
       /\ phase = "get" => future[<<cur, p>>] # "none"
       /\ phase = "get" /\ p < next => future[<<cur, p>>] = "value"

StaticsOK == phase \in {"submit", "get"} =>
               copy_this[Kind[cur]] = cur /\ total_thread[Kind[cur]] = NP

\* A partition of the query is scanned once its task is done; of the queries
\* before it each was scanned once.
ScansOK ==
  \A q \in Queries, p \in Parts :
    scans[q][p] = IF q > cur \/ (Alive(q) /\ future[<<q, p>>] # "value") THEN 0 ELSE 1

\* The worker that is about to take a task finds one.
TaskAtPop == \A w \in Workers : wpc[w] = "pop" => Task_assemble # <<>>

EngineInv == /\ EngineTypeOK /\ MainOK /\ FuturesOK /\ StaticsOK /\ ScansOK /\ TaskAtPop
-------------------------------------------------------------------------------
(* The inductive invariant of the answers, whatever throws.  Tasks of queries *)
(* that threw may be anywhere in the pool; they end futures nobody reads.     *)

\* Of the tasks of the query main executes: those still to be submitted are in
\* no queue and no worker's hands, and a future tells whether its task threw.
OwnFutures ==
  \A t \in Tasks :
    /\ t[1] > cur \/ (t[1] = cur /\ phase \in {"scan", "fork"}) => future[t] = "none"
    /\ t[1] = cur /\ phase \in {"submit", "get"} =>
         /\ future[t] = "value" => t \notin Throws
         /\ future[t] = "exception" => t \in Throws
         /\ phase = "submit" /\ t[2] >= next => future[t] = "none"
         /\ phase = "get" /\ t[2] < next => future[t] = "value"

CopyIsOwn == phase \in {"submit", "get"} => copy_this[Kind[cur]] = cur

AnswerInv == /\ MainOK /\ OwnFutures /\ CopyIsOwn /\ AnswerIsOwn
             /\ copy_this \in [Kinds -> 0 .. NQ]
             /\ answer \in [Queries -> {"none", "result", "error"}]
===============================================================================
