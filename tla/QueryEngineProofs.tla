--------------------------- MODULE QueryEngineProofs ---------------------------
(***************************************************************************)
(* Proofs about QueryEngine, for every input, number of partitions and set *)
(* of workers: the engine uses the pool as the pool allows, and, if no     *)
(* query throws, no task outlives its query or reads another's statics,    *)
(* and the engine implements SerialQueries.                                *)
(***************************************************************************)
EXTENDS QueryEngine, ThreadPoolProofs

\* What a worker does between two tasks leaves the futures alone.
LEMMA WorkerMovesFutures ==
  ASSUME NEW w \in Workers, WorkerMoves(w)
  PROVE  UNCHANGED <<future, mpc>>
  BY DEF WorkerMoves, LoopTest, GetTask, SeeEmpty, SeeDone, SeeTask, Park, Pop, PopEmpty,
         CountBusy, CountIdle

-------------------------------------------------------------------------------
(* The engine's steps as the pool sees them. *)

LEMMA MainInit == EngineInit => MainOK
  <1>1. 0 \in Parts BY EngineAssumption DEF Parts
  <1> QED BY <1>1, EngineAssumption DEF EngineInit, Init, MainOK, Executing, Unread

LEMMA MainStep == MainOK /\ [EngineNext]_allvars => MainOK' /\ [Next]_vars
  <1> SUFFICES ASSUME MainOK, [EngineNext]_allvars PROVE MainOK' /\ [Next]_vars
    OBVIOUS
  <1> USE EngineAssumption DEF MainOK, Executing, Queries, Parts
  <1>1. CASE BeginQuery
    BY <1>1 DEF BeginQuery, MainMoves, vars
  <1>2. CASE ScanAll \/ Rethrow \/ Fork \/ GetPart \/ EndOfInput
    BY <1>2 DEF ScanAll, Rethrow, Fork, GetPart, EndOfInput, MainMoves, vars
  <1>3. CASE SubmitPart
    <2>1. <<cur, next>> \in Tasks /\ Submit(<<cur, next>>) BY <1>3 DEF SubmitPart
    <2>2. MainOK' BY <1>3, <2>1 DEF SubmitPart, Submit
    <2> QED BY <2>1, <2>2 DEF Next
  <1>4. CASE Quit
    BY <1>4 DEF Quit, Closed, engine, Next
  <1>5. CASE (PoolSet \/ Destructor) /\ UNCHANGED engine
    <2>1. mpc' = "open" \/ mpc # "open"
      BY <1>5 DEF PoolSet, Destructor, Drain, Drained, NotifyAll, Join
    <2> QED BY <1>5, <2>1 DEF engine, Next
  <1>6. ASSUME NEW w \in Workers, Worker(w) PROVE MainOK' /\ [Next]_vars
    <2>1. CASE WorkerMoves(w) /\ UNCHANGED engine
      BY <2>1, WorkerMovesFutures DEF engine, Next
    <2>2. CASE TaskBegins(w)
      BY <2>2 DEF TaskBegins, vars
    <2>3. CASE TaskScans(w) \/ TaskStrays(w)
      <3>1. \E o \in Outcomes : TaskEnds(w, o)
        BY <2>3 DEF TaskScans, TaskStrays, Outcomes
      <3>2. mpc' = mpc BY <3>1 DEF TaskEnds
      <3> QED BY <2>3, <3>1, <3>2 DEF TaskScans, TaskStrays, Next
    <2>4. CASE TaskCrashes(w)
      BY <2>4 DEF TaskCrashes, vars
    <2> QED BY <1>6, <2>1, <2>2, <2>3, <2>4 DEF Worker
  <1>7. ASSUME NEW w \in Workers, SpuriousWake(w), UNCHANGED engine
        PROVE  MainOK' /\ [Next]_vars
    BY <1>7 DEF SpuriousWake, engine, Next
  <1>8. CASE UNCHANGED allvars
    BY <1>8 DEF allvars, vars, engine
  <1> QED BY <1>1, <1>2, <1>3, <1>4, <1>5, <1>6, <1>7, <1>8
          DEF EngineNext, DestructorMoves, Main

\* Whatever the queries do and throw, main calls the pool as its owner may: what
\* is proved of the pool holds in the program.
THEOREM EngineUsesPool == EngineSafeSpec => SafeSpec
  <1>1. EngineInit => Init /\ MainOK BY MainInit DEF EngineInit
  <1> QED BY <1>1, MainStep, PTL DEF EngineSafeSpec, SafeSpec
-------------------------------------------------------------------------------
(* The invariant of the engine when no query throws. *)

LEMMA EngineInvInit == EngineInit => EngineInv
  <1> SUFFICES ASSUME EngineInit PROVE EngineInv
    OBVIOUS
  <1> USE EngineAssumption
  <1>1. MainOK BY MainInit
  <1>2. TypeOK BY TypeInit DEF EngineInit
  <1>3. EngineTypeOK
    BY <1>1, <1>2 DEF EngineInit, EngineTypeOK, MainOK, Unread
  <1>4. \A t \in Tasks : t[1] \in Queries
    OBVIOUS
  <1>5. FuturesOK
    BY <1>4 DEF EngineInit, Init, FuturesOK, Unread
  <1>6. StaticsOK /\ TaskAtPop
    BY DEF EngineInit, Init, StaticsOK, TaskAtPop
  <1>7. ScansOK
    BY DEF EngineInit, ScansOK, Unread, Queries
  <1> QED BY <1>1, <1>3, <1>5, <1>6, <1>7 DEF EngineInv

\* A step of the pool between two tasks.  In the destructor the queue is empty.
LEMMA NoTaskAtDrain ==
  ASSUME IndInv, EngineInv, mpc # "open"
  PROVE  Task_assemble = <<>>
  <1>1. \A t \in Tasks : future[t] # "pending"
    BY DEF EngineInv, MainOK, FuturesOK
  <1>2. Task_assemble \in Seq(Tasks) BY DEF IndInv, TypeOK
  <1>3. \A i \in DOMAIN Task_assemble : FALSE
    BY <1>1, <1>2 DEF IndInv, OnePlace
  <1> QED BY <1>2, <1>3

LEMMA TaskAtPopStep ==
  ASSUME IndInv, EngineInv, [Next]_vars
  PROVE  TaskAtPop'
  <1> SUFFICES ASSUME NEW v \in Workers, wpc'[v] = "pop" PROVE Task_assemble' # <<>>
    BY DEF TaskAtPop
  <1>1. /\ TypeOK /\ MutexHeld /\ Phases /\ Free \notin Workers
        /\ \A w \in Workers : wpc[w] = "pop" => Task_assemble # <<>>
    BY PoolAssumption DEF IndInv, EngineInv, TaskAtPop
  <1> USE DEF TypeOK, MutexHeld, InCritical
  <1>2. ASSUME NEW w \in Workers, LoopTest(w) \/ SeeEmpty(w) \/ SeeDone(w) \/ Park(w)
                 \/ PopEmpty(w) \/ CountBusy(w) \/ CountIdle(w) \/ SpuriousWake(w)
                 \/ \E o \in Outcomes : TaskEnds(w, o)
        PROVE  Task_assemble' # <<>>
    BY <1>1, <1>2 DEF LoopTest, SeeEmpty, SeeDone, Park, PopEmpty, CountBusy, CountIdle,
         SpuriousWake, TaskEnds, Goto
  <1>3. ASSUME NEW w \in Workers, SeeTask(w) PROVE Task_assemble' # <<>>
    BY <1>3 DEF SeeTask
  <1>4. ASSUME NEW w \in Workers, Pop(w) PROVE Task_assemble' # <<>>
    <2>1. lockx = w BY <1>1, <1>4 DEF Pop
    <2>2. wpc'[w] = "got" /\ (v # w => wpc[v] = "pop")
      BY <1>1, <1>4, PopMoves
    <2>3. v # w /\ lockx = v BY <1>1, <2>2
    <2> QED BY <2>1, <2>3
  <1>5. ASSUME NEW t \in Tasks, Submit(t) PROVE Task_assemble' # <<>>
    BY <1>1, <1>5, AppendProperties DEF Submit
  <1>6. CASE Drain
    <2>1. Task_assemble = <<>> BY <1>6, NoTaskAtDrain DEF Drain
    <2> QED BY <1>6, <2>1 DEF Drain
  <1>7. CASE PoolSet \/ Closed \/ Drained \/ NotifyAll \/ Join
    BY <1>1, <1>7 DEF PoolSet, Closed, Drained, NotifyAll, Join
  <1>8. CASE UNCHANGED vars
    BY <1>1, <1>8 DEF vars
  <1> QED BY <1>2, <1>3, <1>4, <1>5, <1>6, <1>7, <1>8
          DEF Next, WorkerMoves, GetTask, Destructor

\* Steps that leave main, the futures and the counts of scans alone.
LEMMA Unrelated ==
  ASSUME EngineInv, UNCHANGED <<cur, phase, next, copy_this, total_thread, scans, answer>>,
         UNCHANGED future, TypeOK', MainOK', TaskAtPop',
         part_begun' \in [Workers -> BOOLEAN]
  PROVE  EngineInv'
  <1>1. EngineTypeOK' BY DEF EngineInv, EngineTypeOK
  <1>2. FuturesOK' /\ StaticsOK' /\ ScansOK'
    BY DEF EngineInv, FuturesOK, StaticsOK, ScansOK, Alive, Executing
  <1> QED BY <1>1, <1>2 DEF EngineInv

\* The tasks of a query, and a query's scans after one more.
LEMMA TaskPairs ==
  /\ \A q \in Queries, p \in Parts :
       <<q, p>> \in Tasks /\ <<q, p>>[1] = q /\ <<q, p>>[2] = p
  /\ \A t \in Tasks : t = <<t[1], t[2]>> /\ t[1] \in Queries /\ t[2] \in Parts
  BY EngineAssumption

LEMMA ScannedOnce ==
  ASSUME EngineTypeOK, NEW q \in Queries, NEW S \in SUBSET Parts, \A p \in S : scans[q][p] = 0
  PROVE  /\ Scanned(q, S) \in [Queries -> [Parts -> 0 .. 1]]
         /\ \A r \in Queries, p \in Parts :
              Scanned(q, S)[r][p] = IF r = q /\ p \in S THEN 1 ELSE scans[r][p]
  <1> DEFINE f == [p \in Parts |-> scans[q][p] + IF p \in S THEN 1 ELSE 0]
  <1>1. scans \in [Queries -> [Parts -> 0 .. 1]] BY DEF EngineTypeOK
  <1>2. \A p \in Parts : f[p] = IF p \in S THEN 1 ELSE scans[q][p]
    BY <1>1
  <1>3. f \in [Parts -> 0 .. 1]
    <2>1. \A p \in Parts : scans[q][p] \in 0 .. 1 BY <1>1
    <2> QED BY <1>2, <2>1
  <1>4. Scanned(q, S) = [scans EXCEPT ![q] = f] BY DEF Scanned
  <1> HIDE DEF f
  <1> QED BY <1>1, <1>2, <1>3, <1>4

LEMMA BeginInv ==
  ASSUME EngineInv, BeginQuery, TypeOK', MainOK', TaskAtPop'
  PROVE  EngineInv'
  <1> USE EngineAssumption
  <1>1. /\ cur' = cur + 1 /\ cur \in Nat /\ cur + 1 \in Queries /\ phase = "repl"
        /\ phase' \in {"scan", "fork"} /\ UNCHANGED <<future, scans>>
    BY DEF BeginQuery, MainMoves, EngineInv, MainOK, Queries, vars
  <1>2. EngineTypeOK'
    <2>1. Thread_count \in Int BY DEF Thread_count, EngineInv, EngineTypeOK, TypeOK
    <2>2. total_thread' \in [Kinds -> Int]
      BY <2>1 DEF BeginQuery, EngineInv, EngineTypeOK
    <2> QED BY <1>1, <2>2 DEF BeginQuery, MainOK, EngineInv, EngineTypeOK
  <1>3. \A t \in Tasks : future[t] # "pending" /\ (t[1] > cur => future[t] = "none")
    BY <1>1 DEF EngineInv, FuturesOK
  <1>4. FuturesOK'
    <2>1. \A p \in Parts : future[<<cur + 1, p>>] = "none"
      BY <1>1, <1>3, TaskPairs
    <2>2. \A t \in Tasks : t[1] \in Nat /\ future[t] \in {"none", "pending", "value"}
      BY TaskPairs DEF Queries, EngineInv, FuturesOK
    <2> QED BY <1>1, <1>3, <2>1, <2>2 DEF FuturesOK
  <1>5. StaticsOK' BY <1>1 DEF StaticsOK
  <1>6. ScansOK'
    <2> SUFFICES ASSUME NEW q \in Queries, NEW p \in Parts
                 PROVE  scans[q][p] = IF q > cur' \/ (Alive(q)' /\ future[<<q, p>>] # "value")
                                        THEN 0 ELSE 1
      BY <1>1 DEF ScansOK
    <2>1. scans[q][p] = IF q > cur THEN 0 ELSE 1
      BY <1>1 DEF EngineInv, ScansOK, Alive, Executing
    <2>2. q > cur => future[<<q, p>>] = "none" BY <1>3, TaskPairs
    <2>3. Alive(q)' <=> q = cur + 1 BY <1>1 DEF Alive, Executing
    <2> QED BY <1>1, <2>1, <2>2, <2>3 DEF Queries
  <1> QED BY <1>2, <1>4, <1>5, <1>6 DEF EngineInv

LEMMA ScanAllInv ==
  ASSUME EngineInv, ScanAll, Throws = {}, TypeOK', MainOK', TaskAtPop'
  PROVE  EngineInv'
  <1> USE EngineAssumption
  <1>1. /\ phase = "scan" /\ phase' = "repl" /\ cur \in Queries
        /\ UNCHANGED <<cur, next, copy_this, total_thread, part_begun, future>>
        /\ scans' = Scanned(cur, Parts) /\ answer' = [answer EXCEPT ![cur] = "result"]
    BY DEF ScanAll, MainMoves, EngineInv, MainOK, Executing, vars
  <1>2. \A p \in Parts : scans[cur][p] = 0
    BY <1>1 DEF EngineInv, FuturesOK, ScansOK, Alive, Executing
  <1>3. /\ scans' \in [Queries -> [Parts -> 0 .. 1]]
        /\ \A q \in Queries, p \in Parts : scans'[q][p] = IF q = cur THEN 1 ELSE scans[q][p]
    BY <1>1, <1>2, ScannedOnce DEF EngineInv
  <1>4. EngineTypeOK' BY <1>1, <1>3 DEF EngineInv, EngineTypeOK
  <1>5. FuturesOK' /\ StaticsOK'
    BY <1>1 DEF EngineInv, FuturesOK, StaticsOK
  <1>6. ScansOK'
    <2> SUFFICES ASSUME NEW q \in Queries, NEW p \in Parts
                 PROVE  scans'[q][p] = IF q > cur THEN 0 ELSE 1
      BY <1>1 DEF ScansOK, Alive, Executing
    <2>1. q # cur => scans[q][p] = IF q > cur THEN 0 ELSE 1
      BY DEF EngineInv, ScansOK, Alive
    <2> QED BY <1>1, <1>3, <2>1 DEF Queries
  <1> QED BY <1>4, <1>5, <1>6 DEF EngineInv

LEMMA ForkInv ==
  ASSUME EngineInv, Fork, TypeOK', MainOK', TaskAtPop'
  PROVE  EngineInv'
  <1> USE EngineAssumption
  <1>1. /\ phase = "fork" /\ phase' = "submit" /\ next' = 0 /\ cur \in Queries
        /\ UNCHANGED <<cur, scans, part_begun, answer, future>>
    BY DEF Fork, MainMoves, EngineInv, MainOK, Executing, vars
  <1>2. EngineTypeOK' /\ StaticsOK'
    BY <1>1 DEF Fork, EngineInv, EngineTypeOK, StaticsOK, Kinds, Queries, Parts
  <1>3. FuturesOK'
    BY <1>1 DEF EngineInv, FuturesOK, Parts
  <1>4. ScansOK'
    BY <1>1 DEF EngineInv, ScansOK, Alive, Executing
  <1> QED BY <1>2, <1>3, <1>4 DEF EngineInv

LEMMA SubmitFutures ==
  ASSUME future \in [Tasks -> FutureState], NEW t \in Tasks, Submit(t)
  PROVE  \A s \in Tasks : future'[s] = IF s = t THEN "pending" ELSE future[s]
  BY DEF Submit

LEMMA SubmitInv ==
  ASSUME EngineInv, SubmitPart, TypeOK', MainOK', TaskAtPop'
  PROVE  EngineInv'
  <1> USE EngineAssumption
  <1>1. /\ phase = "submit" /\ cur \in Queries /\ next \in Parts
        /\ UNCHANGED <<cur, copy_this, total_thread, part_begun, scans, answer>>
        /\ \/ next = NP - 1 /\ phase' = "get" /\ next' = 0
           \/ next # NP - 1 /\ phase' = "submit" /\ next' = next + 1
    BY DEF SubmitPart, EngineInv, MainOK, Executing
  <1>2. /\ <<cur, next>> \in Tasks /\ future[<<cur, next>>] = "none"
        /\ future' = [future EXCEPT ![<<cur, next>>] = "pending"]
    BY <1>1, TaskPairs DEF SubmitPart, Submit
  <1>3. \A t \in Tasks : future'[t] = IF t = <<cur, next>> THEN "pending" ELSE future[t]
    BY <1>2 DEF EngineInv, EngineTypeOK, TypeOK
  <1>4. EngineTypeOK' /\ StaticsOK'
    BY <1>1 DEF EngineInv, EngineTypeOK, StaticsOK, MainOK
  <1>5. FuturesOK'
    <2>1. \A t \in Tasks : /\ future'[t] \in {"none", "pending", "value"}
                           /\ future'[t] = "pending" => t[1] = cur
                           /\ t[1] > cur => future'[t] = "none"
      BY <1>1, <1>3, TaskPairs DEF EngineInv, FuturesOK, Queries
    <2>2. \A p \in Parts : future'[<<cur, p>>] = "none" <=> p > next
      <3>1. \A p \in Parts : future[<<cur, p>>] = "none" <=> p >= next
        BY <1>1 DEF EngineInv, FuturesOK
      <3>2. \A p \in Parts : <<cur, p>> \in Tasks /\ (<<cur, p>> = <<cur, next>> <=> p = next)
        BY <1>1, TaskPairs
      <3> QED BY <1>1, <1>3, <3>1, <3>2 DEF Parts
    <2> QED BY <1>1, <2>1, <2>2 DEF FuturesOK, Parts
  <1>6. ScansOK'
    <2>1. \A q \in Queries, p \in Parts : future'[<<q, p>>] = "value" <=> future[<<q, p>>] = "value"
      <3> SUFFICES ASSUME NEW q \in Queries, NEW p \in Parts
                   PROVE  future'[<<q, p>>] = "value" <=> future[<<q, p>>] = "value"
        OBVIOUS
      <3>1. <<q, p>> \in Tasks BY TaskPairs
      <3>2. CASE <<q, p>> = <<cur, next>> BY <1>2, <1>3, <3>1, <3>2
      <3>3. CASE <<q, p>> # <<cur, next>>
        <4>1. future'[<<q, p>>] = future[<<q, p>>] BY <1>3, <3>1, <3>3
        <4> QED BY <4>1
      <3> QED BY <3>2, <3>3
    <2> QED BY <1>1, <2>1 DEF EngineInv, ScansOK, Alive, Executing
  <1> QED BY <1>4, <1>5, <1>6 DEF EngineInv

LEMMA GetInv ==
  ASSUME EngineInv, GetPart, TypeOK', MainOK', TaskAtPop'
  PROVE  EngineInv'
  <1> USE EngineAssumption
  <1>1. /\ phase = "get" /\ cur \in Queries /\ next \in Parts /\ future[<<cur, next>>] = "value"
        /\ UNCHANGED <<cur, copy_this, total_thread, part_begun, scans, future>>
        /\ \/ next = NP - 1 /\ phase' = "repl" /\ answer' = [answer EXCEPT ![cur] = "result"]
           \/ next # NP - 1 /\ phase' = "get" /\ next' = next + 1 /\ answer' = answer
    BY DEF GetPart, MainMoves, EngineInv, MainOK, Executing, vars
  <1>2. EngineTypeOK' /\ StaticsOK'
    BY <1>1 DEF EngineInv, EngineTypeOK, StaticsOK, MainOK
  <1>3. \A p \in Parts : p <= next => future[<<cur, p>>] = "value"
    BY <1>1 DEF EngineInv, FuturesOK, Parts
  <1>4. CASE next # NP - 1
    <2>1. FuturesOK'
      BY <1>1, <1>3, <1>4 DEF EngineInv, FuturesOK, Parts
    <2>2. ScansOK'
      BY <1>1, <1>4 DEF EngineInv, ScansOK, Alive, Executing
    <2> QED BY <1>2, <2>1, <2>2 DEF EngineInv
  <1>5. CASE next = NP - 1
    <2>1. \A p \in Parts : future[<<cur, p>>] = "value"
      BY <1>3, <1>5 DEF Parts
    <2>2. \A t \in Tasks : t[1] = cur => future[t] = "value"
      BY <2>1, TaskPairs
    <2>3. FuturesOK'
      BY <1>1, <1>5, <2>2 DEF EngineInv, FuturesOK
    <2>4. ScansOK'
      <3> SUFFICES ASSUME NEW q \in Queries, NEW p \in Parts
                   PROVE  scans[q][p] = IF q > cur THEN 0 ELSE 1
        BY <1>1, <1>5 DEF ScansOK, Alive, Executing
      <3>1. scans[q][p] = IF q > cur \/ (Alive(q) /\ future[<<q, p>>] # "value") THEN 0 ELSE 1
        BY DEF EngineInv, ScansOK
      <3>2. Alive(q) => future[<<q, p>>] = "value"
        BY <2>1 DEF Alive
      <3> QED BY <3>1, <3>2
    <2> QED BY <1>2, <2>3, <2>4 DEF EngineInv
  <1> QED BY <1>4, <1>5

\* A task in progress is one of the query that main executes.
LEMMA RunningTask ==
  ASSUME IndInv, EngineInv, NEW w \in Workers, wpc[w] = "run"
  PROVE  /\ held[w] \in Tasks /\ future[held[w]] = "pending" /\ held[w] = <<cur, held[w][2]>>
         /\ held[w][2] \in Parts /\ cur \in Queries /\ phase \in {"submit", "get"}
         /\ copy_this[Kind[cur]] = cur /\ total_thread[Kind[cur]] = NP
  <1>1. held[w] \in Tasks
    BY DEF IndInv, TypeOK, Phases
  <1>2. future[held[w]] = "pending"
    BY <1>1 DEF IndInv, OnePlace
  <1>3. held[w][1] = cur /\ phase \in {"submit", "get"}
    BY <1>1, <1>2 DEF EngineInv, FuturesOK
  <1> QED BY <1>1, <1>2, <1>3, TaskPairs DEF EngineInv, StaticsOK

\* While no query throws, no task goes through a query that was destroyed.
LEMMA NoneAstray ==
  ASSUME IndInv, EngineInv, NEW w \in Workers
  PROVE  ~TaskStrays(w) /\ ~TaskCrashes(w)
  <1> SUFFICES ASSUME wpc[w] = "run" PROVE Alive(Addressee(w))
    BY DEF TaskStrays, TaskCrashes
  <1>1. held[w] = <<cur, held[w][2]>> /\ phase \in {"submit", "get"}
        /\ copy_this[Kind[cur]] = cur
    BY RunningTask
  <1>2. TaskKind(w) = Kind[cur]
    <2>1. held[w][1] = cur BY <1>1
    <2> QED BY <2>1 DEF TaskKind
  <1> QED BY <1>1, <1>2 DEF Addressee, Alive, Executing

LEMMA TaskScansInv ==
  ASSUME IndInv, EngineInv, NEW w \in Workers, TaskScans(w), Throws = {},
         TypeOK', MainOK', TaskAtPop'
  PROVE  EngineInv'
  <1> USE EngineAssumption
  <1> DEFINE p == held[w][2]
  <1>1. /\ held[w] = <<cur, p>> /\ p \in Parts /\ cur \in Queries /\ <<cur, p>> \in Tasks
        /\ future[<<cur, p>>] = "pending" /\ copy_this[TaskKind(w)] = cur
        /\ phase \in {"submit", "get"} /\ held[w][1] = cur
    BY RunningTask, TaskPairs DEF TaskScans, TaskKind
  <1>2. /\ TaskEnds(w, "value") /\ scans' = Scanned(cur, {p})
        /\ part_begun' = [part_begun EXCEPT ![w] = FALSE]
        /\ UNCHANGED <<cur, phase, next, copy_this, total_thread, answer>>
    BY <1>1 DEF TaskScans, Addressee, Alive, Executing
  <1> HIDE DEF p
  <1>3. \A t \in Tasks : future'[t] = IF t = <<cur, p>> THEN "value" ELSE future[t]
    BY <1>1, <1>2 DEF TaskEnds, EngineInv, EngineTypeOK, TypeOK
  <1>4. scans[cur][p] = 0
    BY <1>1 DEF EngineInv, ScansOK, Alive, Executing
  <1>5. /\ scans' \in [Queries -> [Parts -> 0 .. 1]]
        /\ \A q \in Queries, r \in Parts :
             scans'[q][r] = IF q = cur /\ r = p THEN 1 ELSE scans[q][r]
    BY <1>1, <1>2, <1>4, ScannedOnce, SMTT(30) DEF EngineInv
  <1>6. EngineTypeOK' /\ StaticsOK'
    BY <1>2, <1>5 DEF EngineInv, EngineTypeOK, StaticsOK
  <1>7. FuturesOK'
    <2>1. \A t \in Tasks :
            /\ future'[t] \in {"none", "pending", "value"}
            /\ future'[t] = "pending" => t[1] = cur /\ phase \in {"submit", "get"}
            /\ t[1] > cur => future'[t] = "none"
      BY <1>1, <1>3, TaskPairs DEF EngineInv, FuturesOK, Queries
    <2>2. \A r \in Parts :
            /\ future'[<<cur, r>>] = "none" <=> future[<<cur, r>>] = "none"
            /\ future[<<cur, r>>] = "value" => future'[<<cur, r>>] = "value"
      <3> SUFFICES ASSUME NEW r \in Parts
                   PROVE  /\ future'[<<cur, r>>] = "none" <=> future[<<cur, r>>] = "none"
                          /\ future[<<cur, r>>] = "value" => future'[<<cur, r>>] = "value"
        OBVIOUS
      <3>1. <<cur, r>> \in Tasks BY <1>1, TaskPairs
      <3>2. CASE <<cur, r>> = <<cur, p>> BY <1>1, <1>3, <3>1, <3>2
      <3>3. CASE <<cur, r>> # <<cur, p>>
        <4>1. future'[<<cur, r>>] = future[<<cur, r>>] BY <1>3, <3>1, <3>3
        <4> QED BY <4>1
      <3> QED BY <3>2, <3>3
    <2> QED BY <1>1, <1>2, <2>1, <2>2 DEF EngineInv, FuturesOK
  <1>8. ScansOK'
    <2> SUFFICES ASSUME NEW q \in Queries, NEW r \in Parts
                 PROVE  scans'[q][r] = IF q > cur \/ (Alive(q) /\ future'[<<q, r>>] # "value")
                                         THEN 0 ELSE 1
      BY <1>2 DEF ScansOK, Alive, Executing
    <2>1. scans[q][r] = IF q > cur \/ (Alive(q) /\ future[<<q, r>>] # "value") THEN 0 ELSE 1
      BY DEF EngineInv, ScansOK
    <2>2. <<q, r>> \in Tasks /\ (<<q, r>> = <<cur, p>> <=> q = cur /\ r = p)
      BY <1>1, TaskPairs
    <2>3. CASE q = cur /\ r = p
      BY <1>1, <1>3, <1>5, <2>2, <2>3 DEF Queries
    <2>4. CASE ~(q = cur /\ r = p)
      <3>1. future'[<<q, r>>] = future[<<q, r>>] /\ scans'[q][r] = scans[q][r]
        BY <1>3, <1>5, <2>2, <2>4
      <3> QED BY <2>1, <3>1
    <2> QED BY <2>3, <2>4
  <1> QED BY <1>6, <1>7, <1>8 DEF EngineInv

LEMMA EngineInvStep ==
  ASSUME Throws = {}, IndInv, EngineInv, [EngineNext]_allvars
  PROVE  IndInv' /\ EngineInv'
  <1>1. MainOK' /\ [Next]_vars BY MainStep DEF EngineInv
  <1>2. IndInv' BY <1>1, IndStep
  <1>3. TypeOK' /\ TaskAtPop' BY <1>1, <1>2, TaskAtPopStep DEF IndInv
  <1> SUFFICES EngineInv'
    BY <1>2
  <1>4. part_begun \in [Workers -> BOOLEAN] BY DEF EngineInv, EngineTypeOK
  <1>5. ASSUME UNCHANGED engine, UNCHANGED future PROVE EngineInv'
    BY <1>1, <1>3, <1>4, <1>5, Unrelated DEF engine
  <1>6. CASE BeginQuery BY <1>1, <1>3, <1>6, BeginInv
  <1>7. CASE ScanAll BY <1>1, <1>3, <1>7, ScanAllInv
  <1>8. CASE Fork BY <1>1, <1>3, <1>8, ForkInv
  <1>9. CASE SubmitPart BY <1>1, <1>3, <1>9, SubmitInv
  <1>10. CASE GetPart BY <1>1, <1>3, <1>10, GetInv
  <1>11. CASE Rethrow
    <2>1. next \in Parts /\ cur \in Queries BY <1>11 DEF Rethrow, EngineInv, MainOK, Executing
    <2> QED BY <1>11, <2>1, TaskPairs DEF Rethrow, EngineInv, FuturesOK
  <1>12. CASE Quit
    BY <1>5, <1>12 DEF Quit, Closed
  <1>13. CASE EndOfInput
    <2>1. /\ phase = "repl" /\ phase' = "eof" /\ UNCHANGED vars
          /\ UNCHANGED <<cur, next, copy_this, total_thread, part_begun, scans, answer>>
      BY <1>13 DEF EndOfInput, MainMoves
    <2>2. EngineTypeOK' BY <1>3, <2>1 DEF EngineInv, EngineTypeOK
    <2>3. FuturesOK' /\ StaticsOK' BY <2>1 DEF EngineInv, FuturesOK, StaticsOK, vars
    <2>4. ScansOK' BY <2>1 DEF EngineInv, ScansOK, Alive, Executing, vars
    <2> QED BY <1>1, <1>3, <2>2, <2>3, <2>4 DEF EngineInv
  <1>14. CASE PoolSet /\ UNCHANGED engine
    BY <1>5, <1>14 DEF PoolSet
  <1>15. CASE Destructor /\ UNCHANGED engine
    <2>1. CASE Drain
      BY <2>1, NoTaskAtDrain DEF Drain
    <2>2. CASE Drained \/ NotifyAll \/ Join
      BY <1>5, <1>15, <2>2 DEF Drained, NotifyAll, Join
    <2> QED BY <1>15, <2>1, <2>2 DEF Destructor
  <1>16. ASSUME NEW w \in Workers, Worker(w) PROVE EngineInv'
    <2>1. CASE WorkerMoves(w) /\ UNCHANGED engine
      BY <1>5, <2>1, WorkerMovesFutures
    <2>2. CASE TaskBegins(w)
      <3>1. part_begun' \in [Workers -> BOOLEAN] BY <1>4, <2>2 DEF TaskBegins
      <3> QED BY <1>1, <1>3, <2>2, <3>1, Unrelated DEF TaskBegins, vars
    <2>3. CASE TaskScans(w)
      BY <1>1, <1>3, <2>3, TaskScansInv
    <2>4. ~TaskStrays(w) /\ ~TaskCrashes(w)
      BY NoneAstray
    <2> QED BY <1>16, <2>1, <2>2, <2>3, <2>4 DEF Worker
  <1>17. ASSUME NEW w \in Workers, SpuriousWake(w) /\ UNCHANGED engine PROVE EngineInv'
    BY <1>5, <1>17 DEF SpuriousWake
  <1>18. CASE UNCHANGED allvars
    BY <1>5, <1>18 DEF allvars, vars
  <1> QED
    BY <1>6, <1>7, <1>8, <1>9, <1>10, <1>11, <1>12, <1>13, <1>14, <1>15, <1>16, <1>17, <1>18
       DEF EngineNext, DestructorMoves, Main

\* If no query throws, the engine's invariant and the pool's hold together.
THEOREM EngineInvariant == Throws = {} => (EngineSafeSpec => [](IndInv /\ EngineInv))
  <1> SUFFICES ASSUME Throws = {} PROVE EngineSafeSpec => [](IndInv /\ EngineInv)
    OBVIOUS
  <1>1. EngineInit => IndInv /\ EngineInv
    BY IndInit, EngineInvInit DEF EngineInit
  <1>2. IndInv /\ EngineInv /\ [EngineNext]_allvars => (IndInv /\ EngineInv)'
    BY EngineInvStep
  <1> QED BY <1>1, <1>2, PTL DEF EngineSafeSpec

\* Main's variables have their types, and no partition is scanned twice.
THEOREM EngineTypes == Throws = {} => (EngineSafeSpec => []EngineTypeOK)
  <1>1. IndInv /\ EngineInv => EngineTypeOK BY DEF EngineInv
  <1> QED BY <1>1, EngineInvariant, PTL

\* No task is left in the pool when main reads the next query or quits.
THEOREM NoTaskOutlives == Throws = {} => (EngineSafeSpec => []NoTaskOutlivesQuery)
  <1>1. IndInv /\ EngineInv => NoTaskOutlivesQuery
    BY DEF EngineInv, FuturesOK, NoTaskOutlivesQuery, Alive, Executing
  <1> QED BY <1>1, EngineInvariant, PTL

\* The tasks need no lock on the statics: those they read are their query's.
THEOREM StaticsAreOwn == Throws = {} => (EngineSafeSpec => []StaticsBelongToTask)
  <1>1. IndInv /\ EngineInv => StaticsBelongToTask
    BY RunningTask DEF StaticsBelongToTask, TaskKind
  <1> QED BY <1>1, EngineInvariant, PTL

\* The destructor does not meet a worker at the queue it empties without lockx.
THEOREM DrainsAlone == Throws = {} => (EngineSafeSpec => []DrainIsAlone)
  <1>1. IndInv /\ EngineInv => DrainIsAlone
    BY NoTaskAtDrain DEF EngineInv, TaskAtPop, DrainIsAlone, At
  <1> QED BY <1>1, EngineInvariant, PTL
-------------------------------------------------------------------------------
(* The engine implements SerialQueries. *)

LEMMA ScanIsSerial ==
  ASSUME EngineInv, NEW q \in Queries, NEW S \in SUBSET Parts, \A p \in S : scans[q][p] = 0
  PROVE  Scanned(q, S) = [scans EXCEPT ![q] = [p \in Parts |-> IF p \in S THEN 1 ELSE scans[q][p]]]
  <1>1. scans \in [Queries -> [Parts -> 0 .. 1]] BY DEF EngineInv, EngineTypeOK
  <1>2. \A p \in Parts : scans[q][p] + (IF p \in S THEN 1 ELSE 0)
                            = IF p \in S THEN 1 ELSE scans[q][p]
    BY <1>1
  <1> QED BY <1>2 DEF Scanned

LEMMA SerialStep ==
  ASSUME Throws = {}, IndInv, EngineInv, [EngineNext]_allvars
  PROVE  [Serial!Next]_(Serial!vars)
  <1> USE DEF Serial!vars, Serial!Parts
  <1>1. ASSUME UNCHANGED <<cur, phase, scans>> PROVE UNCHANGED Serial!vars
    BY <1>1 DEF Executing
  <1>2. CASE BeginQuery
    <2>1. ~Executing /\ Executing' /\ cur < NQ /\ cur' = cur + 1 /\ scans' = scans
      BY <1>2 DEF BeginQuery, MainMoves, Executing
    <2> QED BY <2>1 DEF Serial!Next, Serial!Begin, Executing
  <1>3. CASE ScanAll
    <2>1. /\ phase = "scan" /\ phase' = "repl" /\ cur' = cur /\ cur \in Queries
          /\ scans' = Scanned(cur, Parts)
      BY <1>3 DEF ScanAll, MainMoves, EngineInv, MainOK, Executing
    <2>2. \A p \in Parts : scans[cur][p] = 0
      BY <2>1 DEF EngineInv, FuturesOK, ScansOK, Alive, Executing
    <2>3. scans' = [scans EXCEPT ![cur] = [p \in Parts |-> 1]]
      BY <2>1, <2>2, ScanIsSerial
    <2>4. Serial!ScanAllAndAnswer
      <3>1. Executing /\ Executing' = FALSE BY <2>1 DEF Executing
      <3>2. Serial!Parts = Parts BY DEF Parts
      <3> QED BY <2>1, <2>2, <2>3, <3>1, <3>2 DEF Serial!ScanAllAndAnswer
    <2> QED BY <2>4 DEF Serial!Next
  <1>4. CASE Fork \/ SubmitPart \/ EndOfInput
    <2>1. UNCHANGED <<cur, scans>> /\ (Executing' <=> Executing)
      BY <1>4 DEF Fork, SubmitPart, EndOfInput, MainMoves, Executing
    <2>2. Executing' = Executing BY <2>1 DEF Executing
    <2> QED BY <2>1, <2>2
  <1>5. CASE GetPart
    <2>1. CASE next # NP - 1
      BY <1>5, <2>1, <1>1 DEF GetPart, MainMoves
    <2>2. CASE next = NP - 1
      <3>1. /\ phase = "get" /\ phase' = "repl" /\ UNCHANGED <<cur, scans>>
            /\ cur \in Queries /\ future[<<cur, next>>] = "value"
        BY <1>5, <2>2 DEF GetPart, MainMoves, EngineInv, MainOK, Executing
      <3>2. \A p \in Parts : future[<<cur, p>>] = "value"
        BY <3>1, <2>2, EngineAssumption DEF EngineInv, FuturesOK, Parts
      <3>3. \A p \in Parts : scans[cur][p] = 1
        <4>1. cur \in Int /\ ~(cur > cur) BY <3>1, EngineAssumption DEF Queries
        <4>2. \A p \in Parts :
                scans[cur][p] = IF cur > cur \/ (Alive(cur) /\ future[<<cur, p>>] # "value")
                                  THEN 0 ELSE 1
          BY <3>1 DEF EngineInv, ScansOK
        <4> QED BY <3>2, <4>1, <4>2
      <3>4. Serial!Answer
        BY <3>1, <3>3 DEF Serial!Answer, Executing, Parts
      <3> QED BY <3>4 DEF Serial!Next
    <2> QED BY <2>1, <2>2
  <1>6. CASE Rethrow
    <2>1. next \in Parts /\ cur \in Queries BY <1>6 DEF Rethrow, EngineInv, MainOK, Executing
    <2> QED BY <1>6, <2>1, TaskPairs DEF Rethrow, EngineInv, FuturesOK
  <1>7. ASSUME NEW w \in Workers, TaskScans(w) PROVE Serial!ScanSome
    <2> DEFINE p == held[w][2]
    <2>1. /\ held[w] = <<cur, p>> /\ p \in Parts /\ cur \in Queries
          /\ future[<<cur, p>>] = "pending" /\ copy_this[TaskKind(w)] = cur
          /\ phase \in {"submit", "get"}
      BY <1>7, RunningTask, TaskPairs DEF TaskScans, TaskKind
    <2>2. scans' = Scanned(cur, {p}) /\ UNCHANGED <<cur, phase>>
      BY <1>7, <2>1 DEF TaskScans, Addressee, Alive, Executing
    <2> HIDE DEF p
    <2>3. scans[cur][p] = 0
      BY <2>1 DEF EngineInv, ScansOK, Alive, Executing
    <2>4. scans' = [scans EXCEPT ![cur] = [r \in Parts |-> IF r \in {p} THEN 1 ELSE scans[cur][r]]]
      BY <2>1, <2>2, <2>3, ScanIsSerial
    <2>5. Serial!Scan({p})
      BY <2>1, <2>2, <2>3, <2>4 DEF Serial!Scan, Executing, Parts
    <2> QED BY <2>1, <2>5 DEF Serial!ScanSome, Parts
  <1>8. ASSUME NEW w \in Workers, Worker(w), ~TaskScans(w) PROVE UNCHANGED Serial!vars
    BY <1>1, <1>8, NoneAstray DEF Worker, TaskBegins, engine
  <1>9. CASE Quit BY <1>1, <1>9 DEF Quit, engine
  <1>10. CASE UNCHANGED engine BY <1>1, <1>10 DEF engine
  <1>11. CASE UNCHANGED allvars BY <1>10, <1>11 DEF allvars
  <1> QED
    BY <1>2, <1>3, <1>4, <1>5, <1>6, <1>7, <1>8, <1>9, <1>10, <1>11
       DEF EngineNext, DestructorMoves, Main, Serial!Next

\* If no query throws, the fork-join over the pool's threads cannot be told from
\* queries executed one by one, each partition scanned once before the answer.
THEOREM EngineIsSerial == Throws = {} => (EngineSafeSpec => Serial!SafeSpec)
  <1> SUFFICES ASSUME Throws = {} PROVE EngineSafeSpec => Serial!SafeSpec
    OBVIOUS
  <1>1. EngineInit => Serial!Init
    BY DEF EngineInit, Serial!Init, Executing, Unread, Queries, Parts, Serial!Parts
  <1>2. IndInv /\ EngineInv /\ [EngineNext]_allvars => [Serial!Next]_(Serial!vars)
    BY SerialStep
  <1> QED BY <1>1, <1>2, EngineInvariant, PTL DEF EngineSafeSpec, Serial!SafeSpec
-------------------------------------------------------------------------------
(* The answers, whatever throws: tasks a query that threw has left in the    *)
(* pool may run on another query's statics, and no answer depends on them.   *)

LEMMA AnswerInvInit == EngineInit => AnswerInv
  <1> SUFFICES ASSUME EngineInit PROVE AnswerInv
    OBVIOUS
  <1>1. MainOK BY MainInit
  <1>2. OwnFutures /\ CopyIsOwn
    BY DEF EngineInit, Init, OwnFutures, CopyIsOwn
  <1>3. AnswerIsOwn /\ answer \in [Queries -> {"none", "result", "error"}]
    BY DEF EngineInit, AnswerIsOwn
  <1>4. copy_this \in [Kinds -> 0 .. NQ]
    BY EngineAssumption DEF EngineInit, Unread
  <1> QED BY <1>1, <1>2, <1>3, <1>4 DEF AnswerInv

\* Nothing that the answers depend on.
LEMMA AnswersUnmoved ==
  ASSUME AnswerInv, UNCHANGED <<cur, phase, next, copy_this, answer, future>>, MainOK'
  PROVE  AnswerInv'
  BY DEF AnswerInv, OwnFutures, CopyIsOwn, AnswerIsOwn

\* The task a worker runs is pending: it has been submitted.
LEMMA HeldIsPending ==
  ASSUME IndInv, AnswerInv, NEW w \in Workers, wpc[w] = "run"
  PROVE  /\ held[w] \in Tasks /\ future[held[w]] = "pending"
         /\ held[w][1] # cur => held[w][1] \in Queries /\ ~(held[w][1] > cur)
  <1>1. held[w] \in Tasks
    BY DEF IndInv, TypeOK, Phases
  <1>2. future[held[w]] = "pending"
    BY <1>1 DEF IndInv, OnePlace
  <1> QED BY <1>1, <1>2, TaskPairs DEF AnswerInv, OwnFutures

\* An answer is given once every own future was a value, or one an exception.
LEMMA AnswerGiven ==
  ASSUME AnswerInv, NEW a \in {"result", "error"}, cur \in Queries,
         answer' = [answer EXCEPT ![cur] = a], UNCHANGED <<cur, next, copy_this, future>>,
         phase' = "repl", MainOK',
         a = "error" <=> \E p \in Parts : <<cur, p>> \in Throws
  PROVE  AnswerInv'
  <1>1. answer' \in [Queries -> {"none", "result", "error"}]
    BY DEF AnswerInv
  <1>2. AnswerIsOwn'
    <2> SUFFICES ASSUME NEW q \in Queries, answer'[q] # "none"
                 PROVE  answer'[q] = "error" <=> \E p \in Parts : <<q, p>> \in Throws
      BY DEF AnswerIsOwn
    <2>1. CASE q = cur BY <1>1, <2>1 DEF AnswerInv
    <2>2. CASE q # cur BY <2>2 DEF AnswerInv, AnswerIsOwn
    <2> QED BY <2>1, <2>2
  <1>3. OwnFutures' /\ CopyIsOwn'
    BY DEF AnswerInv, OwnFutures, CopyIsOwn
  <1> QED BY <1>1, <1>2, <1>3 DEF AnswerInv

\* A step of main between BeginQuery and the answer.
LEMMA MainAnswers ==
  ASSUME IndInv, AnswerInv, MainOK', BeginQuery \/ ScanAll \/ Fork \/ SubmitPart \/ GetPart \/ Rethrow
  PROVE  AnswerInv'
  <1> USE EngineAssumption
  <1>1. CASE BeginQuery
    <2>1. /\ cur' = cur + 1 /\ phase' \in {"scan", "fork"} /\ cur \in Nat
          /\ UNCHANGED <<next, copy_this, answer, future>>
      BY <1>1 DEF BeginQuery, MainMoves, vars, AnswerInv, MainOK
    <2>2. OwnFutures'
      BY <2>1, TaskPairs DEF AnswerInv, OwnFutures, Queries
    <2> QED BY <2>1, <2>2 DEF AnswerInv, CopyIsOwn, AnswerIsOwn
  <1>2. CASE ScanAll
    <2>1. /\ phase = "scan" /\ cur \in Queries /\ phase' = "repl"
          /\ UNCHANGED <<cur, next, copy_this, future>>
      BY <1>2 DEF ScanAll, MainMoves, vars, AnswerInv, MainOK, Executing
    <2> QED BY <1>2, <2>1, AnswerGiven DEF ScanAll
  <1>3. CASE Fork
    <2>1. /\ phase = "fork" /\ phase' = "submit" /\ cur \in Queries /\ next' = 0
          /\ copy_this' = [copy_this EXCEPT ![Kind[cur]] = cur]
          /\ UNCHANGED <<cur, answer, future>>
      BY <1>3 DEF Fork, MainMoves, vars, AnswerInv, MainOK, Executing
    <2>2. CopyIsOwn' /\ copy_this' \in [Kinds -> 0 .. NQ]
      BY <2>1 DEF AnswerInv, CopyIsOwn, Kinds, Queries
    <2>3. OwnFutures'
      BY <2>1 DEF AnswerInv, OwnFutures
    <2> QED BY <2>1, <2>2, <2>3 DEF AnswerInv, AnswerIsOwn
  <1>4. CASE SubmitPart
    <2>1. /\ phase = "submit" /\ cur \in Queries /\ next \in Parts
          /\ UNCHANGED <<cur, copy_this, answer>>
          /\ \/ next = NP - 1 /\ phase' = "get" /\ next' = 0
             \/ next # NP - 1 /\ phase' = "submit" /\ next' = next + 1
      BY <1>4 DEF SubmitPart, AnswerInv, MainOK, Executing
    <2>2. /\ <<cur, next>> \in Tasks
          /\ \A t \in Tasks : future'[t] = IF t = <<cur, next>> THEN "pending" ELSE future[t]
      <3>1. <<cur, next>> \in Tasks /\ Submit(<<cur, next>>)
        BY <1>4, <2>1, TaskPairs DEF SubmitPart
      <3>2. future \in [Tasks -> FutureState] BY DEF IndInv, TypeOK
      <3> QED BY <3>1, <3>2, SubmitFutures
    <2>3. OwnFutures'
      <3> SUFFICES ASSUME NEW t \in Tasks
                   PROVE  /\ t[1] > cur => future'[t] = "none"
                          /\ t[1] = cur =>
                               /\ future'[t] = "value" => t \notin Throws
                               /\ future'[t] = "exception" => t \in Throws
                               /\ phase' = "submit" /\ t[2] >= next' => future'[t] = "none"
                               /\ phase' = "get" => ~(t[2] < next')
        BY <2>1, Zenon DEF OwnFutures
      <3>1. t[1] \in Queries /\ t[2] \in Parts BY TaskPairs
      <3>2. CASE t = <<cur, next>>
        <4>1. future'[t] = "pending" /\ t[1] = cur /\ t[2] = next
          BY <2>2, <3>2
        <4> QED BY <2>1, <3>1, <4>1 DEF Queries, Parts
      <3>3. CASE t # <<cur, next>>
        <4>1. future'[t] = future[t] /\ ~(t[1] = cur /\ t[2] = next)
          BY <2>2, <3>3, TaskPairs
        <4> QED BY <2>1, <3>1, <4>1 DEF AnswerInv, OwnFutures, Queries, Parts
      <3> QED BY <3>2, <3>3
    <2> QED BY <2>1, <2>3 DEF AnswerInv, AnswerIsOwn, CopyIsOwn
  <1>5. CASE GetPart
    <2>1. /\ phase = "get" /\ cur \in Queries /\ next \in Parts /\ future[<<cur, next>>] = "value"
          /\ UNCHANGED <<cur, copy_this, future>>
          /\ \/ /\ next = NP - 1 /\ phase' = "repl" /\ next' = next
                /\ answer' = [answer EXCEPT ![cur] = "result"]
             \/ next # NP - 1 /\ phase' = "get" /\ next' = next + 1 /\ answer' = answer
      BY <1>5 DEF GetPart, MainMoves, vars, AnswerInv, MainOK, Executing
    <2>2. \A p \in Parts : p <= next => future[<<cur, p>>] = "value" /\ <<cur, p>> \notin Throws
      <3> SUFFICES ASSUME NEW p \in Parts, p <= next
                   PROVE  future[<<cur, p>>] = "value" /\ <<cur, p>> \notin Throws
        OBVIOUS
      <3>1. <<cur, p>> \in Tasks /\ <<cur, p>>[1] = cur /\ <<cur, p>>[2] = p
        BY <2>1, TaskPairs
      <3>2. p = next \/ p < next BY <2>1 DEF Parts
      <3> QED BY <2>1, <3>1, <3>2 DEF AnswerInv, OwnFutures
    <2>3. CASE next = NP - 1
      <3>1. \A p \in Parts : <<cur, p>> \notin Throws
        BY <2>2, <2>3 DEF Parts
      <3> QED BY <2>1, <2>3, <3>1, AnswerGiven
    <2>4. CASE next # NP - 1
      <3>1. \A t \in Tasks : t[1] = cur /\ t[2] <= next => future[t] = "value"
        BY <2>1, <2>2, TaskPairs
      <3>2. OwnFutures'
        BY <2>1, <2>4, <3>1, TaskPairs DEF AnswerInv, OwnFutures, Parts
      <3> QED BY <2>1, <2>4, <3>2 DEF AnswerInv, AnswerIsOwn, CopyIsOwn
    <2> QED BY <2>3, <2>4
  <1>6. CASE Rethrow
    <2>1. /\ phase = "get" /\ cur \in Queries /\ next \in Parts
          /\ future[<<cur, next>>] = "exception" /\ phase' = "repl"
          /\ UNCHANGED <<cur, next, copy_this, future>>
          /\ answer' = [answer EXCEPT ![cur] = "error"]
      BY <1>6 DEF Rethrow, MainMoves, vars, AnswerInv, MainOK, Executing
    <2>2. <<cur, next>> \in Throws
      BY <2>1, TaskPairs DEF AnswerInv, OwnFutures
    <2> QED BY <2>1, <2>2, AnswerGiven
  <1> QED BY <1>1, <1>2, <1>3, <1>4, <1>5, <1>6

\* The end of a task, perhaps of a query that was answered before.
LEMMA TaskAnswers ==
  ASSUME IndInv, AnswerInv, MainOK', NEW w \in Workers, TaskScans(w) \/ TaskStrays(w)
  PROVE  AnswerInv'
  <1> DEFINE t == held[w]
             q == copy_this[TaskKind(w)]
  <1>1. PICK o \in Outcomes : /\ TaskEnds(w, o)
                              /\ Alive(q) => (o = "exception" <=> <<q, t[2]>> \in Throws)
                              /\ UNCHANGED <<cur, phase, next, copy_this, answer>>
    BY DEF TaskScans, TaskStrays, Addressee, Outcomes
  <1>2. /\ t \in Tasks /\ future[t] = "pending" /\ t[1] \in Queries /\ t[2] \in Parts
        /\ t = <<t[1], t[2]>>
        /\ \A s \in Tasks : future'[s] = IF s = t THEN o ELSE future[s]
    <2>1. wpc[w] = "run" BY DEF TaskScans, TaskStrays
    <2> QED BY <1>1, <2>1, HeldIsPending, TaskPairs DEF TaskEnds, IndInv, TypeOK
  <1>3. ~(t[1] > cur) /\ (t[1] = cur => phase \notin {"scan", "fork"})
    BY <1>2 DEF AnswerInv, OwnFutures
  <1>4. t[1] = cur /\ phase \in {"submit", "get"} =>
          /\ o = "exception" <=> t \in Throws
          /\ phase = "submit" => ~(t[2] >= next)
          /\ phase = "get" => ~(t[2] < next)
    <2> SUFFICES ASSUME t[1] = cur, phase \in {"submit", "get"}
                 PROVE  /\ o = "exception" <=> t \in Throws
                        /\ phase = "submit" => ~(t[2] >= next)
                        /\ phase = "get" => ~(t[2] < next)
      OBVIOUS
    <2>1. q = cur BY DEF TaskKind, AnswerInv, CopyIsOwn
    <2>2. Alive(q) BY <2>1 DEF Alive, Executing
    <2>3. <<q, t[2]>> = t BY <1>2, <2>1
    <2> QED BY <1>1, <1>2, <2>2, <2>3 DEF AnswerInv, OwnFutures
  <1> HIDE DEF t, q
  <1>5. OwnFutures'
    <2> SUFFICES ASSUME NEW s \in Tasks
                 PROVE  /\ s[1] > cur \/ (s[1] = cur /\ phase \in {"scan", "fork"})
                             => future'[s] = "none"
                        /\ s[1] = cur /\ phase \in {"submit", "get"} =>
                             /\ future'[s] = "value" => s \notin Throws
                             /\ future'[s] = "exception" => s \in Throws
                             /\ phase = "submit" /\ s[2] >= next => future'[s] = "none"
                             /\ phase = "get" /\ s[2] < next => future'[s] = "value"
      BY <1>1 DEF OwnFutures
    <2>1. CASE s = t BY <1>2, <1>3, <1>4, <2>1 DEF Outcomes
    <2>2. CASE s # t
      <3>1. future'[s] = future[s] BY <1>2, <2>2
      <3> QED BY <3>1 DEF AnswerInv, OwnFutures
    <2> QED BY <2>1, <2>2
  <1> QED BY <1>1, <1>5 DEF AnswerInv, CopyIsOwn, AnswerIsOwn

LEMMA AnswerInvStep ==
  ASSUME IndInv, AnswerInv, [EngineNext]_allvars
  PROVE  AnswerInv'
  <1>1. MainOK' BY MainStep DEF AnswerInv
  <1>2. ASSUME UNCHANGED engine, UNCHANGED future PROVE AnswerInv'
    BY <1>1, <1>2, AnswersUnmoved DEF engine
  <1>3. CASE Main BY <1>1, <1>3, MainAnswers DEF Main
  <1>4. CASE Quit BY <1>2, <1>4 DEF Quit, Closed
  <1>5. CASE EndOfInput
    <2>1. /\ phase = "repl" /\ phase' = "eof" /\ UNCHANGED <<cur, next, copy_this, answer, future>>
      BY <1>5 DEF EndOfInput, MainMoves, vars
    <2> QED BY <1>1, <2>1 DEF AnswerInv, OwnFutures, CopyIsOwn, AnswerIsOwn
  <1>6. CASE PoolSet /\ UNCHANGED engine BY <1>2, <1>6 DEF PoolSet
  <1>7. CASE Up /\ Destructor /\ UNCHANGED engine
    <2>1. CASE Drained \/ NotifyAll \/ Join
      BY <1>2, <1>7, <2>1 DEF Drained, NotifyAll, Join
    <2>2. CASE Drain
      <3> DEFINE t == Head(Task_assemble)
      <3>1. t \in Tasks /\ future[t] = "pending"
        <4>1. Task_assemble \in Seq(Tasks) /\ Task_assemble # <<>> BY <2>2 DEF Drain, IndInv, TypeOK
        <4>2. 1 \in DOMAIN Task_assemble /\ t = Task_assemble[1] BY <4>1
        <4>3. t \in Tasks BY <4>1
        <4> QED BY <4>2, <4>3 DEF IndInv, OnePlace
      <3>2. phase = "repl" BY <1>7, <2>2 DEF Up, Drain, AnswerInv, MainOK
      <3>3. ~(t[1] > cur) BY <3>1 DEF AnswerInv, OwnFutures
      <3>4. \A s \in Tasks : s # t => future'[s] = future[s]
        BY <2>2, <3>1 DEF Drain, IndInv, TypeOK
      <3> HIDE DEF t
      <3>5. OwnFutures'
        BY <1>7, <3>2, <3>3, <3>4 DEF engine, AnswerInv, OwnFutures
      <3> QED BY <1>1, <1>7, <3>5 DEF engine, AnswerInv, CopyIsOwn, AnswerIsOwn
    <2> QED BY <1>7, <2>1, <2>2 DEF Destructor
  <1>8. ASSUME NEW w \in Workers, Worker(w) PROVE AnswerInv'
    <2>1. CASE WorkerMoves(w) /\ UNCHANGED engine
      BY <1>2, <2>1, WorkerMovesFutures
    <2>2. CASE TaskBegins(w)
      BY <1>1, <2>2, AnswersUnmoved DEF TaskBegins, vars
    <2>3. CASE TaskScans(w) \/ TaskStrays(w)
      BY <1>1, <2>3, TaskAnswers
    <2>4. CASE TaskCrashes(w)
      <3>1. phase' = "undefined" /\ UNCHANGED <<cur, next, copy_this, answer, future>>
        BY <2>4 DEF TaskCrashes, vars
      <3> QED BY <1>1, <3>1 DEF AnswerInv, OwnFutures, CopyIsOwn, AnswerIsOwn
    <2> QED BY <1>8, <2>1, <2>2, <2>3, <2>4 DEF Worker
  <1>9. ASSUME NEW w \in Workers, SpuriousWake(w) /\ UNCHANGED engine PROVE AnswerInv'
    BY <1>2, <1>9 DEF SpuriousWake
  <1>10. CASE UNCHANGED allvars
    BY <1>2, <1>10 DEF allvars, vars
  <1> QED
    BY <1>3, <1>4, <1>5, <1>6, <1>7, <1>8, <1>9, <1>10
       DEF EngineNext, DestructorMoves

\* A query is answered with its error exactly if one of its own partitions
\* throws, for every set of partitions that throw: what queries before it left in
\* the pool, running on its statics, cannot change its answer (Rethrow, GetPart).
THEOREM AnswersAreOwn == EngineSafeSpec => []AnswerIsOwn
  <1>1. EngineInit => AnswerInv BY AnswerInvInit
  <1>2. IndInv /\ AnswerInv /\ [EngineNext]_allvars => AnswerInv'
    BY AnswerInvStep
  <1>3. EngineSafeSpec => []IndInv BY EngineUsesPool, PoolInvariant, PTL
  <1>4. AnswerInv => AnswerIsOwn BY DEF AnswerInv
  <1> QED BY <1>1, <1>2, <1>3, <1>4, PTL DEF EngineSafeSpec
=================================================================================
