# LemonDB in TLA+

Specifications of LemonDB, an in-memory multi-threaded table store with an
SQL-like language: models of its thread pool, its fork-join query engine, its
table, its data queries and their conditions, its database with the format of its
dumps, its parser and its main loop, checked with TLC on small instances, and
theorems about them proved with TLAPS for every instance. Paths below are relative to the
repository root (`src/` is its source directory).

## 1. The system

| Component | State | Operations | Works with |
| --- | --- | --- | --- |
| Thread pool (`src/multithreads/MultiThread.hpp`) | mutex `lockx`, condition variable `cv`, queue `Task_assemble`, atomics `done`, `idleThreadNum`, the threads | `pool_set`, `Submit`, the worker loop `scheduler` / `getTask`, `Thread_count`, the destructor | global object `worker`; called by the queries, destroyed by `exit()` |
| REPL (`src/main.cpp`) | stack of input streams, answer counter | the command line; read, parse, execute and print one query; LISTEN; end of an input | parser, queries, pool |
| Data queries (`src/query/data/`) | file-level statics per query class (`copy_this`, `copy_table`, `total_thread`, `subtable_num`, `result`, `int_arr`, `found`, `priorityQueue`) | `execute()`: one sequential branch, and for nine of the twelve a parallel branch of one task per sub table | table, pool |
| WHERE clauses (`src/query/Query.cpp`) | the conditions of the query | `initCondition`, `evalCondition` | table's field names |
| Table (`src/db/Table.h`, `Table.cpp`) | `data` (vector of rows), `keyMap` (key to index), field names | insert, delete, set key, duplicate, clear, copy, print | used in place by queries and tasks |
| Database (`src/db/Database.cpp`) and management queries | map of tables and map of file names to table names, in memory; the files, which outlive the process | LOAD, DUMP, DROP, TRUNCATE, COPYTABLE, LIST, SHOWTABLE, QUIT | REPL, table, files |
| Parser and builders (`src/query/QueryParser.cpp`, `QueryBuilders.cpp`) | the members of the Complex builder, which stay from query to query; LOAD's and DUMP's builder writes the file name map | tokenize, a chain of builders | REPL, database |
| `SafeQueue` | mutex, condition variable, queue | not used by the program | none |

One thread, *main*, reads queries and executes them one after the other.
Parallelism exists only inside `execute()`: on a table of 2000 rows or more main
writes the statics of the query's file, submits one task per sub table, and gets
the futures in order. The tasks read the statics, and read or change rows in place
without a lock. All that keeps this correct is that main does nothing else until the
last future is ready.

What is hard in this code (`PROJECT.json`, `hazards`, lists each at its line):

* **waking and sleeping**: a task pushed while a worker is about to sleep, two workers
  after one task, the destructor's notification without the mutex;
* **what outlives a query**: tasks that are left when an exception comes out of a
  future, statics that keep something of the last query;
* **cutting a table**: each row in exactly one sub table, the remainder of a division;
* **a branch that depends on the scheduler**: `Thread_count` is read while workers of
  the previous query may still be on their way to `idleThreadNum++`, so the same query
  takes one branch or the other, and has to answer the same;
* **loops that change what they walk on**: DELETE moves the last row into the hole,
  UPDATE re-keys rows, DUPLICATE collects keys first and inserts afterwards;
* **an index beside the data**, which every change has to keep exact;
* **failing in the middle**: LOAD at any row, COPYTABLE after the copy, DUMP after the
  file was emptied, a process killed while it writes;
* **text that is read back**: DUMP's columns have no separator, LOAD's name comes from a
  map that parsing filled some time ago;
* **state the parser keeps**: operands and conditions of a query that was refused, an
  iterator tested at a dozen places;
* **inputs inside inputs**: files that listen to others and to themselves.

## 2. Modules

| Module | What it is |
| --- | --- |
| `Executor` | abstract: a FIFO executor. Tasks start in the order of submission, each at most once; closing may discard what has not started |
| `ThreadPool` | the pool, one action per step another thread can observe; implements `Executor` |
| `ThreadPoolProofs` | the invariants of the pool and that it implements `Executor`, proved |
| `SerialQueries` | abstract: queries one at a time, each partition scanned once before the answer |
| `QueryEngine` | main's loop and the fork-join of `execute()`, on top of `ThreadPool` (EXTENDS: the same pool actions); implements `SerialQueries` |
| `QueryEngineProofs` | the invariants of the engine, that it uses the pool as a client may, and that it implements `SerialQueries`, proved |
| `Partition` | the arithmetic of the sub tables, as operators |
| `QueryCondition` | WHERE clauses: `initCondition` and `evalCondition`, as operators |
| `DataQueries` | what the nine split queries compute, row by row, in both branches, against what they promise |
| `DataQueriesProofs` | the sub tables are a partition and tasks have no row in common while they move; types; SELECT's queue; what the three outcomes of `initCondition` mean, proved |
| `DataPromiseProofs` | every data query gives the answer and leaves the table it promises, proved |
| `KeyedTable` | abstract: a table is a function from keys to values, a query one step |
| `Table` | `data` and `keyMap` and the loops of INSERT, DELETE, UPDATE, DUPLICATE, TRUNCATE; implements `KeyedTable` |
| `TableProofs` | the invariants of the table, and that it implements `KeyedTable`, proved |
| `DumpFormat` | what DUMP writes of a line and what LOAD reads of it, as operators |
| `Database` | tables, files, the map of file names; LOAD row by row, DUMP in two steps, the other management queries, INSERT, and the death of the process |
| `DatabaseProofs` | a dumped line is read back or refused, never read as another one; every property of `Database` that holds, proved |
| `QueryParser` | the chain of builders, place by place, and the language it is meant to accept |
| `Repl` | `main()`: the command line, the stack of inputs, LISTEN, on top of `QueryParser` |
| `ReplProofs` | the invariants of the parser and of the main loop, the order of the inputs included, proved |
| `RecursionProofs` | induction over the naturals in a form the provers can use, and what recursive functions make of sequences, proved |
| `MC...` | values of the constants for TLC |

Operators have the names of the functions, fields and variables they model
(`getTask` is split into the actions it consists of). `PROJECT.json`, `map`, gives the
lines each definition stands for. A definition called a MUTANT in its comment is not
part of the model: it is the definition with a plausible mistake, and the property it
is listed with in `PROJECT.json` is violated when it is put in the place of the correct
one.

### ThreadPool

Each worker has a program counter `wpc` and the task it `held`; `future[t]` is the
state of the `std::future` of a task; the owner (main) has `mpc`. What is one step:

* A critical section that uses only what the mutex protects is one step (`Submit` is
  `addTask`'s push and `notify_one`; `Pop` is lines 47-50).
* `getTask` is cut between its test and its wait (`SeeEmpty`, then `Park`), and between
  its test and `front()` (`SeeTask`, then `Pop`), because the destructor writes `done`,
  empties the queue and notifies without the mutex. If it emptied the queue in between,
  `front()` is undefined behaviour: `PopEmpty` leaves the worker in the state
  `undefined`.
* `cv.notify_one` wakes any sleeper (`NotifyOne`), and `SpuriousWake` wakes one at any
  time; both stand for the C++ library, outside `src/`.
* `idleThreadNum--`, the task, and `idleThreadNum++` are three steps: the future is ready
  before the counter is.
* `PoolSet` creates the threads in one step. Nothing can be seen in between: main, the
  only caller of `Submit` and of the queries, is in `pool_set`, the queue is empty, and
  the new threads touch only the mutex, the queue and their own program counters.
* `Closed` may come before `PoolSet` (`exit(-1)` for a bad argument) or at any time after
  it; in this module the owner is more liberal than main is, `QueryEngine` narrows it.

`Submit` of a task is possible once per task: a task stands for one call of `Submit`.

### QueryEngine

`phase` is where main is in the REPL (`repl`), in the sequential branch (`scan`) or in the
parallel one (`fork`, `submit`, `get`), `next` the loop variable, `copy_this` and
`total_thread` the statics, one for each query class (`Kind`). A task is a pair of query
and partition. It takes two steps, because the statics are read twice: for `head` and
`tail`, and on the rows. `Throws` are the partitions on which evaluating the query throws
(a field that does not exist is found when the first row matches: ADD, SUB, SUM, MIN,
MAX). `Rethrow` is `futures[i].get()` throwing: `execute()` answers the error and
returns, and the other tasks are left. A task that then runs through the `copy_this` of
a query that was destroyed (`Alive`) reads freed memory, which is undefined: it may end
in any way (`TaskStrays`) or take the process with it (`TaskCrashes`, after which
nothing moves: `Up`). `Quit` begins the destructor between two
queries, `EndOfInput` is `pthread_exit`, which ends the main thread only.

`scans` and `answer` are history variables that count what was scanned and what main
answered. What a scan computes is the subject of `DataQueries`.

### DataQueries and Partition

A table is a sequence of rows, a query a record: kind, operands, and the conditions of
its WHERE clause, judged by `QueryCondition`. `Refuse` is a query that is answered with
an error before its first row: a wrong number of operands, an ill-formed condition, a
SWAP of a field that is not there. `Sequential` is the sequential branch, and
`SequentialThrows` the same when an operand is no field, which the code finds at the
first row that matches. `Fork`, then `ScanRow` (one turn of a task's loop) and
`TaskReturns` (with the gathering of SUM, MIN and MAX under `m_mutex`) in any
interleaving, then `Join`, is the parallel branch. A task whose operand is no field ends
at the first row that matches (`TaskThrows`) without gathering, other tasks may have
matched nothing and return, and main answers the error (`JoinThrows`); SELECT's tasks do
not look at operands. Here main goes on when all tasks have ended: what happens when it
leaves some behind is in `QueryEngine`. The choice between the branches is free from `Split` rows
on, because `Thread_count` decides it. `Answer`, `AnswerDuplicate` and `PrintRow` /
`AnswerSelect` end the query. The statics `int_arr`, `found` and `priorityQueue` live on
from query to query, as in the code.

`initCondition` goes through the conditions in order and stops where it can: the first
that is ill-formed makes it throw, unless two before it ask for different keys; then the
clause is false and the conditions after it are never looked at.

`Loop` is the running value of a member like `counter` or a row's field over the turns of a
loop, each turn a function of the value before it.

`Promise` and `TableAfter` say what a query should answer and leave, with no loop, no
branch, no task and no wrapping of intermediate results: for instance the sum over the
set of rows that match, reduced to an int once.

### Table

The loops are modelled turn by turn, with the iterator `it` (DELETE's `it--` followed by
`it++` is no move). One thread runs them: these are the queries without a parallel branch,
and DUPLICATE, whose parallel branch is in `DataQueries`. `ClashAllowed` says whether
UPDATE may set a key another row has. The code lets it, which breaks the table (run
`TableClash`); everything else is proved and checked for the inputs that do not.
`KeyedTable` sees the table before the query until the query is answered:
the implementation is shown with `before`, a history variable.

### Database and DumpFormat

`tables`, `fileTableNameMap` and `query` are memory and go when the process ends
(`Quit`, or `Crash` at any moment); `files` stay. A query that only looks a table up and
changes it is one step (`AtOnce`). LOAD is `LoadBegin` (parsing, which enters the name in
the map; opening; the first two lines), `LoadRow` for each row, each of which may fail, and
`LoadRegister`. DUMP is `DumpOpen` (parsing notes the name, opening empties the file)
and `DumpWrite` (looks the table up and writes it); `Crash` between them leaves the file
empty, or with the first rows of its text. INSERT puts in as many values as it is given:
a table whose rows have one for each field is `Whole`. `operator<<` prints of each row as
many values as the table has fields, so what a longer row has more is lost and of a
shorter one the memory behind it is printed (`Prints`); that and LOAD of a table of no
columns, which takes `front()` of an empty deque, may also end the process
(`Undefined`). `before` and `origin` are history variables:
the tables when the query began, and which table DUMP wrote to a file.

Text is items. `operator<<` puts an item in a column of ten characters with nothing
between the columns, so one of ten or more is *glued* to the item on its left; `Printed`
says which. LOAD reads names and numbers with `>>`, so a glued name is part of another
one, two glued numbers run together into one no int holds, and a minus sign or a letter
ends the number before it (of `7abc` LOAD reads 7): `NumberAt`, `RowReads`,
`HeaderReads`. A line of blanks is a line without items, at which LOAD throws; the first
empty line ends the table. Files that somebody else wrote (`UserFiles`) may be malformed
in any of these ways.

### QueryParser and Repl

A query string is a sequence of tokens. `at` is the place in the chain: the builders
`Debug`, `ManageTable`, `Complex`, and the stages of `parseToken` (`operand`, `target`,
`condition`, `create`), each turn of its loops one step. `operandToken`, `targetTable` and
`conditionToken` are the members of the Complex builder and stay when the query is
over; `clear` is called when the next one is parsed. A query that ends with its "(" makes
the iterator run past the end: `undefined`, or a refusal. `Accepts` and `Reading` say
what the language is, without an iterator and without a stage.

`Repl` has the stack `inputlist`, per input the query strings that are still to come.
`Listens` is what the code asks: whether LISTEN occurs anywhere in the string, as part
of a table's name too. A file LISTEN opened is never closed (`opened`, up to `MaxOpen`);
if the next one cannot be opened the process ends. Refused queries get no number, so
`counter` and `done`, the history of the strings dealt with, differ. What execute() does
is in the other modules: here it ends and throws nothing, which is what `QueryEngine`
(`AnsweredUnlessUndefined`), `Table` (`QueryEnds`) and `Database` show of it.

## 3. Runs

| Run | Expected | Shows |
| --- | --- | --- |
| `Pool` | pass | `MutexHeld`, `OnePlace` (a pending task is in one place, once), `NoTaskStranded` (a wakeup for every queued task), `FutureIsFinal`, `QuietWhenGone`; `EveryGetReturns`; `OnlySleepersStay` (the one thing join can wait for is a sleeper); the pool implements `Executor` |
| `EngineSerial` | pass | well-formed queries: the engine implements `SerialQueries`; `NoTaskOutlivesQuery`, `StaticsBelongToTask`, `DrainIsAlone` |
| `EngineIllFormed` | pass | a query that throws and leaves tasks behind: `AnswerIsOwn`, and `AnsweredUnlessUndefined`, that each query is answered unless a task that was left has taken the process with it |
| `EngineQuit` | violation | QUIT can hang: the destructor's notification is lost |
| `EngineStale` | violation | a task left by a query that threw runs on the next query's statics |
| `TableRefines` | pass | index exact in every loop, loops end and each turn brings the end nearer (`LoopsShrink`), copies fit, implements `KeyedTable` |
| `TableClash` | violation | UPDATE of KEY makes two rows with one key |
| `DataAnswers` | pass | answers and tables are as promised, also when tasks throw; tasks share no row, SELECT's queue is its own |
| `DataSelect` | violation | rows of a SELECT that failed are printed by the next one |
| `DatabaseDurable` | pass | `FailedChangesNothing`; `DatabaseTypeOK`: only INSERT makes a row that is not one value for each field; `ReloadIsExact`: LOAD of a dump of a `Whole` table gives that table, in this process or a later one, or fails; `NarrowDumpLoads`: it does not fail if no item is ten characters wide and the name is free |
| `DumpReload` | violation | a dump with a wide item cannot be loaded |
| `Repl` | pass | `ParsedAsWritten` (nothing of another query is in a query), `RefusedIsIllFormed`, `ReadInOrder` (depth first, nothing lost or twice), `MainEnds` |

Each violation is a finding in `PROJECT.json` with the line it contradicts.
`CHECK_DEADLOCK FALSE` is given where the program really stops: after the destructor or
the end of the input, when a worker, a task or the parser met undefined behaviour, or when the
bounded input of queries is used up. `Table` and `Database` run with deadlock checking.

Bounds, and why they suffice:

* Pool: three workers, one of the constructor and two of `pool_set`, so that one can
  sleep, one can run and one can be between test and wait at a time; three tasks, so
  that there are more tasks than idle workers and a second in the queue. No symmetry is
  used, since liveness is checked in the same run.
* Engine: two partitions; three queries of two classes, the third on a small table
  (`EngineSerial`); two queries of one class where the first throws (the others).
* Table: four keys in a chain of copies (k is copied to k+1), two values, at most four
  rows (`MaxRows`), conditions on the key, on the value, and none. DUPLICATE begins only
  if the copies fit, and no copy of the last key is asked for.
* Data: `Split` = 2 instead of 2000, so tables of 2 to 5 rows have two and three sub
  tables with and without remainder, and DUPLICATE's tables of up to 10 rows more;
  3-bit fields, so that sums overflow; two queries (`NQ`) in a row, for what is carried
  over; twenty-three queries, nine of them in error, on six tables, with keys out of order,
  a copy that is there, values at the limits, two conditions, two keys that agree, and two
  that do not, before and after a condition that is ill-formed.
* Database: two names, two files of which one cannot be written, at most two rows in a
  table (`MaxRows`), so that a second row may fail or repeat the first one's key. One
  file is missing or has one of twelve contents: good, and wrong in each way LOAD
  looks at. Values and keys of ten characters, positive and negative. INSERT's rows have
  one value or two, so that tables of one field and of two get rows that are short, whole
  and long; the memory behind a row is taken for one value (`Beyond`).
* Repl: every pair of a query string and a good one after it, where the first is good,
  empty, cut short, or has one token left out, added or changed, of eight forms that
  between them take every path of the builders: some five thousand. Two files of six
  contents each, which listen to each other, to themselves and to one that is missing;
  `MaxOpen` = 6 descriptors, so that cycles use them up.

Fairness: every thread that is not blocked is run by the operating system (weak fairness
of each worker, and of main inside a query or the destructor). Nothing makes main read
another query or QUIT. In `QueryEngine` sleepers wake spuriously only finitely often,
because without that they could keep `lockx` from main for ever, which weak
fairness of main does not exclude and the libraries do not do. A task is a finite loop,
so it ends. In `Table`, one thread whose loop has a next step takes it; in `Repl` there is
one thread, which is run as long as it has a step.

## 4. Proofs

TLAPS proves these for all values of the constants that satisfy the stated assumptions
(`PoolAssumption`, `EngineAssumption`, `TableAssumption`, `SplitAssumption`,
`ConditionAssumption`, `BitsAssumption`, `DataAssumption`, `ItemAssumption`,
`DatabaseAssumption`, `ReplAssumption`: TLC evaluates each of them too).
`BitsAssumption` and the part of `DataAssumption` about powers of two state what `2^w` is,
which the provers do not calculate.

* `ThreadPoolProofs`: `SafeSpec => []` of `TypeOK`, `MutexHeld`, `OnePlace`,
  `NoTaskStranded`, `QuietWhenGone`; what `Thread_count` returns (`ThreadCountIsShort`,
  see the departures below); the action property `FutureIsFinal`; and that
  `SafeSpec` implies the safety part of `Executor` under the refinement mapping
  of `Contract`. All rest on the inductive invariant `IndInv` (theorem `PoolInvariant`),
  the conjunction of these with `Phases` and `CountIsOneShort`. `Phases` is what they need: a task is held
  exactly by workers between `Pop` and the end of the task; before `pool_set` the queue is
  empty; a worker that is about to sleep has seen an empty queue nobody has added to,
  because adding needs the mutex the worker holds. `NoTaskStranded` is inductive as a
  *count*: while anyone sleeps, there are at least as many awake workers heading for the
  queue as tasks in it. Each push wakes one, and each `Pop` takes one task and one worker.
* `QueryEngineProofs`: that the engine uses the pool as its client may, `EngineSafeSpec =>
  SafeSpec` of `ThreadPool`, whatever throws: so every theorem about the pool holds of it
  in the engine. If no partition throws (`Throws = {}`) the invariants `EngineTypeOK`,
  `NoTaskOutlivesQuery`, `StaticsBelongToTask` and `DrainIsAlone`, and that
  `EngineSafeSpec` implements the safety part of `SerialQueries`; and, whatever throws,
  `AnswerIsOwn`. The inductive invariant
  is `EngineInv` beside the pool's `IndInv`: the futures of the query are created in order
  and ready in order up to `next`, those of later queries do not exist (`FuturesOK`); the
  statics are this query's from the first Submit to the last get (`StaticsOK`); each
  partition was scanned once if its future is ready (`ScansOK`). The condition on
  `Throws` is needed: `EngineStale` is the counterexample without it.
* `TableProofs`: for `ClashAllowed = FALSE`, `SafeSpec => []` of `TypeOK`,
  `KeyMapConsistent` and `CopiesFit`. The inductive invariant is `IndInv`: of UPDATE,
  that among the rows ahead at most one matches and no other row has the new key
  (`RenameAhead`); of DUPLICATE, that the collected keys are different, in the index
  and behind the iterator, and have no copy yet (`Collecting`). With the copies
  injective this gives `CopiesFit`.
  The action property `LoopsShrink` (`TableLoopsShrink`): every turn of a query leaves
  fewer of them (`TurnsLeft`, which a query begins with at most `2 * Len(data) + 2` of), because no
  iterator is past the end of what it walks (`WithinRows`). Since `KeyMapConsistent` and
  `CopiesFit` say that a turn that is due finds its row, this is the argument for
  `QueryEnds` for tables of any size, up to the step from a variant to liveness.
  `SafeSpec` also implies `ImplementsKeyedTable` (`TableIsKeyed`). `KeyedTable` sees the
  rows a query found until the query is answered, so beside `IndInv` an invariant
  `WalkInv` is needed that compares, for each query, the rows in the middle of its loop
  with those it found: DELETE has taken out only rows that match, none is left behind the
  iterator, and the counter is how many keys have gone (`DeletedSome`); UPDATE has changed
  the rows that matched up to the iterator (`UpdatedSome`, `RenamedOne`); DUPLICATE has
  listed the originals up to the iterator (`CollectedSome`) and appended the copies in
  their order (`CopiedSome`). At the last turn each of them says what the map is to be.
* `DataQueriesProofs`: of the arithmetic of the sub tables, for every `Split` from 2 on and
  every table of at least that size: two of them share no row (`SubTablesApart`) and all
  together are the table's rows (`SubTablesCover`). Of WHERE clauses: if `initCondition`
  says true every condition can be evaluated (`TrueIsComplete`); if it says false no row
  satisfies the clause (`FalseIsNever`); if it throws a condition is ill-formed
  (`ThrowsForCause`). So `evalCondition`, which asks nothing again, is safe where the
  queries call it. Of every behaviour: `DataTypeOK` (`DataTypes`), which says that no loop
  leaves a value that is no int in a row; `NoRowShared` (`TasksApart`); and
  `QueueIsOwn` (`QueueOfSelect`) under `SelectsPrint`, that no SELECT names a field which is
  not there: run `DataSelect` is the counterexample without it. They rest on `DataInv`:
  what passed `Refuse` about the query holds until its answer (`QueryInv`), the table is
  rows of ints at every turn of a task's loop (`RowsInv`), each task is at or behind the
  head of its part and the size main split by is the size of the table (`TasksInv`);
  and on `QueueInv`: a row is in the queue because a task has passed it.
* `DataPromiseProofs`: `TableIsPromised` (`TablesArePromised`) and `AnswerIsPromised`
  (`AnswersArePromised`), for every table without a key twice, all operands and conditions,
  both branches and every interleaving. The argument, invariant by invariant:
  `TurnsInv` says that the table is the one the query found with the rows changed that
  have had their turn (`Halfway`), so each is changed once; of a query with an operand that
  is no field, that no row has been changed and a task that threw stands before a row that
  matches (`StopInv`), so main's error is what the query promises; `LocalInv` that what a task has
  is the result of the rows it has passed, of DUPLICATE a list that continues the list of
  the rows before its part; `ResultInv` that what the statics hold is the result of the
  parts of the tasks that have returned, in whatever order (sums wrap, so that the order
  does not matter is a lemma: `WrapSum`, `GatherUnion`), and after the join of all rows
  (`JoinCounts`, `JoinLists`); `PrintInv` that SELECT's queue is the rows that were passed
  less those printed, whose keys are all smaller; `CountInv` that DUPLICATE counts what it
  lists. The hypotheses are what the code needs. `ValuesFit`: no condition compares a field
  with a number that is no int (it would be cut, `src/src/query/Query.cpp:27`). For the answers
  also `SelectsPrint` (without it, run `DataSelect`) and `DuplicatesLoop`: no DUPLICATE asks
  for two keys, which would add up counts nobody set
  (`src/src/query/data/DuplicateQuery.cpp:24`). The queries of `DataAnswers` satisfy all
  three. That a table has no key twice is what `Table` and `Database` are proved to keep,
  but for the UPDATE of `TableClash`.
* `DatabaseProofs`: of a line DUMP wrote LOAD reads the row that was written or nothing
  (`ReadsBackOrFails`), and the row if no item after the first is wide (`NarrowReadsBack`).
  `FailedChangesNothing`, `DatabaseTypeOK`, `ReloadIsExact` and `NarrowDumpLoads`, for any
  names, files, rows INSERT is given and bounds. The inductive invariant is `IndInv` of
  `Database`: a file in `origin` holds exactly the text of one of the tables `operator<<`
  may see in what DUMP wrote (`HoldsDump`, `Prints`; of a `Whole` table the table itself,
  lemma `WholeDump`); a LOAD in execution has read the rows before its line, which of a
  dumped table are its first rows (`Loading`); while a DUMP is at work `origin` says
  nothing of its file (`Dumping`), which is what makes a crash in between harmless. Each
  row read is then by `ReadsBackOrFails` the row written.
* `ReplProofs`: `ReplTypeOK`, `ParsedAsWritten`, `RefusedIsIllFormed` and `ReadInOrder`, for
  any files, command lines and bounds. `ParseInv` says of each stage of the builders what the
  tokens behind the iterator must have been, so that a query that is built is the reading
  of the whole string and one that is refused has none; nothing of the query before is left
  in the members by then. `StackInv` and `CountInv` say that no file is opened beyond
  `MaxOpen`. `OrderInv` is the invariant behind `ReadInOrder`: what was dealt with, what is in
  hand and what is still to come in the inputs of the stack (`ToCome`), end to end, is
  always what the inputs are to give, whatever listens to what.
* `RecursionProofs`: induction over the naturals stated with a set in place of an operator,
  which the provers can instantiate; from it, that a function defined by recursion exists,
  and what `FlattenSeq` makes of the first sequence and the rest. The proofs of `Loop`
  (the loops over rows of `DataQueries`) and of the stack of inputs need them.

Only model-checked: all liveness (`EveryGetReturns`, `OnlySleepersStay`,
`AnsweredUnlessUndefined`, `QueryEnds`, `MainEnds`, the fair part of the refinements), since the
prover does not reason about fairness. Every invariant of a passing run is proved.

## 5. Not modelled

Formatting of answers, messages, the splitting of a string into tokens, and the exception
types. `Table::operator[]` by key from outside, `forwardKeyMap`, `dataAfterDelete`,
`testKeyCondition`, `start` and `Task_size` are never used by the program, and `SafeQueue`
is included nowhere. Signed overflow is modelled as wrapping. Of files: a disk that
is full, a file cut in the middle of a line, ints spelled in another way than `<<` spells
them (`+7`, `007`). Rows with another number of values than the table has fields are in
`Database`; what the data queries make of one, and `Table`, is not modelled. The
text after an input's last ';', which the code drops.

Departures of the code from its documents that the models contain, or that were met
while writing them, and that have no run of their own:

* At the end of the input without QUIT main calls `pthread_exit`: the destructor of the
  pool does not run and the workers sleep for ever (`EndOfInput`), where `src/README.md:47`
  has the threads end when all tasks are finished.
* `Thread_count` returns one less than the number of workers that are in no task, where
  `src/src/multithreads/MultiThread.hpp:105` says "Return the current idle_threads":
  `pool_set` writes over the 1 of the constructor's thread. Theorem `ThreadCountIsShort`
  says so for any number of workers. With all of them busy it is -1, which the queries read
  as the unsigned 4294967295 and take the parallel branch. It harms no answer
  (`ImplementsSerial` and `AnswerIsPromised` hold for either branch): the tasks wait in
  the queue until a worker comes.
* INSERT looks at the number of values nowhere (`src/src/query/data/InsertQuery.cpp:24`). A
  row that is too long loses the rest in a DUMP, one that is too short makes SHOWTABLE and
  DUMP read beyond it (`Prints`, `Undefined`).
* LOAD of a table of no columns is undefined behaviour (`NoFront`), not an error.
* DUPLICATE adds up counts that were never set, in its parallel branch, when the clause
  asks for two keys (`TaskReturns`, `Garbage`).
* LISTEN to a file that does not open ends the process (`Listen`), where the manual,
  `src/manual.pdf`, page 18, says to carry on without it; no descriptor is ever closed; a
  query with LISTEN in a name is taken for LISTEN.
* A failed DUMP has emptied its file (`DumpOpen`).
* The value of a condition is read as a long and cut to an int (`valueParsed`).

## 6. Plan

1. *(done)* Pool, engine, table and data queries with their abstract specifications; the
   proofs of the pool and the table's invariants, and of the partition.
2. *(done)* `QueryCondition`, used by `DataQueries`; `DumpFormat` and `Database`, with the
   death of the process, and the proofs about them.
3. *(done)* `QueryParser` and `Repl`.
4. *(done)* `QueryEngine` proved when no partition throws; its answers, whatever throws.
5. *(done)* `Table` implements `KeyedTable`, proved.
6. *(done)* The parser and the main loop proved; types, `NoRowShared` and SELECT's queue of
   `DataQueries` proved.
7. *(done)* `TableIsPromised` and `AnswerIsPromised` of `DataQueries` proved.
8. `Repl` composed with `QueryEngine` and `Database`, in place of its execute(): the
   three meet only between two queries, so what this adds is the end of the process in
   the middle of an input.
