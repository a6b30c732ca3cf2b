------------------------------ MODULE DataQueries ------------------------------
(***************************************************************************)
(* The data queries that read rows or change them in place, on one table:  *)
(* what their sequential branch computes, what the tasks of the parallel   *)
(* branch compute on their sub tables in any interleaving, how main puts   *)
(* the partial results together, and what the query promises.              *)
(*                                                                         *)
(* The thread pool is left out (QueryEngine has it): a task may take its   *)
(* next row at any time until it has returned or thrown.  Operands are     *)
(* field numbers or NoField, a name the table does not have.  Main is here *)
(* at an exception when all tasks have ended: a task it leaves behind uses *)
(* a query that is gone, which QueryEngine has.  A field is an int of Bits *)
(* bits and sums wrap.  A key is a number, ordered as the strings are, and *)
(* k + 1 is the key k with "_copy" appended.                               *)
(***************************************************************************)
EXTENDS Partition, QueryCondition, SequencesExt

CONSTANTS
  NoField,    \* a field name that is not in the table
  Garbage,    \* what an uninitialised int may hold
  Tables,     \* tables to begin with: sequences of [key, f]
  QuerySet,   \* queries: [kind, ops, conds]
  NQ          \* bound: the number of queries

Counters == {"COUNT", "ADD", "SUB", "SWAP"}
Extrema == {"MIN", "MAX"}
Gatherers == Extrema \cup {"SUM"}
Kinds == Counters \cup Gatherers \cup {"DUPLICATE", "SELECT"}

Int32 == IntMin .. IntMax
Rows == [key : Nat, f : [Fields -> Int32]]
Conditions == [field : Fields \cup {KEY, NoField}, op : STRING, value : Int]

KeysDiffer(t) == \A i, j \in DOMAIN t : t[i].key = t[j].key => i = j

ASSUME DataAssumption ==
  /\ NoField \notin Fields /\ Garbage \subseteq Int /\ NQ \in Nat
  /\ \A t \in Tables : t \in Seq(Rows) /\ KeysDiffer(t)
  /\ \A q \in QuerySet : /\ q.kind \in Kinds /\ q.ops \in Seq(Fields \cup {NoField})
                          /\ q.conds \in Seq(Conditions)

VARIABLES
  table,         \* the rows
  query,         \* the query in execution, or NoQuery
  phase,         \* where main is: "repl", "begun", "wait", "answer"
  counter,       \* main's local counter
  keys,          \* DUPLICATE's vector of keys
  int_arr,       \* the static array SUM, MIN and MAX gather into
  found,         \* MIN's and MAX's static flag
  priorityQueue, \* SELECT's static queue: how often each row is in it
  oss,           \* the keys of the rows SELECT has printed
  pos,           \* per task: the next row it looks at, from 0
  acc,           \* per task: its local result
  returned,      \* the tasks whose future is ready
  answer,        \* the answer to the last query
  left,          \* how many queries may still come
  before         \* history: the table when the query began

main == <<query, phase, counter, keys, oss, answer, left, before>>
statics == <<int_arr, found, priorityQueue>>
tasks == <<pos, acc, returned>>
vars == <<table, main, statics, tasks>>

size == Len(table)
NoQuery == [kind |-> "none"]
NoRows == [i \in {} |-> 0]

\* The static pair that initCondition returns: its flag.
result(q) == initCondition(q.conds) = "true"
-------------------------------------------------------------------------------
(* One row. *)

\* What a loop makes of v: turn by turn, a function of what it had before.
Loop(v, turns) ==
  LET after[i \in 0 .. Len(turns)] == IF i = 0 THEN v ELSE turns[i][after[i - 1]]
  IN after[Len(turns)]

Add(ops, row) == Loop(0, [i \in DOMAIN ops |-> [s \in Int32 |-> Wrap(s + row.f[ops[i]])]])
Sub(v, ops, row) == Loop(v, [i \in DOMAIN ops |-> [s \in Int32 |-> Wrap(s - row.f[ops[i]])]])

\* MUTANT of AddRow: the destination is summed as well.
AddAllRow(ops, row) == [row EXCEPT !.f = [@ EXCEPT ![Last(ops)] = Add(ops, row)]]

\* MUTANT of AddRow: the sum is wider than a field.
AddWideRow(ops, row) ==
  LET sum == Loop(0, [i \in DOMAIN Front(ops) |-> [s \in Int |-> s + row.f[ops[i]]]])
  IN [row EXCEPT !.f = [@ EXCEPT ![Last(ops)] = sum]]

\* The last operand is the destination, the others are summed.
AddRow(ops, row) == [row EXCEPT !.f = [@ EXCEPT ![Last(ops)] = Add(Front(ops), row)]]

\* From the first operand those between it and the destination are taken off.
SubRow(ops, row) ==
  LET difference == Sub(row.f[Head(ops)], Tail(Front(ops)), row)
  IN [row EXCEPT !.f = [@ EXCEPT ![Last(ops)] = difference]]

SwapRow(ops, row) ==
  [row EXCEPT !.f = [@ EXCEPT ![ops[2]] = row.f[ops[1]], ![ops[1]] = row.f[ops[2]]]]

Change(q, row) == CASE q.kind = "ADD"  -> AddRow(q.ops, row)
                    [] q.kind = "SUB"  -> SubRow(q.ops, row)
                    [] q.kind = "SWAP" -> SwapRow(q.ops, row)
                    [] OTHER           -> row

evalDuplicate(k) == \A i \in DOMAIN table : table[i].key # k + 1
-------------------------------------------------------------------------------
(* The local result of a loop over rows. *)

\* What it may be, on a table that has these keys.
Locals(q, Keys) == CASE q.kind \in Gatherers  -> [DOMAIN q.ops -> Int32]
                     [] q.kind = "DUPLICATE" -> [subcounter : Int, sub_keys : Seq(Keys)]
                     [] OTHER                -> Int

KeysOf(t) == {t[i].key : i \in DOMAIN t}

Zero(q) == CASE q.kind = "SUM"       -> [i \in DOMAIN q.ops |-> 0]
             [] q.kind = "MAX"       -> [i \in DOMAIN q.ops |-> IntMin]
             [] q.kind = "MIN"       -> [i \in DOMAIN q.ops |-> IntMax]
             [] q.kind = "DUPLICATE" -> [subcounter |-> 0, sub_keys |-> <<>>]
             [] OTHER                -> 0

Sub_Sum(a, b) == [i \in DOMAIN a |-> Wrap(a[i] + b[i])]
Sub_max(a, b) == [i \in DOMAIN a |-> IF a[i] < b[i] THEN b[i] ELSE a[i]]
Sub_min(a, b) == [i \in DOMAIN a |-> IF a[i] > b[i] THEN b[i] ELSE a[i]]

\* How SUM, MAX and MIN bring two partial results together.
Gather(q, a, b) == CASE q.kind = "SUM" -> Sub_Sum(a, b)
                     [] q.kind = "MAX" -> Sub_max(a, b)
                     [] q.kind = "MIN" -> Sub_min(a, b)

Sub_Duplicate(a, row) ==
  IF evalDuplicate(row.key)
    THEN [subcounter |-> a.subcounter + 1, sub_keys |-> Append(a.sub_keys, row.key)]
    ELSE a

\* a with one more row that satisfies the condition.
Take(q, a, row) ==
  CASE q.kind \in Counters   -> a + 1
    [] q.kind = "DUPLICATE"  -> Sub_Duplicate(a, row)
    [] q.kind \in Gatherers -> Gather(q, a, [i \in DOMAIN q.ops |-> row.f[q.ops[i]]])
    [] OTHER                 -> a

\* The rows, by position, the loops act on.
Matching(q, t) == {i \in DOMAIN t : result(q) /\ evalCondition(q.conds, t[i])}

Push(pq, S) == [i \in DOMAIN pq \cup S |->
                  (IF i \in DOMAIN pq THEN pq[i] ELSE 0) + (IF i \in S THEN 1 ELSE 0)]
-------------------------------------------------------------------------------
Init == /\ table \in Tables
        /\ query = NoQuery /\ phase = "repl"
        /\ counter = 0 /\ keys = <<>> /\ oss = <<>>
        /\ int_arr = <<>> /\ found = FALSE /\ priorityQueue = NoRows
        /\ pos = NoRows /\ acc = NoRows /\ returned = {}
        /\ answer = <<"none">>
        /\ left = NQ
        /\ before = table

\* The number of operands, which execute() looks at first.
OperandsFit(q) ==
  LET n == Len(q.ops)
  IN CASE q.kind \in {"COUNT", "DUPLICATE"} -> n = 0
       [] q.kind \in {"ADD", "SUB"}         -> n >= 2
       [] q.kind = "SWAP"                   -> n = 2
       [] q.kind \in Gatherers              -> n >= 1
       [] q.kind = "SELECT"                 -> TRUE

\* execute() stops before the first row: the operands are too many or too few,
\* initCondition throws, or SWAP looks up a field that is not there.
Refused(q) == \/ ~OperandsFit(q)
              \/ initCondition(q.conds) = "throws"
              \/ q.kind = "SWAP" /\ NoField \in ToSet(q.ops)

Comes(q) == /\ phase = "repl" /\ left > 0
            /\ query' = q /\ before' = table /\ left' = left - 1
            /\ counter' = 0 /\ keys' = <<>> /\ oss' = <<>>
            /\ UNCHANGED <<table, priorityQueue, tasks>>

Refuse(q) ==
  /\ Comes(q) /\ Refused(q)
  /\ answer' = <<"error">>
  /\ found' = (~(q.kind \in Extrema /\ OperandsFit(q)) /\ found)
  /\ UNCHANGED <<int_arr, phase>>

\* MUTANT of Begin: MIN's and MAX's flag is not reset.
BeginKeepsFound(q) ==
  /\ Comes(q) /\ ~Refused(q)
  /\ int_arr' = IF q.kind \in Gatherers THEN Zero(q) ELSE <<>>
  /\ phase' = "begun"
  /\ answer' = <<"none">>
  /\ UNCHANGED found

\* execute() sets up its locals and its file's statics.
Begin(q) ==
  /\ Comes(q) /\ ~Refused(q)
  /\ int_arr' = IF q.kind \in Gatherers THEN Zero(q) ELSE <<>>
  /\ found' = (q.kind \notin Extrema /\ found)
  /\ phase' = "begun"
  /\ answer' = <<"none">>

Respond(a) == /\ answer' = a
              /\ phase' = "repl"

\* The loops read or write a field that is not there.
LooksUpNoField == query.kind # "SELECT" /\ NoField \in ToSet(query.ops)

\* What a loop that saw the rows S in this order makes of them.
ScanRows(S) ==
  /\ table' = [i \in DOMAIN table |-> IF i \in S THEN Change(query, table[i]) ELSE table[i]]
  /\ found' = (found \/ (query.kind \in Extrema /\ S # {}))
  /\ priorityQueue' = IF query.kind = "SELECT" THEN Push(priorityQueue, S) ELSE priorityQueue

\* The sequential branch: the table is small or the pool has too few threads.
Sequential ==
  LET M == Matching(query, table)
      all == Loop(Zero(query),
               [i \in DOMAIN table |-> [a \in Locals(query, KeysOf(table)) |->
                  IF i \in M THEN Take(query, a, table[i]) ELSE a]])
  IN /\ phase = "begun" /\ (M # {} => ~LooksUpNoField)
     /\ ScanRows(M)
     /\ counter' = CASE query.kind \in Counters -> all
                     [] query.kind = "DUPLICATE" -> all.subcounter
                     [] OTHER -> 0
     /\ keys' = IF query.kind = "DUPLICATE" THEN all.sub_keys ELSE <<>>
     /\ int_arr' = IF query.kind \in Gatherers THEN all ELSE int_arr
     /\ phase' = "answer"
     /\ UNCHANGED <<query, oss, answer, left, before, tasks>>

\* The sequential loop throws at the first row it acts on.  SUM, MIN and MAX
\* have gathered the operands before the one that is not there.
SequentialThrows ==
  LET M == Matching(query, table)
      first == CHOOSE i \in M : \A j \in M : i <= j
  IN /\ phase = "begun" /\ M # {} /\ LooksUpNoField
     /\ found' = (query.kind \in Extrema \/ found)
     /\ int_arr' = IF query.kind \notin Gatherers THEN int_arr
                   ELSE LET k == CHOOSE i \in DOMAIN query.ops :
                                   /\ query.ops[i] = NoField
                                   /\ \A j \in 1 .. i - 1 : query.ops[j] # NoField
                        IN [i \in DOMAIN int_arr |->
                              IF i < k THEN table[first].f[query.ops[i]] ELSE int_arr[i]]
     /\ Respond(<<"error">>)
     /\ UNCHANGED <<table, query, counter, keys, oss, left, before, priorityQueue, tasks>>

\* The parallel branch submits one task per sub table.
Fork ==
  /\ phase = "begun" /\ size >= Split
  /\ pos' = [id \in Ids(size) |-> head(size, id)]
  /\ acc' = [id \in Ids(size) |-> Zero(query)]
  /\ returned' = {}
  /\ phase' = "wait"
  /\ UNCHANGED <<table, query, counter, keys, oss, answer, left, before, statics>>

\* One turn of the loop of task id, at a row where it does not throw.
ScanRow(id) ==
  LET i == pos[id] + 1    \* rows are numbered from 1
      M == {i} \cap Matching(query, table)
  IN /\ id \notin returned /\ result(query) /\ pos[id] < tail(size, id)
     /\ (M # {} => ~LooksUpNoField)
     /\ pos' = [pos EXCEPT ![id] = @ + 1]
     /\ acc' = IF M = {} THEN acc ELSE [acc EXCEPT ![id] = Take(query, @, table[i])]
     /\ ScanRows(M)
     /\ UNCHANGED <<main, int_arr, returned>>

\* The task ends.  SUM, MIN and MAX gather their result under m_mutex; the
\* count of DUPLICATE is only set if the loop was there to set it.
TaskReturns(id) ==
  /\ id \notin returned
  /\ result(query) => pos[id] = tail(size, id)
  /\ returned' = returned \cup {id}
  /\ int_arr' = IF query.kind \in Gatherers THEN Gather(query, int_arr, acc[id]) ELSE int_arr
  /\ IF query.kind = "DUPLICATE" /\ ~result(query)
       THEN \E g \in Garbage : acc' = [acc EXCEPT ![id].subcounter = g]
       ELSE UNCHANGED acc
  /\ UNCHANGED <<table, main, pos, found, priorityQueue>>

\* The task throws at the first row it acts on, and what it has goes with it.
TaskThrows(id) ==
  /\ id \notin returned /\ result(query) /\ pos[id] < tail(size, id)
  /\ pos[id] + 1 \in Matching(query, table) /\ LooksUpNoField
  /\ returned' = returned \cup {id}
  /\ found' = (found \/ query.kind \in Extrema)
  /\ UNCHANGED <<table, main, pos, acc, int_arr, priorityQueue>>

\* The future of task id is ready with an exception.
Threw(id) == id \in returned /\ result(query) /\ pos[id] # tail(size, id)
OneThrew == \E id \in DOMAIN pos : Threw(id)

\* Every future is ready, and main has got them in order.
Join ==
  LET futures == 1 .. total_thread(size)
      Count(a) == IF query.kind = "DUPLICATE" THEN a.subcounter ELSE a
  IN /\ phase = "wait" /\ returned = Ids(size) /\ ~OneThrew
     /\ counter' = IF query.kind \notin Counters \cup {"DUPLICATE"} THEN 0
                   ELSE Loop(0, [i \in futures |-> [s \in Int |-> s + Count(acc[i - 1])]])
     /\ keys' = IF query.kind # "DUPLICATE" THEN <<>>
                ELSE FlattenSeq([i \in futures |-> acc[i - 1].sub_keys])
     /\ pos' = NoRows /\ acc' = NoRows /\ returned' = {}
     /\ phase' = "answer"
     /\ UNCHANGED <<table, query, oss, answer, left, before, statics>>

\* One of them throws.
JoinThrows ==
  /\ phase = "wait" /\ returned = Ids(size) /\ OneThrew
  /\ pos' = NoRows /\ acc' = NoRows /\ returned' = {}
  /\ Respond(<<"error">>)
  /\ UNCHANGED <<table, query, counter, keys, oss, left, before, statics>>

\* The counts, and the arrays of SUM, MIN and MAX.
Answer ==
  /\ phase = "answer" /\ query.kind \in Counters \cup Gatherers
  /\ Respond(CASE query.kind \in Counters -> <<"count", counter>>
               [] query.kind \in Extrema /\ ~found -> <<"null">>
               [] OTHER -> <<"values", int_arr>>)
  /\ UNCHANGED <<table, query, counter, keys, oss, left, before, statics, tasks>>

\* DUPLICATE inserts its copies and answers its count.
AnswerDuplicate ==
  LET Row(k) == CHOOSE row \in ToSet(table) : row.key = k
  IN /\ phase = "answer" /\ query.kind = "DUPLICATE"
     /\ table' = table \o [i \in DOMAIN keys |-> [Row(keys[i]) EXCEPT !.key = @ + 1]]
     /\ Respond(<<"count", counter>>)
     /\ UNCHANGED <<query, counter, keys, oss, left, before, statics, tasks>>

\* SELECT prints the row at the top, the one with the least key, and pops it.
\* An operand that is no field throws before the row is popped.
PrintRow ==
  LET top == CHOOSE i \in DOMAIN priorityQueue :
               \A j \in DOMAIN priorityQueue : table[i].key <= table[j].key
  IN /\ phase = "answer" /\ query.kind = "SELECT" /\ priorityQueue # NoRows
     /\ IF NoField \in ToSet(query.ops)
          THEN /\ Respond(<<"error">>)
               /\ UNCHANGED <<oss, priorityQueue>>
          ELSE /\ oss' = Append(oss, table[top].key)
               /\ priorityQueue' =
                    IF priorityQueue[top] > 1 THEN [priorityQueue EXCEPT ![top] = @ - 1]
                    ELSE [i \in DOMAIN priorityQueue \ {top} |-> priorityQueue[i]]
               /\ UNCHANGED <<answer, phase>>
     /\ UNCHANGED <<table, query, counter, keys, left, before, int_arr, found, tasks>>

\* MUTANT of AnswerSelect: the loop stops at the last row.
AnswerAtLast ==
  /\ phase = "answer" /\ query.kind = "SELECT"
  /\ Cardinality(DOMAIN priorityQueue) <= 1
  /\ Respond(IF oss = <<>> THEN <<"null">> ELSE <<"keys", oss>>)
  /\ UNCHANGED <<table, query, counter, keys, oss, left, before, statics, tasks>>

\* There was no row, or there is none left.
AnswerSelect ==
  /\ phase = "answer" /\ query.kind = "SELECT" /\ priorityQueue = NoRows
  /\ Respond(IF oss = <<>> THEN <<"null">> ELSE <<"keys", oss>>)
  /\ UNCHANGED <<table, query, counter, keys, oss, left, before, statics, tasks>>

Task(id) == ScanRow(id) \/ TaskReturns(id) \/ TaskThrows(id)

Next == \/ \E q \in QuerySet : Refuse(q) \/ Begin(q)
        \/ Sequential \/ SequentialThrows \/ Fork \/ Join \/ JoinThrows
        \/ \E id \in DOMAIN pos : Task(id)
        \/ Answer \/ AnswerDuplicate \/ PrintRow \/ AnswerSelect

Spec == Init /\ [][Next]_vars
-------------------------------------------------------------------------------
(* What a query promises, whatever the branch and the interleaving. *)

\* The sum of the fields ops of a row, of a field over the rows S, and the
\* values of a field on the rows S: plain numbers, which do not wrap.
Plain(row, ops) == Loop(0, [i \in DOMAIN ops |-> [s \in Int |-> s + row.f[ops[i]]]])
Total(t, S, k) ==
  Loop(0, [i \in DOMAIN t |-> [s \in Int |-> IF i \in S THEN s + t[i].f[k] ELSE s]])
Column(t, S, k) == {t[i].f[k] : i \in S}

\* The rows that satisfy every condition; and whether the clause is in error:
\* a condition is ill-formed, and no two before it ask for different keys.
Meant(q, t) == {i \in DOMAIN t : \A c \in ToSet(q.conds) :
                  IF OnKey(c) THEN t[i].key = c.value ELSE comp(c.op, t[i].f[c.field], c.value)}

WhereFails(q) ==
  \E i \in DOMAIN q.conds :
    /\ IllFormed(q.conds[i])
    /\ \A j, k \in 1 .. i - 1 : OnKey(q.conds[j]) /\ OnKey(q.conds[k])
                                  => q.conds[j].value = q.conds[k].value

\* Of the first n rows those DUPLICATE gives a copy, in their order.
Copied(q, t) == {i \in Meant(q, t) : \A j \in DOMAIN t : t[j].key # t[i].key + 1}
Fresh(q, t, n) ==
  Loop(<<>>, [i \in 1 .. n |->
    [rows \in Seq(Rows) |-> IF i \in Copied(q, t) THEN Append(rows, t[i]) ELSE rows]])

\* The n-th of the numbers in ascending order has n - 1 below it.
Ascending(S) ==
  [n \in 1 .. Cardinality(S) |-> CHOOSE x \in S : Cardinality({y \in S : y < x}) = n - 1]

Value(q, t, M) ==
  CASE q.kind \in Counters -> <<"count", Cardinality(M)>>
    [] q.kind = "DUPLICATE" -> <<"count", Len(Fresh(q, t, Len(t)))>>
    [] q.kind = "SUM" -> <<"values", [i \in DOMAIN q.ops |-> Wrap(Total(t, M, q.ops[i]))]>>
    [] q.kind \in Extrema \cup {"SELECT"} /\ M = {} -> <<"null">>
    [] q.kind = "MAX" /\ M # {} ->
         <<"values", [i \in DOMAIN q.ops |-> Max(Column(t, M, q.ops[i]))]>>
    [] q.kind = "MIN" /\ M # {} ->
         <<"values", [i \in DOMAIN q.ops |-> Min(Column(t, M, q.ops[i]))]>>
    [] q.kind = "SELECT" /\ M # {} -> <<"keys", Ascending({t[i].key : i \in M})>>

Promise(q, t) ==
  LET M == Meant(q, t)
  IN CASE ~OperandsFit(q) \/ WhereFails(q) -> <<"error">>
       [] q.kind = "SWAP" /\ NoField \in ToSet(q.ops) -> <<"error">>
       [] OTHER -> IF M # {} /\ NoField \in ToSet(q.ops) THEN <<"error">>
                   ELSE Value(q, t, M)

\* The field k of a row that satisfies the condition of q.
Written(q, row, k) ==
  LET ops == q.ops
  IN CASE q.kind = "ADD" /\ k = Last(ops) -> Wrap(Plain(row, Front(ops)))
       [] q.kind = "SUB" /\ k = Last(ops) ->
            Wrap(row.f[Head(ops)] - Plain(row, Tail(Front(ops))))
       [] q.kind = "SWAP" /\ k = ops[1] -> row.f[ops[2]]
       [] q.kind = "SWAP" /\ k = ops[2] -> row.f[ops[1]]
       [] OTHER -> row.f[k]

\* A query in error changes nothing.
TableAfter(q, t) ==
  LET M == Meant(q, t)
      copies == IF q.kind = "DUPLICATE" THEN Fresh(q, t, Len(t)) ELSE <<>>
  IN IF Promise(q, t) = <<"error">> THEN t
     ELSE [i \in DOMAIN t |->
             [t[i] EXCEPT !.f = [k \in DOMAIN @ |-> IF i \in M THEN Written(q, t[i], k) ELSE @[k]]]]
            \o [i \in DOMAIN copies |-> [copies[i] EXCEPT !.key = @ + 1]]
-------------------------------------------------------------------------------
\* The types; the fields stay within an int.
DataTypeOK ==
  /\ table \in Seq(Rows)
  /\ query \in QuerySet \cup {NoQuery}
  /\ phase \in {"repl", "begun", "wait", "answer"}
  /\ counter \in Int
  /\ ToSet(keys) \cup ToSet(oss) \subseteq Nat
  /\ ToSet(int_arr) \subseteq Int32
  /\ found \in BOOLEAN
  /\ DOMAIN priorityQueue \subseteq DOMAIN table
  /\ \A i \in DOMAIN priorityQueue : priorityQueue[i] > 0
  /\ DOMAIN pos = DOMAIN acc /\ returned \subseteq DOMAIN pos
  /\ DOMAIN pos \in {{}, Ids(size)}
  /\ \A id \in DOMAIN pos : acc[id] \in Locals(query, KeysOf(table))
  /\ left \in 0 .. NQ

\* The answer to a query is what it promises of the table it found: the count,
\* the sums, the extrema, the keys in ascending order, whichever branch
\* execute() takes, however the tasks interleave, whatever was asked before.
AnswerIsPromised == answer # <<"none">> => answer = Promise(query, before)

\* The table a query leaves is the one it promises: each row that satisfies
\* the condition, as it was before the query, is changed once, and no other.
TableIsPromised == phase = "repl" /\ query # NoQuery => table = TableAfter(query, before)

\* No two tasks have a row to scan in common, and every row they have to scan
\* is there: the loops need no lock on the rows.
NoRowShared ==
  LET todo(id) == pos[id] .. tail(size, id) - 1
  IN \A i \in DOMAIN pos : /\ todo(i) \subseteq 0 .. size - 1
                           /\ \A j \in DOMAIN pos : i # j => todo(i) \cap todo(j) = {}

\* SELECT's queue holds rows of the query in execution only, each once: it is
\* static, and nothing but the printing loop empties it.
QueueIsOwn ==
  \A i \in DOMAIN priorityQueue :
    /\ query.kind = "SELECT" /\ phase # "repl"
    /\ priorityQueue[i] = 1 /\ i \in Matching(query, before)
-------------------------------------------------------------------------------
(* Why it is so. *)

\* Main looks at nothing that execute() has refused.
QueryInv ==
  /\ query \in QuerySet \cup {NoQuery} /\ left \in 0 .. NQ
  /\ phase \in {"repl", "begun", "wait", "answer"}
  /\ phase # "repl" => query \in QuerySet /\ ~Refused(query)

\* What main, the statics and the table hold.
RowsInv ==
  /\ table \in Seq(Rows) /\ int_arr \in Seq(Int32) /\ found \in BOOLEAN
  /\ counter \in Int /\ keys \in Seq(Nat) /\ oss \in Seq(Nat)
  /\ phase # "repl" /\ query.kind \in Gatherers => int_arr \in [DOMAIN query.ops -> Int32]
  /\ phase = "answer" /\ query.kind = "DUPLICATE" => keys \in Seq(KeysOf(table))
  /\ DOMAIN priorityQueue \subseteq DOMAIN table
  /\ priorityQueue \in [DOMAIN priorityQueue -> Nat \ {0}]

\* A task throws for one reason.
ThrewInv == OneThrew => LooksUpNoField

\* There are tasks while main waits for them, each somewhere in its part, and
\* the size main split by is still the size of the table.
TasksInv ==
  /\ DOMAIN acc = DOMAIN pos /\ returned \subseteq DOMAIN pos
  /\ phase # "wait" => DOMAIN pos = {}
  /\ phase = "wait" => size >= Split /\ DOMAIN pos = Ids(size)
  /\ \A id \in DOMAIN pos : /\ pos[id] \in head(size, id) .. tail(size, id)
                             /\ acc[id] \in Locals(query, KeysOf(table))
  /\ ThrewInv

DataInv == QueryInv /\ RowsInv /\ TasksInv

\* A row is in the queue because a task has passed it, or the only loop.
QueueInv ==
  /\ phase # "repl" /\ query.kind = "SELECT" => table = before
  /\ phase \in {"repl", "begun"} => priorityQueue = NoRows
  /\ phase = "wait" => \A i \in DOMAIN priorityQueue : \E id \in DOMAIN pos :
                         head(size, id) < i /\ i <= pos[id]
  /\ QueueIsOwn

\* The table when the rows S have had their turn.
Halfway(S) == [i \in DOMAIN before |-> IF i \in S \cap Matching(query, before)
                                       THEN Change(query, before[i]) ELSE before[i]]

Passed == {i \in DOMAIN before : \E id \in DOMAIN pos : head(size, id) < i /\ i <= pos[id]}

\* With an operand that is no field a task stops before the first row it acts on.
StopInv ==
  /\ phase = "wait" /\ LooksUpNoField => Passed \cap Matching(query, before) = {}
  /\ \A id \in DOMAIN pos : Threw(id) => pos[id] + 1 \in Matching(query, before)

\* Each row that has had its turn is changed once, the others not at all.
TurnsInv ==
  /\ before \in Seq(Rows) /\ KeysDiffer(before) /\ KeysDiffer(table)
  /\ phase = "begun" => table = before
  /\ phase = "wait" => table = Halfway(Passed)
  /\ phase = "answer" => /\ table = Halfway(DOMAIN before)
                         /\ Matching(query, before) # {} => ~LooksUpNoField
  /\ StopInv

\* Of the rows a + 1 to b those the loops act on.
Acted(a, b) == {i \in Matching(query, before) : a < i /\ i <= b}

ActedBy(id) == Acted(head(size, id), pos[id])

\* What SUM, MAX and MIN have gathered of the rows S.
Gathered(q, t, S) ==
  [k \in DOMAIN q.ops |->
     CASE q.kind = "SUM" -> Wrap(Total(t, S, q.ops[k]))
       [] q.kind = "MAX" -> Max(Column(t, S, q.ops[k]) \cup {IntMin})
       [] q.kind = "MIN" -> Min(Column(t, S, q.ops[k]) \cup {IntMax})]

KeysIn(rows) == [i \in DOMAIN rows |-> rows[i].key]

\* What DUPLICATE has listed of the first n rows.
Listed(n) == KeysIn(Fresh(query, before, n))

\* What a loop over the rows h + 1 to n has for its local result: of DUPLICATE
\* a list that continues the one of the rows before.
LocalOf(a, h, n) ==
  /\ query.kind \in Counters => a = Cardinality(Acted(h, n))
  /\ query.kind \in Gatherers => a = Gathered(query, before, Acted(h, n))
  /\ query.kind = "DUPLICATE" => Listed(n) = Listed(h) \o a.sub_keys

CountsKeys(a) == query.kind = "DUPLICATE" => a.subcounter = Len(a.sub_keys)

\* A local result is that of the rows its task has passed.
LocalInv ==
  \A id \in DOMAIN pos : /\ LocalOf(acc[id], head(size, id), pos[id])
                         /\ result(query) => CountsKeys(acc[id])

\* What main and the statics have is the result of the rows whose tasks have
\* returned, and in the end of all of them.
Scanned == CASE phase = "begun"  -> {}
             [] phase = "wait"   -> Passed
             [] phase = "answer" -> DOMAIN before

Returned == CASE phase = "begun"  -> {}
              [] phase = "wait"   -> UNION {ActedBy(id) : id \in returned}
              [] phase = "answer" -> Matching(query, before)

ResultInv ==
  /\ phase # "repl" =>
       /\ query.kind \in Gatherers => int_arr = Gathered(query, before, Returned)
       /\ query.kind \in Extrema => found = (Scanned \cap Matching(query, before) # {} \/ OneThrew)
  /\ phase = "answer" =>
       /\ query.kind \in Counters => counter = Cardinality(Matching(query, before))
       /\ query.kind = "DUPLICATE" => keys = Listed(Len(before))

\* The queue has the rows the tasks have passed, less those main has printed.
PrintInv ==
  phase # "repl" /\ query.kind = "SELECT" =>
    LET M == Matching(query, before)
    IN /\ phase # "answer" => oss = <<>> /\ DOMAIN priorityQueue = Scanned \cap M
       /\ ToSet(oss) = {before[i].key : i \in (Scanned \cap M) \ DOMAIN priorityQueue}
       /\ \A i, j \in DOMAIN oss : i < j => oss[i] < oss[j]
       /\ \A i \in DOMAIN oss, j \in DOMAIN priorityQueue : oss[i] < before[j].key

\* DUPLICATE counts what it lists.
CountInv == phase = "answer" /\ query.kind = "DUPLICATE" => counter = Len(keys)

PromiseInv == TurnsInv /\ LocalInv /\ ResultInv /\ TableIsPromised

\* Nothing is answered before main is back at the prompt.
AnswerInv ==
  /\ PrintInv /\ CountInv
  /\ phase # "repl" => answer = <<"none">>
  /\ AnswerIsPromised
================================================================================
