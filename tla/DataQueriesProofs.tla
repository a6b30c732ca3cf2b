--------------------------- MODULE DataQueriesProofs ---------------------------
(***************************************************************************)
(* Why the tasks of a query need no lock on the rows, from the theorems on *)
(* Partition: it stays so while they move, in any interleaving, because    *)
(* neither a task nor main changes the size of the table meanwhile.  And   *)
(* what initCondition tells of a WHERE clause, for any conditions.         *)
(***************************************************************************)
EXTENDS DataQueries, RecursionProofs, TLAPS

\* Integer division, with the products written as they occur below.
LEMMA Quotient ==
  ASSUME NEW a \in Nat, NEW b \in Nat, b >= 1
  PROVE  /\ a \div b \in Nat
         /\ b * (a \div b) <= a /\ (a \div b) * b <= a
         /\ a < (a \div b) * b + b
  BY SMT

\* More times as much is not less.
LEMMA Multiples ==
  ASSUME NEW a \in Nat, NEW b \in Nat, NEW s \in Nat, a <= b
  PROVE  /\ a * s \in Nat /\ b * s \in Nat
         /\ a * s <= b * s
  BY SMT

\* T tasks and s rows for each but the last, in a table of n rows: there is a
\* row for every task, and all the others together leave some for the last.
LEMMA Division ==
  ASSUME NEW n \in Nat, n >= Split
  PROVE  /\ total_thread(n) \in Nat /\ total_thread(n) >= 2
         /\ subtable_num(n) \in Nat /\ subtable_num(n) >= 1
         /\ total_thread(n) * subtable_num(n) <= n
<1> DEFINE d == n \div Split
           T == d + 1
           s == n \div T
<1>1. Split \in Nat /\ Split >= 2
  BY SplitAssumption
<1>2. d \in Nat /\ d * Split <= n /\ n < d * Split + Split
  BY <1>1, Quotient
<1>3. d >= 1
  BY <1>1, <1>2, SMT
<1>4. T \in Nat /\ T >= 2 /\ T <= n
  <2>1. d * 2 <= d * Split
    BY <1>1, <1>2, SMT
  <2> QED BY <1>1, <1>2, <1>3, <2>1, SMT
<1> HIDE DEF d
<1>5. s \in Nat /\ T * s <= n /\ n < s * T + T
  <2> HIDE DEF T
  <2> QED BY <1>4, Quotient
<1>6. s >= 1
  <2> HIDE DEF T, s
  <2> SUFFICES ASSUME s = 0 PROVE FALSE
    BY <1>5
  <2> QED BY <1>4, <1>5
<1> QED BY <1>4, <1>5, <1>6 DEF total_thread, subtable_num, d

\* Two tasks of a query never look at the same row, so their loops need no lock
\* on the rows (Sub_AddQuery and the other eight).
THEOREM SubTablesApart ==
  ASSUME NEW n \in Nat, n >= Split, NEW i \in Ids(n), NEW j \in Ids(n), i # j
  PROVE  SubTable(n, i) \cap SubTable(n, j) = {}
<1> DEFINE T == total_thread(n)
           s == subtable_num(n)
<1>1. T \in Nat /\ s \in Nat /\ s >= 1
  BY Division
<1>2. ASSUME NEW a \in Ids(n), NEW b \in Ids(n), a < b
      PROVE  SubTable(n, a) \cap SubTable(n, b) = {}
  <2>1. a \in Nat /\ b \in Nat /\ a + 1 <= b /\ a # T - 1
    BY <1>1, <1>2 DEF Ids
  <2>2. (a + 1) * s <= b * s
    BY <1>1, <2>1, Multiples
  <2>3. (a + 1) * s = a * s + s
    <3> HIDE DEF T, s
    <3> QED BY <1>1, <2>1, SMT
  <2>4. tail(n, a) = a * s + s /\ head(n, b) = b * s
    BY <2>1 DEF tail, head
  <2>5. a * s \in Int /\ b * s \in Int
    BY <1>1, <2>1
  <2>6. tail(n, a) <= head(n, b) /\ tail(n, a) \in Int /\ head(n, b) \in Int
    BY <1>1, <2>2, <2>3, <2>4, <2>5
  <2>7. \A r \in SubTable(n, a) : r \in Int /\ r < tail(n, a)
    BY <2>6 DEF SubTable
  <2>8. \A r \in SubTable(n, b) : r \in Int /\ r >= head(n, b)
    BY <2>6 DEF SubTable
  <2> QED BY <2>6, <2>7, <2>8
<1>3. i < j \/ j < i
  BY <1>1 DEF Ids
<1> QED BY <1>2, <1>3

\* Every row of a table that is split is in the sub table of some task, and
\* the tasks look at no row the table does not have.
THEOREM SubTablesCover ==
  ASSUME NEW n \in Nat, n >= Split
  PROVE  UNION {SubTable(n, id) : id \in Ids(n)} = 0 .. n - 1
<1> DEFINE T == total_thread(n)
           s == subtable_num(n)
<1>1. T \in Nat /\ T >= 2 /\ s \in Nat /\ s >= 1 /\ T * s <= n
  BY Division
<1>2. ASSUME NEW id \in Ids(n)
      PROVE  SubTable(n, id) \subseteq 0 .. n - 1
  <2>1. id \in Nat /\ id <= T - 1
    BY <1>1 DEF Ids
  <2>2. id * s \in Nat
    <3> HIDE DEF T, s
    <3> QED BY <1>1, <2>1, SMT
  <2>3. id # T - 1 => (id + 1) * s <= n
    <3> HIDE DEF T, s
    <3>1. id # T - 1 => (id + 1) * s <= T * s /\ (id + 1) * s \in Nat /\ T * s \in Nat
      BY <1>1, <2>1, Multiples
    <3> DEFINE p == (id + 1) * s
               m == T * s
    <3>2. id # T - 1 => p <= m /\ p \in Nat /\ m \in Nat
      BY <3>1
    <3>3. m <= n
      BY <1>1
    <3> HIDE DEF p, m
    <3>4. id # T - 1 => p <= n
      BY <3>2, <3>3
    <3> QED BY <3>4 DEF p
  <2>4. (id + 1) * s = id * s + s
    <3> HIDE DEF T, s
    <3> QED BY <1>1, <2>1, SMT
  <2>5. tail(n, id) \in Int /\ tail(n, id) <= n /\ head(n, id) \in Nat
    BY <1>1, <2>2, <2>3, <2>4 DEF tail, head
  <2> QED BY <2>5 DEF SubTable
<1>3. ASSUME NEW r \in 0 .. n - 1
      PROVE  \E id \in Ids(n) : r \in SubTable(n, id)
  <2> DEFINE d == r \div s
  <2>1. d \in Nat /\ d * s <= r /\ r < d * s + s
    <3> HIDE DEF T, s
    <3> QED BY <1>1, Quotient
  <2> HIDE DEF d
  <2>2. CASE d < T - 1
    <3>1. d \in Ids(n) /\ d # T - 1
      BY <1>1, <2>1, <2>2 DEF Ids
    <3>2. head(n, d) = d * s /\ tail(n, d) = d * s + s
      BY <3>1 DEF head, tail
    <3>3. r \in SubTable(n, d)
      BY <1>1, <2>1, <3>2 DEF SubTable
    <3> QED BY <3>1, <3>3
  <2>3. CASE d >= T - 1
    <3>1. T - 1 \in Ids(n)
      BY <1>1 DEF Ids
    <3>2. head(n, T - 1) = (T - 1) * s /\ tail(n, T - 1) = n
      BY DEF head, tail
    <3>3. (T - 1) * s <= r /\ (T - 1) * s \in Int
      <4> HIDE DEF T, s
      <4>1. (T - 1) * s <= d * s /\ (T - 1) * s \in Nat /\ d * s \in Nat
        BY <1>1, <2>1, <2>3, Multiples
      <4> DEFINE p == (T - 1) * s
                 m == d * s
      <4>2. p <= m /\ p \in Nat /\ m \in Nat /\ m <= r
        BY <2>1, <4>1
      <4> HIDE DEF p, m
      <4>3. p <= r /\ p \in Int
        BY <4>2
      <4> QED BY <4>3 DEF p
    <3>4. r \in SubTable(n, T - 1)
      BY <3>2, <3>3 DEF SubTable
    <3> QED BY <3>1, <3>4
  <2> QED BY <1>1, <2>1, <2>2, <2>3
<1> QED BY <1>2, <1>3
-------------------------------------------------------------------------------

\* The same length has the same positions.
LEMMA SameSize ==
  ASSUME NEW S, NEW s \in Seq(S), NEW t \in Seq(S), DOMAIN s = DOMAIN t
  PROVE  Len(s) = Len(t)
<1>1. Len(s) \in Nat /\ Len(t) \in Nat /\ 1 .. Len(s) = 1 .. Len(t)
  OBVIOUS
<1>2. Len(s) <= Len(t) /\ Len(t) <= Len(s)
  BY <1>1, SMT
<1> QED
  BY <1>1, <1>2

(* What is computed of one row. *)

LEMMA WrapType ==
  ASSUME NEW x \in Int
  PROVE  Wrap(x) \in Int32
<1>1. PICK half \in Nat : half = 2 ^ (Bits - 1) /\ half # 0 /\ 2 ^ Bits = 2 * half
  BY BitsAssumption
<1>2. IntMin = -half /\ IntMax = half - 1
  BY <1>1 DEF IntMin, IntMax
<1>3. PICK y \in Int : y = (x + half) % (2 * half) /\ 0 <= y /\ y < 2 * half
  BY <1>1
<1>4. Wrap(x) = y - half
  BY <1>1, <1>2, <1>3 DEF Wrap
<1> QED
  BY <1>1, <1>2, <1>3, <1>4 DEF Int32

\* The turns of a loop are steps of a recursion.
LEMMA LoopDef ==
  ASSUME NEW V, NEW v \in V, NEW n \in Nat, NEW turns \in [1 .. n -> [V -> V]]
  PROVE  \E f : Recurs(f, n, V, v, turns) /\ Loop(v, turns) = f[n]
<1> DEFINE step == [i \in Nat |-> IF i \in 1 .. n THEN turns[i] ELSE [x \in V |-> x]]
           body(f) == [i \in 0 .. n |-> IF i = 0 THEN v ELSE turns[i][f[i - 1]]]
           after == CHOOSE f : f = body(f)
<1>1. Len(turns) = n
  OBVIOUS
<1>2. Loop(v, turns) = after[n]
  BY <1>1 DEF Loop
<1>3. step \in [Nat -> [V -> V]]
  OBVIOUS
<1>4. \A i \in 1 .. n : step[i] = turns[i]
  OBVIOUS
<1> HIDE DEF step
<1>5. PICK f : Recurs(f, n, V, v, step)
  BY <1>3, RecursionExists, Zenon
<1>6. \A i \in 0 .. n : f[i] = IF i = 0 THEN v ELSE turns[i][f[i - 1]]
  <2>1. \A i \in 0 .. n : i = 0 \/ i \in 1 .. n
    OBVIOUS
  <2> QED
    BY <1>4, <1>5, <2>1 DEF Recurs
<1>7. f = body(f)
  BY <1>5, <1>6 DEF Recurs
<1>8. after = body(after)
  BY <1>7
<1> HIDE DEF after
<1> DEFINE A == {i \in Nat : i \in 0 .. n => after[i] = f[i]}
<1>9. 0 \in A
  BY <1>6, <1>8
<1>10. ASSUME NEW i \in Nat, i \in A
       PROVE  i + 1 \in A
  <2> SUFFICES ASSUME i + 1 \in 0 .. n PROVE after[i + 1] = f[i + 1]
    OBVIOUS
  <2>1. i \in 0 .. n /\ i + 1 # 0 /\ (i + 1) - 1 = i
    OBVIOUS
  <2>2. after[i + 1] = turns[i + 1][after[i]]
    BY <1>8, <2>1
  <2>3. f[i + 1] = turns[i + 1][f[i]]
    BY <1>6, <2>1
  <2> QED
    BY <1>10, <2>1, <2>2, <2>3
<1> HIDE DEF A
<1>11. \A i \in Nat : i \in A
  BY <1>9, <1>10, NatSetInduction
<1>12. after = f
  <2>1. after = [i \in 0 .. n |-> after[i]] /\ f = [i \in 0 .. n |-> f[i]]
    BY <1>7, <1>8
  <2>2. \A i \in 0 .. n : after[i] = f[i]
    BY <1>11 DEF A
  <2> QED
    BY <2>1, <2>2
<1>13. Recurs(f, n, V, v, turns)
  BY <1>4, <1>5 DEF Recurs
<1> QED
  BY <1>2, <1>12, <1>13

\* A loop stays in the type of its turns.
LEMMA LoopType ==
  ASSUME NEW V, NEW v \in V, NEW n \in Nat, NEW turns \in [1 .. n -> [V -> V]]
  PROVE  Loop(v, turns) \in V
<1>1. PICK f : Recurs(f, n, V, v, turns) /\ Loop(v, turns) = f[n]
  BY LoopDef, Zenon
<1>2. n \in 0 .. n
  OBVIOUS
<1> QED
  BY <1>1, <1>2 DEF Recurs

\* The operands are fields: nothing throws.
LEMMA OperandsAreFields ==
  ASSUME NEW q \in QuerySet, NoField \notin ToSet(q.ops)
  PROVE  q.ops \in Seq(Fields)
<1>1. q.ops \in Seq(Fields \cup {NoField})
  BY DataAssumption
<1>2. \A i \in 1 .. Len(q.ops) : q.ops[i] \in Fields
  BY <1>1 DEF ToSet
<1> QED
  BY <1>1, <1>2

LEMMA SmallInts == 0 \in Int32 /\ IntMin \in Int32 /\ IntMax \in Int32 /\ Int32 \subseteq Int
<1>1. PICK half \in Nat : half = 2 ^ (Bits - 1) /\ half # 0
  BY BitsAssumption
<1>2. IntMin = -half /\ IntMax = half - 1
  BY <1>1 DEF IntMin, IntMax
<1> QED
  BY <1>1, <1>2 DEF Int32

LEMMA FieldType ==
  ASSUME NEW row \in Rows, NEW k \in Fields
  PROVE  row.f[k] \in Int32
BY DEF Rows

LEMMA AddType ==
  ASSUME NEW ops \in Seq(Fields), NEW row \in Rows
  PROVE  Add(ops, row) \in Int32
<1> DEFINE turns == [i \in DOMAIN ops |-> [s \in Int32 |-> Wrap(s + row.f[ops[i]])]]
<1> HIDE DEF turns
<1>1. \A i \in DOMAIN ops : row.f[ops[i]] \in Int
  <2>1. \A i \in DOMAIN ops : ops[i] \in Fields
    OBVIOUS
  <2> QED
    BY <2>1, FieldType, SmallInts
<1>2. \A i \in DOMAIN ops : \A s \in Int32 : Wrap(s + row.f[ops[i]]) \in Int32
  BY <1>1, SmallInts, WrapType
<1>3. turns \in [1 .. Len(ops) -> [Int32 -> Int32]]
  BY <1>2 DEF turns
<1>4. Loop(0, turns) \in Int32
  <2>1. 0 \in Int32 /\ Len(ops) \in Nat
    BY SmallInts
  <2> QED
    BY <1>3, <2>1, LoopType, Zenon
<1> QED
  BY <1>4 DEF Add, turns

LEMMA SubType ==
  ASSUME NEW v \in Int32, NEW ops \in Seq(Fields), NEW row \in Rows
  PROVE  Sub(v, ops, row) \in Int32
<1> DEFINE turns == [i \in DOMAIN ops |-> [s \in Int32 |-> Wrap(s - row.f[ops[i]])]]
<1> HIDE DEF turns
<1>1. \A i \in DOMAIN ops : row.f[ops[i]] \in Int
  <2>1. \A i \in DOMAIN ops : ops[i] \in Fields
    OBVIOUS
  <2> QED
    BY <2>1, FieldType, SmallInts
<1>2. \A i \in DOMAIN ops : \A s \in Int32 : Wrap(s - row.f[ops[i]]) \in Int32
  BY <1>1, SmallInts, WrapType
<1>3. turns \in [1 .. Len(ops) -> [Int32 -> Int32]]
  BY <1>2 DEF turns
<1>4. Loop(v, turns) \in Int32
  <2>1. Len(ops) \in Nat
    OBVIOUS
  <2> QED
    BY <1>3, <2>1, LoopType, Zenon
<1> QED
  BY <1>4 DEF Sub, turns

LEMMA WrittenRow ==
  ASSUME NEW row \in Rows, NEW k \in Fields, NEW v \in Int32
  PROVE  LET new == [row EXCEPT !.f = [@ EXCEPT ![k] = v]]
         IN new \in Rows /\ new.key = row.key
BY DEF Rows

\* A query writes a row of the same key.
LEMMA ChangeType ==
  ASSUME NEW q \in QuerySet, NEW row \in Rows, OperandsFit(q), NoField \notin ToSet(q.ops)
  PROVE  Change(q, row) \in Rows /\ Change(q, row).key = row.key
<1> DEFINE ops == q.ops
<1>1. ops \in Seq(Fields)
  BY OperandsAreFields
<1> HIDE DEF ops
<1>2. CASE q.kind \in {"ADD", "SUB"}
  <2>1. Len(ops) >= 2
    BY <1>2 DEF OperandsFit, Gatherers, Extrema, ops
  <2>2. Front(ops) \in Seq(Fields) /\ Len(Front(ops)) = Len(ops) - 1
    BY <1>1, <2>1 DEF Front
  <2>3. Last(ops) \in Fields /\ Head(ops) \in Fields
    BY <1>1, <2>1 DEF Last
  <2>4. Tail(Front(ops)) \in Seq(Fields)
    BY <2>1, <2>2
  <2>5. AddRow(ops, row) \in Rows /\ AddRow(ops, row).key = row.key
    <3>1. Add(Front(ops), row) \in Int32
      BY <2>2, AddType
    <3> QED
      BY <2>3, <3>1, WrittenRow DEF AddRow
  <2>6. SubRow(ops, row) \in Rows /\ SubRow(ops, row).key = row.key
    <3>1. Sub(row.f[Head(ops)], Tail(Front(ops)), row) \in Int32
      BY <2>3, <2>4, FieldType, SubType
    <3> QED
      BY <2>3, <3>1, WrittenRow DEF SubRow
  <2> QED
    BY <1>2, <2>5, <2>6 DEF Change, ops
<1>3. CASE q.kind = "SWAP"
  <2>1. Len(ops) = 2
    BY <1>3 DEF OperandsFit, Gatherers, Extrema, ops
  <2>2. ops[1] \in Fields /\ ops[2] \in Fields
    <3>1. 1 \in 1 .. Len(ops) /\ 2 \in 1 .. Len(ops)
      BY <2>1
    <3> QED
      BY <1>1, <3>1, ElementOfSeq
  <2>3. SwapRow(ops, row) \in Rows /\ SwapRow(ops, row).key = row.key
    BY <2>2 DEF SwapRow, Rows
  <2> QED
    BY <1>3, <2>3 DEF Change, ops
<1>4. CASE q.kind \notin {"ADD", "SUB", "SWAP"}
  BY <1>4 DEF Change
<1> QED
  BY <1>2, <1>3, <1>4

\* The kinds fall apart as the definitions by CASE take them.
LEMMA KindsApart ==
  ASSUME NEW q \in QuerySet
  PROVE  \/ q.kind \in Counters /\ q.kind \notin Gatherers \cup {"DUPLICATE"}
         \/ q.kind \in Gatherers /\ q.kind \notin Counters \cup {"DUPLICATE"}
         \/ q.kind = "DUPLICATE" /\ q.kind \notin Counters \cup Gatherers
         \/ q.kind = "SELECT" /\ q.kind \notin Counters \cup Gatherers \cup {"DUPLICATE"}
BY DataAssumption DEF Kinds, Counters, Gatherers, Extrema

LEMMA ZeroType ==
  ASSUME NEW q \in QuerySet, NEW Keys
  PROVE  Zero(q) \in Locals(q, Keys)
<1>1. CASE q.kind \in Gatherers
  BY <1>1, SmallInts DEF Zero, Locals, Gatherers, Extrema
<1>2. CASE q.kind = "DUPLICATE"
  <2>1. <<>> \in Seq(Keys)
    OBVIOUS
  <2> QED
    BY <1>2, <2>1 DEF Zero, Locals, Gatherers, Extrema
<1>3. CASE q.kind \notin Gatherers \cup {"DUPLICATE"}
  BY <1>3 DEF Zero, Locals, Gatherers, Extrema
<1> QED
  BY <1>1, <1>2, <1>3

LEMMA GatherType ==
  ASSUME NEW q \in QuerySet, q.kind \in Gatherers,
         NEW a \in [DOMAIN q.ops -> Int32], NEW b \in [DOMAIN q.ops -> Int32]
  PROVE  Gather(q, a, b) \in [DOMAIN q.ops -> Int32]
<1>1. ASSUME NEW i \in DOMAIN q.ops
      PROVE  Wrap(a[i] + b[i]) \in Int32
  <2>1. a[i] \in Int /\ b[i] \in Int
    BY SmallInts
  <2>2. a[i] + b[i] \in Int
    BY <2>1
  <2> QED
    BY <2>2, WrapType
<1>2. Sub_Sum(a, b) \in [DOMAIN q.ops -> Int32]
  BY <1>1 DEF Sub_Sum
<1>3. Sub_max(a, b) \in [DOMAIN q.ops -> Int32] /\ Sub_min(a, b) \in [DOMAIN q.ops -> Int32]
  BY DEF Sub_max, Sub_min
<1> QED
  BY <1>2, <1>3 DEF Gather, Gatherers, Extrema

LEMMA TakeType ==
  ASSUME NEW q \in QuerySet, NEW Keys, NEW a \in Locals(q, Keys), NEW row \in Rows,
         row.key \in Keys, NoField \notin ToSet(q.ops) \/ q.kind = "SELECT"
  PROVE  Take(q, a, row) \in Locals(q, Keys)
<1>1. CASE q.kind \in Counters
  <2>1. Locals(q, Keys) = Int
    BY <1>1 DEF Locals, Counters, Gatherers, Extrema
  <2>2. Take(q, a, row) = a + 1
    BY <1>1 DEF Take, Counters, Gatherers, Extrema
  <2> QED
    BY <2>1, <2>2
<1>2. CASE q.kind \in Gatherers
  <2>1. Locals(q, Keys) = [DOMAIN q.ops -> Int32]
    BY <1>2 DEF Locals, Gatherers, Extrema
  <2>2. q.ops \in Seq(Fields)
    BY <1>2, OperandsAreFields DEF Gatherers, Extrema
  <2>3. \A i \in DOMAIN q.ops : q.ops[i] \in Fields
    BY <2>2
  <2>4. [i \in DOMAIN q.ops |-> row.f[q.ops[i]]] \in [DOMAIN q.ops -> Int32]
    BY <2>3, FieldType
  <2> QED
    BY <1>2, <2>1, <2>4, GatherType DEF Take, Counters, Gatherers, Extrema
<1>3. CASE q.kind = "DUPLICATE"
  <2>1. Locals(q, Keys) = [subcounter : Int, sub_keys : Seq(Keys)]
    BY <1>3 DEF Locals, Gatherers, Extrema
  <2>2. Append(a.sub_keys, row.key) \in Seq(Keys) /\ a.subcounter + 1 \in Int
    BY <2>1
  <2>3. Sub_Duplicate(a, row) \in Locals(q, Keys)
    BY <2>1, <2>2 DEF Sub_Duplicate
  <2> QED
    BY <1>3, <2>3 DEF Take, Counters, Gatherers, Extrema
<1>4. CASE q.kind = "SELECT"
  BY <1>4 DEF Take, Counters, Gatherers, Extrema
<1> QED
  BY <1>1, <1>2, <1>3, <1>4, KindsApart

\* The rows stay rows, with the keys they have.
LEMMA ScanKeepsRows ==
  ASSUME table \in Seq(Rows), query \in QuerySet, ~Refused(query),
         NEW S \in SUBSET DOMAIN table, S # {} => ~LooksUpNoField, ScanRows(S)
  PROVE  /\ table' \in Seq(Rows) /\ DOMAIN table' = DOMAIN table
         /\ KeysOf(table') = KeysOf(table) /\ size' = size
<1>1. ASSUME NEW i \in DOMAIN table
      PROVE  table'[i] \in Rows /\ table'[i].key = table[i].key
  <2>1. table[i] \in Rows
    OBVIOUS
  <2>2. CASE i \in S
    <3>1. table'[i] = Change(query, table[i])
      BY <2>2 DEF ScanRows
    <3>2. CASE query.kind = "SELECT"
      BY <2>1, <3>1, <3>2 DEF Change
    <3>3. CASE query.kind # "SELECT"
      <4>1. NoField \notin ToSet(query.ops) /\ OperandsFit(query)
        BY <2>2, <3>3 DEF LooksUpNoField, Refused
      <4> QED
        BY <2>1, <3>1, <4>1, ChangeType
    <3> QED
      BY <3>2, <3>3
  <2>3. CASE i \notin S
    BY <2>1, <2>3 DEF ScanRows
  <2> QED
    BY <2>2, <2>3
<1>2. DOMAIN table' = DOMAIN table
  BY DEF ScanRows
<1>3. DOMAIN table = 1 .. Len(table) /\ Len(table) \in Nat
  OBVIOUS
<1>4. table' = [i \in DOMAIN table |-> table'[i]]
  BY DEF ScanRows
<1>5. table' \in Seq(Rows)
  <2>1. table' \in [1 .. Len(table) -> Rows]
    BY <1>1, <1>3, <1>4
  <2> QED
    BY <1>3, <2>1
<1>6. size' = size
  BY <1>2, <1>5, SameSize DEF size
<1>7. KeysOf(table') = KeysOf(table)
  BY <1>1, <1>2 DEF KeysOf
<1> QED
  BY <1>2, <1>5, <1>6, <1>7

\* The part of a task lies within the table, and is not turned round.
LEMMA PartType ==
  ASSUME NEW n \in Nat, n >= Split, NEW id \in Ids(n)
  PROVE  /\ head(n, id) \in Nat /\ tail(n, id) \in Nat
         /\ head(n, id) <= tail(n, id) /\ tail(n, id) <= n
<1>1. PICK T \in Nat : T = total_thread(n)
  BY Division
<1>2. PICK s \in Nat : s = subtable_num(n) /\ s >= 1 /\ T * s <= n
  BY <1>1, Division
<1>3. id \in Nat /\ id + 1 <= T
  BY <1>1 DEF Ids
<1>4. PICK h \in Nat : h = id * s
  BY <1>2, <1>3
<1>5. PICK m \in Nat : m = (id + 1) * s
  BY <1>2, <1>3
<1>6. m = h + s
  BY <1>2, <1>3, <1>4, <1>5
<1>7. m <= n
  <2>1. PICK e \in Nat : e = T * s
    BY <1>2
  <2>2. m <= e
    BY <1>2, <1>3, <1>5, <2>1, Multiples
  <2> QED
    BY <1>2, <2>1, <2>2
<1>8. head(n, id) = h
  BY <1>2, <1>4 DEF head
<1>9. tail(n, id) = n \/ tail(n, id) = m
  BY <1>2, <1>4, <1>6, <1>8 DEF tail
<1> QED
  BY <1>6, <1>7, <1>8, <1>9

LEMMA PushType ==
  ASSUME NEW pq, NEW S, NEW D, DOMAIN pq \subseteq D, S \subseteq D,
         pq \in [DOMAIN pq -> Nat \ {0}]
  PROVE  /\ DOMAIN Push(pq, S) \subseteq D
         /\ Push(pq, S) \in [DOMAIN Push(pq, S) -> Nat \ {0}]
BY DEF Push

\* A set of numbers has a least one.
LEMMA LeastElement ==
  ASSUME NEW D, NEW v \in [D -> Nat], D # {}
  PROVE  \E i \in D : \A j \in D : v[i] <= v[j]
<1> DEFINE R == OpToRel(<, Nat)
           T == {v[i] : i \in D}
<1>1. \A m, n \in Nat : m < n => <<m, n>> \in R
  BY DEF OpToRel
<1>2. IsWellFoundedOn(R, Nat)
  BY NatLessThanWellFounded
<1> HIDE DEF R
<1>3. T \subseteq Nat /\ T # {}
  OBVIOUS
<1> HIDE DEF T
<1>4. PICK n \in T : \A m \in T : ~ (<<m, n>> \in R)
  BY <1>2, <1>3, WFMin
<1>5. PICK i \in D : v[i] = n
  BY DEF T
<1>6. ASSUME NEW j \in D
      PROVE  v[i] <= v[j]
  <2>1. v[j] \in T /\ v[j] \in Nat /\ n \in Nat
    BY <1>3 DEF T
  <2>2. ~ (v[j] < n)
    BY <1>1, <1>4, <2>1
  <2> QED
    BY <1>5, <2>1, <2>2
<1> QED
  BY <1>6

--------------------------------------------------------------------------------
(* The types, and where the tasks are: one lemma per action. *)

LEMMA DataAtFirst == Init => DataInv
<1> SUFFICES ASSUME Init PROVE DataInv
  OBVIOUS
<1>1. table \in Seq(Rows)
  BY DataAssumption DEF Init
<1>2. QueryInv
  BY DataAssumption DEF Init, QueryInv
<1>3. RowsInv
  <2>1. DOMAIN priorityQueue = {}
    BY DEF Init, NoRows
  <2>2. \A S : <<>> \in Seq(S)
    OBVIOUS
  <2>3. int_arr \in Seq(Int32) /\ keys \in Seq(Nat) /\ oss \in Seq(Nat)
    BY <2>2 DEF Init
  <2>4. found \in BOOLEAN
    BY DEF Init
  <2>5. counter = 0 /\ phase = "repl"
    BY DEF Init
  <2> QED
    BY <1>1, <2>1, <2>3, <2>4, <2>5 DEF RowsInv
<1>4. TasksInv
  BY DEF Init, TasksInv, ThrewInv, OneThrew, NoRows
<1> QED
  BY <1>2, <1>3, <1>4 DEF DataInv

LEMMA RefuseKeeps ==
  ASSUME DataInv, NEW q \in QuerySet, Refuse(q)
  PROVE  DataInv'
<1> USE DEF Refuse, Comes
<1>1. QueryInv'
  BY DataAssumption DEF DataInv, QueryInv
<1>2. RowsInv'
  BY DEF DataInv, RowsInv
<1>3. TasksInv'
  BY DEF DataInv, TasksInv, ThrewInv, OneThrew, tasks
<1> QED
  BY <1>1, <1>2, <1>3 DEF DataInv

LEMMA BeginKeeps ==
  ASSUME DataInv, NEW q \in QuerySet, Begin(q)
  PROVE  DataInv'
<1> USE DEF Begin, Comes
<1>1. QueryInv'
  BY DataAssumption DEF DataInv, QueryInv
<1>2. q.kind \in Gatherers => int_arr' \in [DOMAIN q.ops -> Int32] /\ int_arr' \in Seq(Int32)
  <2> SUFFICES ASSUME q.kind \in Gatherers
               PROVE  int_arr' \in [DOMAIN q.ops -> Int32] /\ int_arr' \in Seq(Int32)
    OBVIOUS
  <2>1. Locals(q, {}) = [DOMAIN q.ops -> Int32]
    BY DEF Locals, Gatherers, Extrema
  <2>2. int_arr' \in [DOMAIN q.ops -> Int32]
    BY <2>1, ZeroType
  <2>3. DOMAIN q.ops = 1 .. Len(q.ops) /\ Len(q.ops) \in Nat
    BY DataAssumption
  <2> QED
    BY <2>2, <2>3
<1>3. RowsInv'
  BY <1>2 DEF DataInv, RowsInv
<1>4. TasksInv'
  BY DEF DataInv, TasksInv, ThrewInv, OneThrew, tasks
<1> QED
  BY <1>1, <1>3, <1>4 DEF DataInv

\* What stands before Begin is what it found.
LEMMA QueryTyped ==
  ASSUME DataInv, phase # "repl"
  PROVE  /\ query \in QuerySet /\ ~Refused(query) /\ OperandsFit(query)
         /\ table \in Seq(Rows) /\ size \in Nat /\ DOMAIN table = 1 .. size
BY DEF DataInv, QueryInv, RowsInv, Refused, size

LEMMA ForkKeeps ==
  ASSUME DataInv, Fork
  PROVE  DataInv'
<1>1. QueryInv'
  BY DEF DataInv, QueryInv, Fork
<1>2. RowsInv'
  BY DEF DataInv, RowsInv, Fork, statics
<1>3. phase = "begun" /\ size >= Split /\ query' = query /\ table' = table
  BY DEF Fork
<1>4. query \in QuerySet /\ size \in Nat
  BY <1>3, QueryTyped
<1>5. DOMAIN pos' = Ids(size) /\ DOMAIN acc' = Ids(size) /\ returned' = {}
  BY DEF Fork
<1>6. ASSUME NEW id \in Ids(size)
      PROVE  /\ pos'[id] \in head(size, id) .. tail(size, id)
             /\ acc'[id] \in Locals(query, KeysOf(table))
  <2>1. pos'[id] = head(size, id) /\ acc'[id] = Zero(query)
    BY DEF Fork
  <2>2. pos'[id] \in head(size, id) .. tail(size, id)
    BY <1>3, <1>4, <2>1, PartType
  <2> QED
    BY <1>4, <2>1, <2>2, ZeroType
<1>7. size' = size /\ KeysOf(table') = KeysOf(table)
  BY <1>3 DEF size, KeysOf
<1>8. TasksInv'
  <2>1. phase' = "wait"
    BY DEF Fork
  <2>2. ThrewInv'
    BY DEF Fork, ThrewInv, OneThrew, Threw
  <2> QED
    BY <1>3, <1>5, <1>6, <1>7, <2>1, <2>2 DEF TasksInv
<1> QED
  BY <1>1, <1>2, <1>8 DEF DataInv

\* While there is a task, main waits.
LEMMA TaskTyped ==
  ASSUME DataInv, NEW id \in DOMAIN pos
  PROVE  /\ phase = "wait" /\ size >= Split /\ id \in Ids(size)
         /\ pos[id] \in head(size, id) .. tail(size, id)
         /\ acc[id] \in Locals(query, KeysOf(table)) /\ DOMAIN acc = DOMAIN pos
BY DEF DataInv, TasksInv

\* What a loop over rows does to the statics and the queue.
LEMMA ScanTyped ==
  ASSUME DataInv, phase # "repl", NEW S \in SUBSET DOMAIN table,
         S # {} => ~LooksUpNoField, ScanRows(S)
  PROVE  /\ table' \in Seq(Rows) /\ KeysOf(table') = KeysOf(table) /\ size' = size
         /\ found' \in BOOLEAN /\ DOMAIN priorityQueue' \subseteq DOMAIN table'
         /\ priorityQueue' \in [DOMAIN priorityQueue' -> Nat \ {0}]
<1>1. query \in QuerySet /\ ~Refused(query) /\ table \in Seq(Rows)
  BY QueryTyped
<1>2. /\ table' \in Seq(Rows) /\ DOMAIN table' = DOMAIN table
      /\ KeysOf(table') = KeysOf(table) /\ size' = size
  BY <1>1, ScanKeepsRows
<1>3. found' \in BOOLEAN
  BY DEF ScanRows, DataInv, RowsInv
<1>4. /\ DOMAIN priorityQueue \subseteq DOMAIN table
      /\ priorityQueue \in [DOMAIN priorityQueue -> Nat \ {0}]
  BY DEF DataInv, RowsInv
<1>5. priorityQueue' = priorityQueue \/ priorityQueue' = Push(priorityQueue, S)
  BY DEF ScanRows
<1>6. /\ DOMAIN priorityQueue' \subseteq DOMAIN table
      /\ priorityQueue' \in [DOMAIN priorityQueue' -> Nat \ {0}]
  BY <1>4, <1>5, PushType
<1> QED
  BY <1>2, <1>3, <1>6

LEMMA ScanRowKeeps ==
  ASSUME DataInv, NEW id \in DOMAIN pos, ScanRow(id)
  PROVE  DataInv'
<1> DEFINE i == pos[id] + 1
           M == {i} \cap Matching(query, table)
<1>1. /\ phase = "wait" /\ size >= Split /\ id \in Ids(size)
      /\ pos[id] \in head(size, id) .. tail(size, id) /\ DOMAIN acc = DOMAIN pos
      /\ acc[id] \in Locals(query, KeysOf(table))
  BY TaskTyped
<1>2. /\ query \in QuerySet /\ ~Refused(query) /\ table \in Seq(Rows)
      /\ size \in Nat /\ DOMAIN table = 1 .. size
  BY <1>1, QueryTyped
<1>3. /\ head(size, id) \in Nat /\ tail(size, id) \in Nat /\ tail(size, id) <= size
  BY <1>1, <1>2, PartType
<1>4. pos[id] \in Nat /\ pos[id] < tail(size, id) /\ i \in DOMAIN table
  BY <1>1, <1>2, <1>3 DEF ScanRow
<1>5. /\ ScanRows(M) /\ (M # {} => ~LooksUpNoField) /\ UNCHANGED main /\ UNCHANGED int_arr /\ UNCHANGED returned
      /\ pos' = [pos EXCEPT ![id] = @ + 1]
      /\ acc' = IF M = {} THEN acc ELSE [acc EXCEPT ![id] = Take(query, @, table[i])]
  BY DEF ScanRow
<1>6. M \in SUBSET DOMAIN table
  BY <1>4
<1> HIDE DEF M
<1>7. /\ table' \in Seq(Rows) /\ KeysOf(table') = KeysOf(table) /\ size' = size
      /\ found' \in BOOLEAN /\ DOMAIN priorityQueue' \subseteq DOMAIN table'
      /\ priorityQueue' \in [DOMAIN priorityQueue' -> Nat \ {0}]
  BY <1>1, <1>5, <1>6, ScanTyped
<1>8. QueryInv'
  BY <1>5 DEF DataInv, QueryInv, main
<1>9. RowsInv'
  BY <1>1, <1>5, <1>7 DEF DataInv, RowsInv, main
<1>10. ASSUME M # {} PROVE Take(query, acc[id], table[i]) \in Locals(query, KeysOf(table))
  <2>1. table[i] \in Rows /\ table[i].key \in KeysOf(table)
    BY <1>2, <1>4 DEF KeysOf
  <2>2. NoField \notin ToSet(query.ops) \/ query.kind = "SELECT"
    BY <1>5, <1>10 DEF LooksUpNoField
  <2> QED
    BY <1>1, <1>2, <2>1, <2>2, TakeType
<1>11. ASSUME NEW k \in DOMAIN pos
       PROVE  /\ pos'[k] \in head(size, k) .. tail(size, k)
              /\ acc'[k] \in Locals(query, KeysOf(table))
  <2>1. /\ pos[k] \in head(size, k) .. tail(size, k)
        /\ acc[k] \in Locals(query, KeysOf(table))
    BY TaskTyped
  <2>2. CASE k = id
    <3>1. pos'[k] = pos[id] + 1
      BY <1>5, <2>2
    <3>2. pos'[k] \in head(size, k) .. tail(size, k)
      BY <1>1, <1>3, <1>4, <2>2, <3>1
    <3>3. acc'[k] = acc[id] \/ (M # {} /\ acc'[k] = Take(query, acc[id], table[i]))
      BY <1>1, <1>5, <2>2
    <3> QED
      BY <1>1, <1>10, <3>2, <3>3
  <2>3. CASE k # id
    BY <1>1, <1>5, <2>1, <2>3
  <2> QED
    BY <2>2, <2>3
<1>12. DOMAIN pos' = DOMAIN pos /\ DOMAIN acc' = DOMAIN pos /\ DOMAIN pos = Ids(size)
  BY <1>1, <1>5 DEF DataInv, TasksInv
<1>13. TasksInv'
  <2>1. query' = query /\ phase' = phase /\ returned' = returned
    BY <1>5 DEF main
  <2>2. ASSUME NEW k \in DOMAIN pos, Threw(k)' PROVE Threw(k)
    <3>1. pos[k] # tail(size, k)
      BY <1>1, <1>3, <1>4, <1>5, <1>7, <2>2 DEF Threw
    <3> QED
      BY <1>7, <2>1, <2>2, <3>1 DEF Threw
  <2>3. ThrewInv'
    BY <1>12, <2>1, <2>2 DEF DataInv, TasksInv, ThrewInv, OneThrew, LooksUpNoField
  <2>4. returned \subseteq DOMAIN pos
    BY DEF DataInv, TasksInv
  <2> QED
    BY <1>1, <1>7, <1>11, <1>12, <2>1, <2>3, <2>4 DEF TasksInv
<1> QED
  BY <1>8, <1>9, <1>13 DEF DataInv

LEMMA TaskReturnsKeeps ==
  ASSUME DataInv, NEW id \in DOMAIN pos, TaskReturns(id)
  PROVE  DataInv'
<1>1. /\ phase = "wait" /\ size >= Split /\ id \in Ids(size)
      /\ DOMAIN acc = DOMAIN pos /\ acc[id] \in Locals(query, KeysOf(table))
  BY TaskTyped
<1>2. query \in QuerySet
  BY <1>1, QueryTyped
<1>3. /\ UNCHANGED <<table, main, pos, found, priorityQueue>>
      /\ returned' = returned \cup {id}
      /\ int_arr' = IF query.kind \in Gatherers THEN Gather(query, int_arr, acc[id]) ELSE int_arr
      /\ \/ UNCHANGED acc
         \/ /\ query.kind = "DUPLICATE"
            /\ \E g \in Garbage : acc' = [acc EXCEPT ![id] = [@ EXCEPT !.subcounter = g]]
  BY DEF TaskReturns
<1>4. QueryInv'
  BY <1>3 DEF DataInv, QueryInv, main
<1>5. RowsInv'
  <2>1. query.kind \in Gatherers => int_arr \in [DOMAIN query.ops -> Int32]
    BY <1>1 DEF DataInv, RowsInv
  <2>2. query.kind \in Gatherers => int_arr' \in [DOMAIN query.ops -> Int32]
    <3>1. query.kind \in Gatherers => acc[id] \in [DOMAIN query.ops -> Int32]
      BY <1>1 DEF Locals, Gatherers, Extrema
    <3> QED
      BY <1>2, <1>3, <2>1, <3>1, GatherType
  <2>3. int_arr' \in Seq(Int32)
    <3>1. DOMAIN query.ops = 1 .. Len(query.ops) /\ Len(query.ops) \in Nat
      BY <1>2, DataAssumption
    <3>2. int_arr \in Seq(Int32)
      BY DEF DataInv, RowsInv
    <3>3. CASE query.kind \in Gatherers
      BY <2>2, <3>1, <3>3
    <3>4. CASE query.kind \notin Gatherers
      BY <1>3, <3>2, <3>4
    <3> QED
      BY <3>3, <3>4
  <2>4. KeysOf(table') = KeysOf(table)
    BY <1>3
  <2> QED
    BY <1>1, <1>3, <2>2, <2>3, <2>4 DEF DataInv, RowsInv, main
<1>6. ASSUME NEW k \in DOMAIN pos
      PROVE  acc'[k] \in Locals(query, KeysOf(table))
  <2>1. acc[k] \in Locals(query, KeysOf(table))
    BY TaskTyped
  <2>2. CASE query.kind = "DUPLICATE"
    <3>1. Locals(query, KeysOf(table)) = [subcounter : Int, sub_keys : Seq(KeysOf(table))]
      BY <2>2 DEF Locals, Gatherers, Extrema
    <3>2. ASSUME NEW g \in Garbage
          PROVE  [acc[k] EXCEPT !.subcounter = g] \in Locals(query, KeysOf(table))
      <4>1. g \in Int
        BY DataAssumption
      <4> QED
        BY <2>1, <3>1, <4>1
    <3>3. \/ acc'[k] = acc[k]
          \/ \E g \in Garbage : acc'[k] = [acc[k] EXCEPT !.subcounter = g]
      BY <1>1, <1>3
    <3> QED
      BY <2>1, <3>2, <3>3
  <2>3. CASE query.kind # "DUPLICATE"
    BY <1>3, <2>1, <2>3
  <2> QED
    BY <2>2, <2>3
<1>7. TasksInv'
  <2>1. /\ query' = query /\ phase' = phase /\ table' = table /\ pos' = pos /\ size' = size
        /\ DOMAIN acc' = DOMAIN acc
    BY <1>3 DEF main, size
  <2>2. KeysOf(table') = KeysOf(table)
    BY <2>1
  <2>3. ASSUME NEW k \in DOMAIN pos, Threw(k)' PROVE Threw(k)
    <3>1. result(query) => pos[id] = tail(size, id)
      BY DEF TaskReturns
    <3> QED
      BY <1>3, <2>1, <2>3, <3>1 DEF Threw
  <2>4. ThrewInv'
    BY <2>1, <2>3 DEF DataInv, TasksInv, ThrewInv, OneThrew, LooksUpNoField
  <2> QED
    BY <1>1, <1>3, <1>6, <2>1, <2>2, <2>4 DEF DataInv, TasksInv
<1> QED
  BY <1>4, <1>5, <1>7 DEF DataInv

\* Sequences of keys are sequences of numbers.
LEMMA KeysAreNumbers ==
  ASSUME NEW t \in Seq(Rows), NEW s \in Seq(KeysOf(t))
  PROVE  s \in Seq(Nat)
<1>1. KeysOf(t) \subseteq Nat
  <2>1. \A i \in DOMAIN t : t[i] \in Rows
    OBVIOUS
  <2> QED
    BY <2>1 DEF KeysOf, Rows
<1> QED
  BY <1>1

\* The task ends in an exception and leaves only the flag of MIN or MAX.
LEMMA TaskThrowsKeeps ==
  ASSUME DataInv, NEW id \in DOMAIN pos, TaskThrows(id)
  PROVE  DataInv'
<1>1. /\ UNCHANGED <<table, query, phase, counter, keys, oss, left, pos, acc, int_arr, priorityQueue>>
      /\ returned' = returned \cup {id} /\ found' = (found \/ query.kind \in Extrema)
      /\ size' = size /\ KeysOf(table') = KeysOf(table)
  BY DEF TaskThrows, main, size
<1>2. found' \in BOOLEAN
  BY <1>1 DEF DataInv, RowsInv
<1>3. QueryInv'
  BY <1>1 DEF DataInv, QueryInv
<1>4. RowsInv'
  BY <1>1, <1>2 DEF DataInv, RowsInv
<1>5. LooksUpNoField'
  BY <1>1 DEF TaskThrows, LooksUpNoField
<1>6. TasksInv'
  BY <1>1, <1>5 DEF DataInv, TasksInv, ThrewInv, OneThrew
<1> QED
  BY <1>3, <1>4, <1>6 DEF DataInv

LEMMA JoinThrowsKeeps ==
  ASSUME DataInv, JoinThrows
  PROVE  DataInv'
<1>1. /\ phase' = "repl" /\ pos' = NoRows /\ acc' = NoRows /\ returned' = {}
      /\ UNCHANGED <<table, query, counter, keys, oss, left, int_arr, found, priorityQueue>>
  BY DEF JoinThrows, Respond, statics
<1>2. QueryInv'
  BY <1>1 DEF DataInv, QueryInv
<1>3. RowsInv'
  BY <1>1 DEF DataInv, RowsInv
<1>4. TasksInv'
  BY <1>1 DEF TasksInv, ThrewInv, OneThrew, NoRows
<1> QED
  BY <1>2, <1>3, <1>4 DEF DataInv

LEMMA JoinKeeps ==
  ASSUME DataInv, Join
  PROVE  DataInv'
<1>1. /\ phase = "wait" /\ size >= Split /\ DOMAIN pos = Ids(size) /\ phase' = "answer"
      /\ query' = query /\ table' = table /\ int_arr' = int_arr /\ left' = left
      /\ pos' = NoRows /\ acc' = NoRows /\ returned' = {}
  BY DEF DataInv, TasksInv, Join, statics
<1>2. query \in QuerySet /\ table \in Seq(Rows) /\ size \in Nat
  BY <1>1, QueryTyped
<1>3. PICK n \in Nat : n = total_thread(size) /\ Ids(size) = 0 .. n - 1
  BY <1>1, <1>2, Division DEF Ids
<1>4. ASSUME NEW i \in 1 .. n
      PROVE  acc[i - 1] \in Locals(query, KeysOf(table))
  <2>1. i - 1 \in DOMAIN pos
    BY <1>1, <1>3
  <2> QED
    BY <2>1, TaskTyped
<1>5. counter' \in Int
  <2> DEFINE Count(a) == IF query.kind = "DUPLICATE" THEN a.subcounter ELSE a
             turns == [i \in 1 .. n |-> [s \in Int |-> s + Count(acc[i - 1])]]
  <2>1. CASE query.kind \in Counters \cup {"DUPLICATE"}
    <3>1. ASSUME NEW i \in 1 .. n
          PROVE  Count(acc[i - 1]) \in Int
      <4>1. acc[i - 1] \in Locals(query, KeysOf(table))
        BY <1>4
      <4> QED
        BY <2>1, <4>1 DEF Locals, Counters, Gatherers, Extrema
    <3> HIDE DEF Count
    <3>2. turns \in [1 .. n -> [Int -> Int]]
      BY <3>1
    <3>3. counter' = Loop(0, turns)
      BY <1>3, <2>1 DEF Join, Count
    <3> HIDE DEF turns
    <3>4. 0 \in Int
      OBVIOUS
    <3>5. Loop(0, turns) \in Int
      BY <3>2, <3>4, LoopType, Zenon
    <3> QED
      BY <3>3, <3>5
  <2>2. CASE query.kind \notin Counters \cup {"DUPLICATE"}
    BY <2>2 DEF Join
  <2> QED
    BY <2>1, <2>2
<1>6. query.kind = "DUPLICATE" => keys' \in Seq(KeysOf(table))
  <2> SUFFICES ASSUME query.kind = "DUPLICATE" PROVE keys' \in Seq(KeysOf(table))
    OBVIOUS
  <2> DEFINE lists == [i \in 1 .. n |-> acc[i - 1].sub_keys]
  <2>1. \A i \in 1 .. n : acc[i - 1].sub_keys \in Seq(KeysOf(table))
    BY <1>4 DEF Locals, Gatherers, Extrema
  <2>2. lists \in Seq(Seq(KeysOf(table)))
    BY <2>1
  <2>3. keys' = FlattenSeq(lists)
    BY <1>3 DEF Join
  <2> HIDE DEF lists
  <2> QED
    BY <2>2, <2>3, FlattenType
<1>7. keys' \in Seq(Nat)
  <2>1. CASE query.kind = "DUPLICATE"
    BY <1>2, <1>6, <2>1, KeysAreNumbers
  <2>2. CASE query.kind # "DUPLICATE"
    <3>1. keys' = <<>>
      BY <2>2 DEF Join
    <3> QED
      BY <3>1
  <2> QED
    BY <2>1, <2>2
<1>8. QueryInv'
  BY <1>1 DEF DataInv, QueryInv
<1>9. RowsInv'
  <2>1. oss' = oss /\ found' = found /\ priorityQueue' = priorityQueue
    BY DEF Join, statics
  <2>2. KeysOf(table') = KeysOf(table)
    BY <1>1
  <2> QED
    BY <1>1, <1>5, <1>6, <1>7, <2>1, <2>2 DEF DataInv, RowsInv
<1>10. TasksInv'
  BY <1>1 DEF TasksInv, ThrewInv, OneThrew, NoRows
<1> QED
  BY <1>8, <1>9, <1>10 DEF DataInv

LEMMA SequentialKeeps ==
  ASSUME DataInv, Sequential
  PROVE  DataInv'
<1> DEFINE M == Matching(query, table)
           L == Locals(query, KeysOf(table))
           turns == [i \in DOMAIN table |-> [a \in L |->
                       IF i \in M THEN Take(query, a, table[i]) ELSE a]]
           all == Loop(Zero(query), turns)
<1>1. /\ phase = "begun" /\ phase' = "answer" /\ query' = query /\ left' = left /\ oss' = oss
      /\ pos' = pos /\ acc' = acc /\ returned' = returned
      /\ M # {} => ~LooksUpNoField
      /\ ScanRows(M)
  BY DEF Sequential, tasks
<1>2. /\ query \in QuerySet /\ ~Refused(query) /\ table \in Seq(Rows)
      /\ size \in Nat /\ DOMAIN table = 1 .. size
  BY <1>1, QueryTyped
<1>3. M \in SUBSET DOMAIN table
  BY DEF Matching
<1>4. all \in L
  <2>1. ASSUME NEW i \in 1 .. size, NEW a \in L
        PROVE  (IF i \in M THEN Take(query, a, table[i]) ELSE a) \in L
    <3>1. CASE i \in M
      <4>1. table[i] \in Rows /\ table[i].key \in KeysOf(table)
        BY <1>2 DEF KeysOf
      <4>2. NoField \notin ToSet(query.ops) \/ query.kind = "SELECT"
        BY <1>1, <3>1 DEF LooksUpNoField
      <4>3. Take(query, a, table[i]) \in L
        BY <1>2, <4>1, <4>2, TakeType
      <4> QED
        BY <3>1, <4>3
    <3> QED
      BY <3>1
  <2>2. Zero(query) \in L
    BY <1>2, ZeroType
  <2> HIDE DEF L, M
  <2>3. turns \in [1 .. size -> [L -> L]]
    BY <1>2, <2>1
  <2> HIDE DEF turns
  <2> QED
    BY <1>2, <2>2, <2>3, LoopType, Zenon
<1>5. /\ counter' = CASE query.kind \in Counters -> all
                     [] query.kind = "DUPLICATE" -> all.subcounter
                     [] OTHER -> 0
      /\ keys' = IF query.kind = "DUPLICATE" THEN all.sub_keys ELSE <<>>
      /\ int_arr' = IF query.kind \in Gatherers THEN all ELSE int_arr
  BY DEF Sequential
<1> HIDE DEF all, M
<1>6. counter' \in Int
  BY <1>4, <1>5 DEF Locals, Counters, Gatherers, Extrema
<1>7. query.kind = "DUPLICATE" => keys' \in Seq(KeysOf(table))
  BY <1>4, <1>5 DEF Locals, Gatherers, Extrema
<1>8. keys' \in Seq(Nat)
  <2>1. CASE query.kind = "DUPLICATE"
    BY <1>2, <1>7, <2>1, KeysAreNumbers
  <2>2. CASE query.kind # "DUPLICATE"
    <3>1. keys' = <<>>
      BY <1>5, <2>2
    <3> QED
      BY <3>1
  <2> QED
    BY <2>1, <2>2
<1>9. query.kind \in Gatherers => int_arr' \in [DOMAIN query.ops -> Int32]
  BY <1>4, <1>5 DEF Locals, Gatherers, Extrema
<1>10. int_arr' \in Seq(Int32)
  <2>1. DOMAIN query.ops = 1 .. Len(query.ops) /\ Len(query.ops) \in Nat
    BY <1>2, DataAssumption
  <2>2. int_arr \in Seq(Int32)
    BY DEF DataInv, RowsInv
  <2>3. CASE query.kind \in Gatherers
    BY <1>9, <2>1, <2>3
  <2>4. CASE query.kind \notin Gatherers
    BY <1>5, <2>2, <2>4
  <2> QED
    BY <2>3, <2>4
<1>11. /\ table' \in Seq(Rows) /\ KeysOf(table') = KeysOf(table) /\ size' = size
       /\ found' \in BOOLEAN /\ DOMAIN priorityQueue' \subseteq DOMAIN table'
       /\ priorityQueue' \in [DOMAIN priorityQueue' -> Nat \ {0}]
  BY <1>1, <1>3, ScanTyped
<1>12. QueryInv'
  BY <1>1 DEF DataInv, QueryInv
<1>13. RowsInv'
  BY <1>1, <1>6, <1>7, <1>8, <1>9, <1>10, <1>11 DEF DataInv, RowsInv
<1>14. TasksInv'
  BY <1>1 DEF DataInv, TasksInv, ThrewInv, OneThrew
<1> QED
  BY <1>12, <1>13, <1>14 DEF DataInv

LEMMA SequentialThrowsKeeps ==
  ASSUME DataInv, SequentialThrows
  PROVE  DataInv'
<1> DEFINE M == Matching(query, table)
           first == CHOOSE i \in M : \A j \in M : i <= j
           k == CHOOSE i \in DOMAIN query.ops : /\ query.ops[i] = NoField
                                               /\ \A j \in 1 .. i - 1 : query.ops[j] # NoField
<1>1. /\ phase = "begun" /\ M # {} /\ LooksUpNoField
      /\ UNCHANGED <<table, query, counter, keys, oss, left, before, priorityQueue, tasks>>
  BY DEF SequentialThrows
<1>2. phase' = "repl"
  BY DEF SequentialThrows, Respond
<1>3. /\ query \in QuerySet /\ table \in Seq(Rows) /\ size \in Nat /\ DOMAIN table = 1 .. size
  BY <1>1, QueryTyped
<1>4. first \in DOMAIN table
  <2>1. M \subseteq 1 .. size
    BY <1>3 DEF Matching
  <2> HIDE DEF M
  <2> DEFINE v == [i \in M |-> i]
  <2>2. v \in [M -> Nat]
    BY <2>1
  <2>3. \E i \in M : \A j \in M : v[i] <= v[j]
    <3> HIDE DEF v
    <3> QED
      BY <1>1, <2>2, LeastElement
  <2>4. \E i \in M : \A j \in M : i <= j
    BY <2>3
  <2>5. first \in M
    BY <2>4
  <2> QED
    BY <1>3, <2>1, <2>5
<1>5. query.ops \in Seq(Fields \cup {NoField}) /\ Len(query.ops) \in Nat
  BY <1>3, DataAssumption
<1>6. k \in DOMAIN query.ops /\ \A j \in 1 .. k - 1 : query.ops[j] # NoField
  <2> DEFINE D == {i \in DOMAIN query.ops : query.ops[i] = NoField}
             v == [i \in D |-> i]
  <2>1. D # {}
    BY <1>1, <1>5 DEF LooksUpNoField, ToSet
  <2>2. v \in [D -> Nat]
    BY <1>5
  <2>3. \E i \in D : \A j \in D : v[i] <= v[j]
    <3> HIDE DEF D, v
    <3> QED
      BY <2>1, <2>2, LeastElement
  <2>4. PICK i \in D : \A j \in D : i <= j
    BY <2>3
  <2>5. i \in 1 .. Len(query.ops) /\ query.ops[i] = NoField
    BY <1>5
  <2>6. \A j \in 1 .. i - 1 : query.ops[j] # NoField
    <3> SUFFICES ASSUME NEW j \in 1 .. i - 1, query.ops[j] = NoField PROVE FALSE
      OBVIOUS
    <3>1. j \in DOMAIN query.ops /\ j < i
      BY <1>5, <2>5
    <3>2. j \in D /\ j \in Int /\ i \in Int
      BY <2>5, <3>1
    <3>3. i <= j
      BY <2>4, <3>2
    <3> QED
      BY <3>1, <3>2, <3>3
  <2> QED
    BY <1>5, <2>5, <2>6
<1>7. int_arr' = IF query.kind \notin Gatherers THEN int_arr
                 ELSE [i \in DOMAIN int_arr |->
                         IF i < k THEN table[first].f[query.ops[i]] ELSE int_arr[i]]
  BY DEF SequentialThrows
<1> HIDE DEF M, first, k
<1>8. int_arr' \in Seq(Int32)
  <2>1. int_arr \in Seq(Int32) /\ Len(int_arr) \in Nat /\ DOMAIN int_arr = 1 .. Len(int_arr)
    BY DEF DataInv, RowsInv
  <2>2. CASE query.kind \notin Gatherers
    BY <1>7, <2>1, <2>2
  <2>3. CASE query.kind \in Gatherers
    <3>1. ASSUME NEW i \in DOMAIN int_arr
          PROVE  (IF i < k THEN table[first].f[query.ops[i]] ELSE int_arr[i]) \in Int32
      <4>1. CASE i < k
        <5>1. i \in 1 .. k - 1 /\ i \in DOMAIN query.ops
          BY <1>5, <1>6, <2>1, <4>1
        <5>2. query.ops[i] \in Fields
          BY <1>5, <1>6, <5>1
        <5>3. table[first] \in Rows
          BY <1>3, <1>4
        <5>4. table[first].f[query.ops[i]] \in Int32
          BY <5>2, <5>3, FieldType
        <5> QED
          BY <4>1, <5>4
      <4>2. CASE ~ (i < k)
        BY <2>1, <4>2
      <4> QED
        BY <4>1, <4>2
    <3>2. int_arr' \in [1 .. Len(int_arr) -> Int32]
      BY <1>7, <2>1, <2>3, <3>1
    <3> QED
      BY <2>1, <3>2
  <2> QED
    BY <2>2, <2>3
<1>9. found' \in BOOLEAN
  BY DEF SequentialThrows
<1>10. QueryInv'
  BY <1>1, <1>2 DEF DataInv, QueryInv
<1>11. RowsInv'
  BY <1>1, <1>2, <1>8, <1>9 DEF DataInv, RowsInv
<1>12. TasksInv'
  BY <1>1, <1>2 DEF DataInv, TasksInv, ThrewInv, OneThrew, tasks
<1> QED
  BY <1>10, <1>11, <1>12 DEF DataInv

LEMMA AnswerKeeps ==
  ASSUME DataInv, Answer \/ AnswerSelect
  PROVE  DataInv'
<1>1. /\ phase = "answer" /\ phase' = "repl"
      /\ UNCHANGED <<table, query, counter, keys, oss, left, before, statics, tasks>>
  BY Zenon DEF Answer, AnswerSelect, Respond
<1>2. QueryInv'
  BY <1>1 DEF DataInv, QueryInv
<1>3. RowsInv'
  BY <1>1 DEF DataInv, RowsInv, statics
<1>4. TasksInv'
  BY <1>1 DEF DataInv, TasksInv, ThrewInv, OneThrew, tasks
<1> QED
  BY <1>2, <1>3, <1>4 DEF DataInv

LEMMA AnswerDuplicateKeeps ==
  ASSUME DataInv, AnswerDuplicate
  PROVE  DataInv'
<1> DEFINE Row(k) == CHOOSE row \in ToSet(table) : row.key = k
           copies == [i \in DOMAIN keys |-> [Row(keys[i]) EXCEPT !.key = @ + 1]]
<1>1. /\ phase = "answer" /\ query.kind = "DUPLICATE" /\ phase' = "repl"
      /\ UNCHANGED <<query, counter, keys, oss, left, before, statics, tasks>>
      /\ table' = table \o copies
  BY DEF AnswerDuplicate, Respond
<1>2. table \in Seq(Rows) /\ keys \in Seq(KeysOf(table))
  BY <1>1 DEF DataInv, RowsInv
<1>3. ASSUME NEW i \in DOMAIN keys
      PROVE  copies[i] \in Rows
  <2>1. keys[i] \in KeysOf(table)
    BY <1>2
  <2>2. \E row \in ToSet(table) : row.key = keys[i]
    BY <2>1 DEF KeysOf, ToSet
  <2>3. Row(keys[i]) \in ToSet(table)
    BY <2>2
  <2> HIDE DEF Row
  <2>4. Row(keys[i]) \in Rows
    <3>1. \A j \in DOMAIN table : table[j] \in Rows
      BY <1>2
    <3> QED
      BY <2>3, <3>1 DEF ToSet
  <2> QED
    BY <2>4 DEF Rows
<1>4. copies \in Seq(Rows)
  <2>1. DOMAIN keys = 1 .. Len(keys) /\ Len(keys) \in Nat
    BY <1>2
  <2>2. copies \in [1 .. Len(keys) -> Rows]
    BY <1>3, <2>1
  <2> HIDE DEF copies
  <2> QED
    BY <2>1, <2>2
<1> HIDE DEF copies
<1>5. table' \in Seq(Rows) /\ DOMAIN table \subseteq DOMAIN table'
  <2>1. Len(table') = Len(table) + Len(copies) /\ table' \in Seq(Rows)
    BY <1>1, <1>2, <1>4, ConcatProperties
  <2> QED
    BY <1>2, <1>4, <2>1
<1>6. QueryInv'
  BY <1>1 DEF DataInv, QueryInv
<1>7. RowsInv'
  BY <1>1, <1>5 DEF DataInv, RowsInv, statics
<1>8. TasksInv'
  BY <1>1 DEF DataInv, TasksInv, ThrewInv, OneThrew, tasks
<1> QED
  BY <1>6, <1>7, <1>8 DEF DataInv

\* There is a row at the top of a queue that is not empty.
Top == CHOOSE i \in DOMAIN priorityQueue :
         \A j \in DOMAIN priorityQueue : table[i].key <= table[j].key

LEMMA TopIsThere ==
  ASSUME table \in Seq(Rows), DOMAIN priorityQueue \subseteq DOMAIN table,
         DOMAIN priorityQueue # {}
  PROVE  /\ Top \in DOMAIN priorityQueue
         /\ \A j \in DOMAIN priorityQueue : table[Top].key <= table[j].key
<1> DEFINE D == DOMAIN priorityQueue
           v == [i \in D |-> table[i].key]
<1>1. v \in [D -> Nat]
  <2>1. \A i \in D : table[i] \in Rows
    OBVIOUS
  <2> QED
    BY <2>1 DEF Rows
<1>2. \E i \in D : \A j \in D : v[i] <= v[j]
  <2> HIDE DEF D, v
  <2>1. D # {}
    BY DEF D
  <2> QED
    BY <1>1, <2>1, LeastElement
<1>3. \E i \in D : \A j \in D : table[i].key <= table[j].key
  BY <1>2
<1> QED
  BY <1>3 DEF Top

\* What PrintRow prints and pops.
Popped == IF priorityQueue[Top] > 1 THEN [priorityQueue EXCEPT ![Top] = @ - 1]
          ELSE [i \in DOMAIN priorityQueue \ {Top} |-> priorityQueue[i]]

LEMMA PrintRowDoes ==
  ASSUME PrintRow
  PROVE  /\ phase = "answer" /\ query.kind = "SELECT" /\ priorityQueue # NoRows
         /\ UNCHANGED <<table, query, counter, keys, left, before, int_arr, found, tasks>>
         /\ \/ /\ NoField \in ToSet(query.ops) /\ phase' = "repl"
               /\ UNCHANGED <<oss, priorityQueue>>
            \/ /\ NoField \notin ToSet(query.ops) /\ UNCHANGED phase
               /\ oss' = Append(oss, table[Top].key) /\ priorityQueue' = Popped
BY Zenon DEF PrintRow, Respond, Top, Popped

LEMMA PoppedType ==
  ASSUME DataInv, Top \in DOMAIN priorityQueue
  PROVE  /\ DOMAIN Popped \subseteq DOMAIN priorityQueue
         /\ Popped \in [DOMAIN Popped -> Nat \ {0}]
BY DEF Popped, DataInv, RowsInv

LEMMA PrintRowKeeps ==
  ASSUME DataInv, PrintRow
  PROVE  DataInv'
<1>1. /\ phase = "answer" /\ query.kind = "SELECT"
      /\ UNCHANGED <<table, query, counter, keys, left, before, int_arr, found, tasks>>
      /\ phase' \in {"answer", "repl"}
  BY PrintRowDoes
<1>2. /\ table \in Seq(Rows) /\ oss \in Seq(Nat) /\ DOMAIN priorityQueue \subseteq DOMAIN table
      /\ priorityQueue \in [DOMAIN priorityQueue -> Nat \ {0}]
  BY DEF DataInv, RowsInv
<1>3. /\ oss' \in Seq(Nat) /\ DOMAIN priorityQueue' \subseteq DOMAIN table
      /\ priorityQueue' \in [DOMAIN priorityQueue' -> Nat \ {0}]
  <2>1. CASE UNCHANGED <<oss, priorityQueue>>
    BY <1>2, <2>1
  <2>2. CASE oss' = Append(oss, table[Top].key) /\ priorityQueue' = Popped
    <3>1. DOMAIN priorityQueue # {}
      <4>1. priorityQueue # NoRows
        BY PrintRowDoes
      <4> QED
        BY <1>2, <4>1 DEF NoRows
    <3>2. Top \in DOMAIN priorityQueue
      BY <1>2, <3>1, TopIsThere
    <3>3. table[Top].key \in Nat
      <4>1. table[Top] \in Rows
        BY <1>2, <3>2
      <4> QED
        BY <4>1 DEF Rows
    <3> QED
      BY <1>2, <2>2, <3>2, <3>3, PoppedType
  <2> QED
    BY <2>1, <2>2, PrintRowDoes
<1>4. QueryInv'
  BY <1>1 DEF DataInv, QueryInv
<1>5. RowsInv'
  BY <1>1, <1>2, <1>3 DEF DataInv, RowsInv
<1>6. TasksInv'
  BY <1>1 DEF DataInv, TasksInv, ThrewInv, OneThrew, tasks
<1> QED
  BY <1>4, <1>5, <1>6 DEF DataInv

LEMMA DataInvInductive == DataInv /\ [Next]_vars => DataInv'
<1> SUFFICES ASSUME DataInv, [Next]_vars PROVE DataInv'
  OBVIOUS
<1>1. ASSUME NEW q \in QuerySet, Refuse(q) \/ Begin(q)
      PROVE  DataInv'
  BY <1>1, RefuseKeeps, BeginKeeps
<1>2. CASE Sequential
  BY <1>2, SequentialKeeps
<1>3. CASE SequentialThrows
  BY <1>3, SequentialThrowsKeeps
<1>4. CASE Fork
  BY <1>4, ForkKeeps
<1>5. CASE Join \/ JoinThrows
  BY <1>5, JoinKeeps, JoinThrowsKeeps
<1>6. ASSUME NEW id \in DOMAIN pos, Task(id)
      PROVE  DataInv'
  BY <1>6, ScanRowKeeps, TaskReturnsKeeps, TaskThrowsKeeps DEF Task
<1>7. CASE Answer \/ AnswerSelect
  BY <1>7, AnswerKeeps
<1>8. CASE AnswerDuplicate
  BY <1>8, AnswerDuplicateKeeps
<1>9. CASE PrintRow
  BY <1>9, PrintRowKeeps
<1>10. CASE UNCHANGED vars
  <2>1. QueryInv'
    BY <1>10 DEF vars, main, DataInv, QueryInv
  <2>2. RowsInv'
    BY <1>10 DEF vars, main, statics, DataInv, RowsInv
  <2>3. TasksInv'
    <3>1. /\ query' = query /\ phase' = phase /\ table' = table /\ pos' = pos
          /\ acc' = acc /\ returned' = returned /\ size' = size
      BY <1>10 DEF vars, main, tasks, size
    <3>2. KeysOf(table') = KeysOf(table)
      BY <3>1
    <3>3. ThrewInv'
      BY <3>1 DEF DataInv, TasksInv, ThrewInv, OneThrew, Threw, LooksUpNoField
    <3> QED
      BY <3>1, <3>2, <3>3 DEF DataInv, TasksInv
  <2> QED
    BY <2>1, <2>2, <2>3 DEF DataInv
<1> QED
  BY <1>1, <1>2, <1>3, <1>4, <1>5, <1>6, <1>7, <1>8, <1>9, <1>10 DEF Next

LEMMA DataInvariant == Spec => []DataInv
BY DataAtFirst, DataInvInductive, PTL DEF Spec

LEMMA InvariantTypes == DataInv => DataTypeOK
<1> SUFFICES ASSUME DataInv PROVE DataTypeOK
  OBVIOUS
<1>1. ToSet(keys) \cup ToSet(oss) \subseteq Nat
  BY DEF DataInv, RowsInv, ToSet
<1>2. ToSet(int_arr) \subseteq Int32
  BY DEF DataInv, RowsInv, ToSet
<1>3. \A i \in DOMAIN priorityQueue : priorityQueue[i] > 0
  BY DEF DataInv, RowsInv
<1>4. DOMAIN pos \in {{}, Ids(size)}
  BY DEF DataInv, TasksInv
<1> QED
  BY <1>1, <1>2, <1>3, <1>4 DEF DataInv, QueryInv, RowsInv, TasksInv, DataTypeOK

\* The types, for any tables, queries and interleaving: a sum never leaves the
\* width of a field, the local results of the tasks are of the kind of the query
\* in execution, and there are as many of them as the table is split into.
THEOREM DataTypes == Spec => []DataTypeOK
BY DataInvariant, InvariantTypes, PTL

\* What is left to a task is a part of its sub table.
LEMMA InsideIsApart == DataInv => NoRowShared
<1> DEFINE todo(id) == pos[id] .. tail(size, id) - 1
<1> SUFFICES ASSUME DataInv, NEW i \in DOMAIN pos
             PROVE  /\ todo(i) \subseteq 0 .. size - 1
                    /\ \A j \in DOMAIN pos : i # j => todo(i) \cap todo(j) = {}
  BY DEF NoRowShared
<1>1. size \in Nat /\ size >= Split /\ DOMAIN pos = Ids(size)
  BY DEF DataInv, TasksInv, RowsInv, size
<1>2. ASSUME NEW id \in Ids(size)
      PROVE  todo(id) \subseteq SubTable(size, id)
  <2>1. head(size, id) \in Nat /\ tail(size, id) \in Nat
    BY <1>1, PartType
  <2>2. pos[id] \in head(size, id) .. tail(size, id)
    BY <1>1, TaskTyped
  <2> QED
    BY <2>1, <2>2 DEF SubTable
<1>3. todo(i) \subseteq 0 .. size - 1
  BY <1>1, <1>2, SubTablesCover
<1>4. ASSUME NEW j \in DOMAIN pos, i # j
      PROVE  todo(i) \cap todo(j) = {}
  BY <1>1, <1>2, <1>4, SubTablesApart
<1> QED
  BY <1>3, <1>4

\* No two tasks have a row to scan in common, for every table, however large,
\* every query and every interleaving.
THEOREM TasksApart == Spec => []NoRowShared
BY DataInvariant, InsideIsApart, PTL

--------------------------------------------------------------------------------
(* SELECT's queue. *)

\* No SELECT names a field to print that is not there.
SelectsPrint == \A q \in QuerySet : q.kind = "SELECT" => NoField \notin ToSet(q.ops)

\* A queue with no row in it is the empty one.
LEMMA EmptyQueue ==
  ASSUME DataInv, DOMAIN priorityQueue = {}
  PROVE  priorityQueue = NoRows
BY DEF DataInv, RowsInv, NoRows

\* SELECT changes no row.
LEMMA SelectKeepsTable ==
  ASSUME table \in Seq(Rows), query.kind = "SELECT", NEW S, ScanRows(S)
  PROVE  table' = table
<1>1. table' = [i \in DOMAIN table |-> table[i]]
  BY DEF ScanRows, Change
<1> QED
  BY <1>1

\* Rows that are not in the queue are put into it once.
LEMMA PushOnce ==
  ASSUME NEW pq, NEW S, DOMAIN pq \cap S = {}, \A i \in DOMAIN pq : pq[i] = 1
  PROVE  Push(pq, S) = [i \in DOMAIN pq \cup S |-> 1]
BY DEF Push

LEMMA QueueAtFirst == Init => QueueInv
BY DEF Init, QueueInv, QueueIsOwn, NoRows

LEMMA QueueRefuseBegin ==
  ASSUME QueueInv, NEW q \in QuerySet, Refuse(q) \/ Begin(q)
  PROVE  QueueInv'
<1>1. /\ priorityQueue = NoRows /\ priorityQueue' = priorityQueue /\ table' = table
      /\ before' = table /\ phase' \in {"repl", "begun"}
  BY DEF QueueInv, Refuse, Begin, Comes
<1>2. DOMAIN priorityQueue' = {}
  BY <1>1 DEF NoRows
<1> QED
  BY <1>1, <1>2 DEF QueueInv, QueueIsOwn

LEMMA QueueSequential ==
  ASSUME DataInv, QueueInv, Sequential
  PROVE  QueueInv'
<1> DEFINE M == Matching(query, table)
<1>1. /\ phase = "begun" /\ phase' = "answer" /\ query' = query /\ before' = before
      /\ ScanRows(M)
  BY DEF Sequential
<1>2. priorityQueue = NoRows /\ DOMAIN priorityQueue = {} /\ table \in Seq(Rows)
  BY <1>1, QueryTyped DEF QueueInv, NoRows
<1>3. CASE query.kind = "SELECT"
  <2>1. table = before /\ table' = table
    BY <1>1, <1>2, <1>3, SelectKeepsTable DEF QueueInv
  <2>2. priorityQueue' = Push(priorityQueue, M)
    BY <1>1, <1>3 DEF ScanRows
  <2> HIDE DEF M
  <2>3. DOMAIN priorityQueue' = M /\ \A i \in DOMAIN priorityQueue' : priorityQueue'[i] = 1
    <3>1. priorityQueue' = [i \in DOMAIN priorityQueue \cup M |-> 1]
      BY <1>2, <2>2, PushOnce
    <3> QED
      BY <1>2, <3>1
  <2>4. \A i \in DOMAIN priorityQueue' : i \in Matching(query', before')
    BY <1>1, <2>1, <2>3 DEF M
  <2> QED
    BY <1>1, <1>3, <2>1, <2>3, <2>4 DEF QueueInv, QueueIsOwn
<1>4. CASE query.kind # "SELECT"
  <2>1. priorityQueue' = priorityQueue
    BY <1>1, <1>4 DEF ScanRows
  <2> QED
    BY <1>1, <1>2, <1>4, <2>1 DEF QueueInv, QueueIsOwn
<1> QED
  BY <1>3, <1>4

LEMMA QueueScanRow ==
  ASSUME DataInv, QueueInv, NEW id \in DOMAIN pos, ScanRow(id)
  PROVE  QueueInv'
<1> DEFINE i == pos[id] + 1
           M == {i} \cap Matching(query, table)
<1>1. /\ phase = "wait" /\ size >= Split /\ DOMAIN pos = Ids(size) /\ size \in Nat
      /\ table \in Seq(Rows)
  BY TaskTyped, QueryTyped DEF DataInv, TasksInv
<1>2. /\ ScanRows(M) /\ pos[id] < tail(size, id) /\ pos' = [pos EXCEPT ![id] = @ + 1]
      /\ query' = query /\ phase' = phase /\ before' = before
  BY DEF ScanRow, main
<1>3. \A k \in DOMAIN pos : /\ pos[k] \in head(size, k) .. tail(size, k)
                           /\ head(size, k) \in Nat /\ tail(size, k) \in Nat
  BY <1>1, TaskTyped, PartType
<1>4. \A k \in DOMAIN pos : pos'[k] = IF k = id THEN pos[k] + 1 ELSE pos[k]
  BY <1>2
<1>5. DOMAIN pos' = DOMAIN pos
  BY <1>2
<1>6. CASE query.kind # "SELECT"
  <2>1. priorityQueue' = priorityQueue /\ DOMAIN priorityQueue = {}
    BY <1>2, <1>6 DEF ScanRows, QueueInv, QueueIsOwn
  <2> QED
    BY <1>1, <1>2, <1>6, <2>1 DEF QueueInv, QueueIsOwn
<1>7. CASE query.kind = "SELECT"
  <2>1. table = before /\ table' = table /\ size' = size
    BY <1>1, <1>2, <1>7, SelectKeepsTable DEF QueueInv, size
  <2>2. priorityQueue' = Push(priorityQueue, M)
    BY <1>2, <1>7 DEF ScanRows
  <2>3. i \notin DOMAIN priorityQueue
    <3> SUFFICES ASSUME i \in DOMAIN priorityQueue PROVE FALSE
      OBVIOUS
    <3>1. PICK k \in DOMAIN pos : head(size, k) < i /\ i <= pos[k]
      BY <1>1 DEF QueueInv
    <3>2. pos[id] \in SubTable(size, id) /\ pos[id] \in SubTable(size, k)
      BY <1>2, <1>3, <3>1 DEF SubTable
    <3>3. k # id
      BY <1>3, <3>1
    <3> QED
      BY <1>1, <3>2, <3>3, SubTablesApart
  <2>4. /\ DOMAIN priorityQueue' = DOMAIN priorityQueue \cup M
        /\ \A j \in DOMAIN priorityQueue' : priorityQueue'[j] = 1
    <3>1. DOMAIN priorityQueue \cap M = {}
      BY <2>3
    <3>2. \A j \in DOMAIN priorityQueue : priorityQueue[j] = 1
      BY DEF QueueInv, QueueIsOwn
    <3> HIDE DEF M
    <3>3. priorityQueue' = [j \in DOMAIN priorityQueue \cup M |-> 1]
      BY <2>2, <3>1, <3>2, PushOnce
    <3> QED
      BY <3>3
  <2>5. ASSUME NEW j \in DOMAIN priorityQueue'
        PROVE  /\ j \in Matching(query, before)
               /\ \E k \in DOMAIN pos : head(size, k) < j /\ j <= pos'[k]
    <3>1. CASE j \in DOMAIN priorityQueue
      <4>1. PICK k \in DOMAIN pos : head(size, k) < j /\ j <= pos[k]
        BY <1>1, <3>1 DEF QueueInv
      <4>2. j \in Matching(query, before) /\ j \in Int
        <5>1. j \in Matching(query, before)
          BY <3>1 DEF QueueInv, QueueIsOwn
        <5>2. j \in DOMAIN table
          BY <2>1, <5>1 DEF Matching
        <5> QED
          BY <1>1, <5>1, <5>2
      <4>3. j <= pos'[k]
        BY <1>3, <1>4, <4>1, <4>2
      <4> QED
        BY <4>1, <4>2, <4>3
    <3>2. CASE j \in M
      <4>1. j = i /\ j \in Matching(query, before)
        BY <2>1, <3>2
      <4>2. head(size, id) < i /\ i <= pos'[id]
        BY <1>3, <1>4
      <4> QED
        BY <4>1, <4>2
    <3> QED
      BY <2>4, <3>1, <3>2
  <2>6. Matching(query', before') = Matching(query, before)
    BY <1>2
  <2> QED
    BY <1>1, <1>2, <1>5, <1>7, <2>1, <2>4, <2>5, <2>6 DEF QueueInv, QueueIsOwn
<1> QED
  BY <1>6, <1>7

LEMMA QueuePrintRow ==
  ASSUME SelectsPrint, DataInv, QueueInv, PrintRow
  PROVE  QueueInv'
<1>1. /\ phase = "answer" /\ query.kind = "SELECT" /\ priorityQueue # NoRows
      /\ table' = table /\ query' = query /\ before' = before
  BY PrintRowDoes
<1>2. query \in QuerySet /\ table \in Seq(Rows) /\ NoField \notin ToSet(query.ops)
  BY <1>1, QueryTyped DEF SelectsPrint
<1>3. phase' = "answer" /\ priorityQueue' = Popped
  BY <1>1, <1>2, PrintRowDoes
<1>4. Top \in DOMAIN priorityQueue
  BY <1>1, <1>2, EmptyQueue, TopIsThere DEF DataInv, RowsInv
<1>5. \A i \in DOMAIN priorityQueue : priorityQueue[i] = 1 /\ i \in Matching(query, before)
  BY DEF QueueInv, QueueIsOwn
<1>6. Popped = [i \in DOMAIN priorityQueue \ {Top} |-> priorityQueue[i]]
  BY <1>4, <1>5 DEF Popped
<1>7. \A i \in DOMAIN priorityQueue' : priorityQueue'[i] = 1 /\ i \in Matching(query, before)
  BY <1>3, <1>5, <1>6
<1>8. Matching(query', before') = Matching(query, before)
  BY <1>1
<1>9. table = before
  BY <1>1 DEF QueueInv
<1> QED
  BY <1>1, <1>3, <1>7, <1>8, <1>9 DEF QueueInv, QueueIsOwn

\* Steps that leave the queue and the table alone, and do not end a SELECT.
LEMMA QueueUntouched ==
  ASSUME DataInv, QueueInv, phase # "repl", query' = query, before' = before,
         priorityQueue' = priorityQueue,
         query.kind = "SELECT" => table' = table,
         \/ phase' = "wait" /\ phase = "begun"
         \/ phase' = "wait" /\ phase = "wait" /\ pos' = pos /\ table' = table
         \/ phase' = "answer"
         \/ phase' = "repl" /\ (query.kind = "SELECT" => priorityQueue = NoRows)
  PROVE  QueueInv'
<1>1. Matching(query', before') = Matching(query, before)
  OBVIOUS
<1>2. query.kind # "SELECT" => priorityQueue = NoRows
  BY EmptyQueue DEF QueueInv, QueueIsOwn
<1>3. DOMAIN NoRows = {}
  BY DEF NoRows
<1>4. CASE phase' = "wait" /\ phase = "begun"
  BY <1>3, <1>4 DEF QueueInv, QueueIsOwn
<1>5. CASE phase' = "wait" /\ phase = "wait" /\ pos' = pos /\ table' = table
  <2>1. size' = size
    BY <1>5 DEF size
  <2> QED
    BY <1>1, <1>5, <2>1 DEF QueueInv, QueueIsOwn
<1>6. CASE phase' = "answer"
  BY <1>1, <1>6 DEF QueueInv, QueueIsOwn
<1>7. CASE phase' = "repl" /\ (query.kind = "SELECT" => priorityQueue = NoRows)
  BY <1>2, <1>3, <1>7 DEF QueueInv, QueueIsOwn
<1> QED
  BY <1>4, <1>5, <1>6, <1>7

LEMMA QueueInductive ==
  ASSUME SelectsPrint
  PROVE  DataInv /\ QueueInv /\ [Next]_vars => QueueInv'
<1> SUFFICES ASSUME DataInv, QueueInv, [Next]_vars PROVE QueueInv'
  OBVIOUS
<1>1. ASSUME NEW q \in QuerySet, Refuse(q) \/ Begin(q)
      PROVE  QueueInv'
  BY <1>1, QueueRefuseBegin
<1>2. CASE Sequential
  BY <1>2, QueueSequential
<1>3. CASE SequentialThrows
  <2>1. /\ phase = "begun" /\ query.kind # "SELECT" /\ query' = query /\ before' = before
        /\ priorityQueue' = priorityQueue /\ table' = table
    BY <1>3 DEF SequentialThrows, LooksUpNoField
  <2>2. phase' = "repl"
    BY <1>3 DEF SequentialThrows, Respond
  <2> QED
    BY <2>1, <2>2, QueueUntouched
<1>4. CASE Fork
  <2>1. /\ phase = "begun" /\ phase' = "wait" /\ query' = query /\ before' = before
        /\ priorityQueue' = priorityQueue /\ table' = table
    BY <1>4 DEF Fork, statics
  <2> QED
    BY <2>1, QueueUntouched
<1>5. CASE Join
  <2>1. /\ phase = "wait" /\ phase' = "answer" /\ query' = query /\ before' = before
        /\ priorityQueue' = priorityQueue /\ table' = table
    BY <1>5 DEF Join, statics
  <2> QED
    BY <2>1, QueueUntouched
<1>11. CASE JoinThrows
  <2>1. /\ phase = "wait" /\ phase' = "repl" /\ query' = query /\ before' = before
        /\ priorityQueue' = priorityQueue /\ table' = table
    BY <1>11 DEF JoinThrows, Respond, statics
  <2>2. query.kind # "SELECT"
    BY <1>11 DEF JoinThrows, DataInv, TasksInv, ThrewInv, OneThrew, LooksUpNoField
  <2> QED
    BY <2>1, <2>2, QueueUntouched
<1>6. ASSUME NEW id \in DOMAIN pos, Task(id)
      PROVE  QueueInv'
  <2>1. CASE ScanRow(id)
    BY <2>1, QueueScanRow
  <2>2. CASE TaskReturns(id)
    <3>1. /\ phase = "wait" /\ phase' = phase /\ query' = query /\ before' = before
          /\ priorityQueue' = priorityQueue /\ table' = table /\ pos' = pos
      BY <2>2, TaskTyped DEF TaskReturns, main
    <3> QED
      BY <3>1, QueueUntouched
  <2>3. CASE TaskThrows(id)
    <3>1. /\ phase = "wait" /\ phase' = phase /\ query' = query /\ before' = before
          /\ priorityQueue' = priorityQueue /\ table' = table /\ pos' = pos
      BY <2>3, TaskTyped DEF TaskThrows, main
    <3> QED
      BY <3>1, QueueUntouched
  <2> QED
    BY <1>6, <2>1, <2>2, <2>3 DEF Task
<1>7. CASE Answer \/ AnswerDuplicate
  <2>1. /\ phase = "answer" /\ query.kind # "SELECT" /\ query' = query /\ before' = before
        /\ priorityQueue' = priorityQueue /\ phase' = "repl"
    BY <1>7 DEF Answer, AnswerDuplicate, Respond, statics, Counters, Gatherers, Extrema
  <2> QED
    BY <2>1, QueueUntouched
<1>8. CASE AnswerSelect
  <2>1. /\ phase = "answer" /\ priorityQueue = NoRows /\ query' = query /\ before' = before
        /\ priorityQueue' = priorityQueue /\ table' = table /\ phase' = "repl"
    BY <1>8, Zenon DEF AnswerSelect, Respond, statics
  <2> QED
    BY <2>1, QueueUntouched
<1>9. CASE PrintRow
  BY <1>9, QueuePrintRow
<1>10. CASE UNCHANGED vars
  <2>1. /\ query' = query /\ before' = before /\ phase' = phase /\ pos' = pos
        /\ priorityQueue' = priorityQueue /\ table' = table /\ size' = size
    BY <1>10 DEF vars, main, tasks, statics, size
  <2>2. Matching(query', before') = Matching(query, before)
    BY <2>1
  <2> QED
    BY <2>1, <2>2 DEF QueueInv, QueueIsOwn
<1> QED
  BY <1>1, <1>2, <1>3, <1>4, <1>5, <1>6, <1>7, <1>8, <1>9, <1>10, <1>11 DEF Next

\* The queue holds rows of the SELECT in execution only, each once, and they
\* satisfy its conditions: for any tables, however many tasks push at a time, as
\* long as no SELECT names a field that is not there.  DataSelect is the
\* counterexample without it.
THEOREM QueueOfSelect ==
  ASSUME SelectsPrint
  PROVE  Spec => []QueueIsOwn
<1>1. Init => QueueInv
  BY QueueAtFirst
<1>2. DataInv /\ QueueInv /\ [Next]_vars => QueueInv'
  BY QueueInductive
<1>3. QueueInv => QueueIsOwn
  BY DEF QueueInv
<1> QED
  BY <1>1, <1>2, <1>3, DataInvariant, PTL DEF Spec

\* When initCondition returns true, every condition has been looked at: its
\* field is in the table and its operator is known, and no two conditions name
\* different keys.  evalCondition never meets a comp that was not set.
THEOREM TrueIsComplete ==
  ASSUME NEW conds, DOMAIN conds = 1 .. Len(conds), Len(conds) \in Nat,
         initCondition(conds) = "true", NEW i \in DOMAIN conds
  PROVE  /\ ~IllFormed(conds[i])
         /\ ~Contradicts(conds, i)
<1>1. \A j \in DOMAIN conds : ~Contradicts(conds, j)
  BY DEF initCondition
<1>2. ~IllFormed(conds[i])
  <2>1. \A j \in 1 .. i - 1 : j \in DOMAIN conds OBVIOUS
  <2>2. \A j \in 1 .. i - 1 : ~Contradicts(conds, j) BY <1>1, <2>1
  <2> QED BY <2>2 DEF initCondition
<1> QED BY <1>1, <1>2

\* When initCondition returns false no row at all satisfies the conditions, so
\* the queries may leave out the loop over the table.
THEOREM FalseIsNever ==
  ASSUME NEW conds, DOMAIN conds = 1 .. Len(conds), Len(conds) \in Nat,
         initCondition(conds) = "false", NEW row
  PROVE  ~evalCondition(conds, row)
<1>1. PICK i \in DOMAIN conds : Contradicts(conds, i) BY DEF initCondition
<1>2. PICK j \in 1 .. i - 1 : OnKey(conds[j]) /\ conds[j].value # conds[i].value
  BY <1>1 DEF Contradicts
<1>3. OnKey(conds[i]) BY <1>1 DEF Contradicts
<1> SUFFICES ASSUME evalCondition(conds, row) PROVE FALSE
  OBVIOUS
<1>4. j \in DOMAIN conds OBVIOUS
<1>5. row.key = conds[i].value BY <1>3 DEF evalCondition
<1>6. row.key = conds[j].value BY <1>2, <1>4 DEF evalCondition
<1> QED BY <1>2, <1>5, <1>6

\* initCondition throws for no other reason than an ill-formed condition.
THEOREM ThrowsForCause ==
  ASSUME NEW conds, initCondition(conds) = "throws"
  PROVE  \E i \in DOMAIN conds : IllFormed(conds[i])
BY DEF initCondition
================================================================================
