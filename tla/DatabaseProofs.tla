----------------------------- MODULE DatabaseProofs -----------------------------
(***************************************************************************)
(* Proofs about Database, for all names, paths, rows and contents of the   *)
(* disk: a query that fails changes no table, and LOAD of a file that DUMP *)
(* wrote is exact, whatever came between the two.                          *)
(***************************************************************************)
EXTENDS Database, TLAPS, SequenceTheorems

\* The values of a row begin at one place only.
LEMMA ValuesBeginOnce ==
  ASSUME NEW line, NEW i \in Nat, NEW j \in Nat, Len(line.items) \in Nat,
         ValuesBegin(line, i), ValuesBegin(line, j)
  PROVE  i = j
<1>1. ~(i < j) BY DEF ValuesBegin
<1>2. ~(j < i) BY DEF ValuesBegin
<1> QED BY <1>1, <1>2

\* A line of the dump that can be read as a row is the row that was written:
\* LOAD of a DUMP never takes one number for another, or a piece of the key for
\* a number, although items run into each other (operator<<, loadTableFromStream).
THEOREM ReadsBackOrFails ==
  ASSUME NEW row \in Seq(Items), NEW n \in Nat, Len(row) = n + 1,
         RowReads(Printed(row), n)
  PROVE  RowRead(Printed(row), n) = row
<1> DEFINE line == Printed(row)
<1>1. line.items = row /\ line.glued \subseteq 2 .. Len(row)
  BY DEF Printed
<1> HIDE DEF line
<1>2. RowReads(line, n) BY DEF line
<1>3. PICK i \in 2 .. Len(row) + 1 :
        ValuesBegin(line, i) /\ \A k \in 0 .. n - 1 : NumberAt(line, i + k)
  BY <1>1, <1>2 DEF RowReads
<1>4. i = 2 \/ n = 0
  <2> SUFFICES ASSUME n # 0 PROVE i = 2
    OBVIOUS
  <2>1. n - 1 \in 0 .. n - 1 BY n # 0
  <2>2. NumberAt(line, i + (n - 1)) BY <1>3, <2>1
  <2>3. i + (n - 1) \in DOMAIN row BY <1>1, <2>2 DEF NumberAt
  <2>4. i + (n - 1) <= n + 1 BY <2>3
  <2> QED BY <2>4
<1>5. (CHOOSE j \in 2 .. Len(row) + 1 : ValuesBegin(line, j)) = i
  <2> DEFINE c == CHOOSE j \in 2 .. Len(row) + 1 : ValuesBegin(line, j)
  <2>1. c \in 2 .. Len(row) + 1 /\ ValuesBegin(line, c) BY <1>3
  <2> HIDE DEF c
  <2>2. c = i BY <1>1, <1>3, <2>1, ValuesBeginOnce
  <2> QED BY <2>2 DEF c
<1>6. RowRead(line, n) = <<row[1]>> \o SubSeq(row, i, i + n - 1)
  BY <1>1, <1>5 DEF RowRead
<1>7. <<row[1]>> \o SubSeq(row, i, i + n - 1) = row
  BY <1>4
<1> QED BY <1>6, <1>7 DEF line

\* A row none of whose values is wide is read back: only items of ten and more
\* characters make a DUMP that cannot be loaded.
THEOREM NarrowReadsBack ==
  ASSUME NEW row \in Seq(Items), NEW n \in Nat, Len(row) = n + 1,
         \A i \in 2 .. n + 1 : row[i] \in Numbers \ Wide
  PROVE  RowReads(Printed(row), n)
<1> DEFINE line == Printed(row)
<1>1. line.items = row /\ line.glued = {} BY DEF Printed
<1> HIDE DEF line
<1>2. 2 \in 2 .. Len(row) + 1 /\ ValuesBegin(line, 2) BY <1>1 DEF ValuesBegin
<1>3. \A k \in 0 .. n - 1 : NumberAt(line, 2 + k) BY <1>1 DEF NumberAt
<1>4. row # <<>> OBVIOUS
<1>5. RowReads(line, n) BY <1>1, <1>2, <1>3, <1>4 DEF RowReads
<1> QED BY <1>5 DEF line
-------------------------------------------------------------------------------

\* A query that fails changes no table, also when it fails in the middle.
THEOREM FailuresChangeNothing == Spec => []FailedChangesNothing
<1>1. Init => FailedChangesNothing
  BY DEF Init, FailedChangesNothing, Idle, NoAnswer
<1>2. FailedChangesNothing /\ [Next]_vars => FailedChangesNothing'
  <2> SUFFICES ASSUME FailedChangesNothing, [Next]_vars
               PROVE  FailedChangesNothing'
    OBVIOUS
  <2> USE DEF FailedChangesNothing, Answered
  <2>1. ASSUME NEW n \in Names,
               \/ DropTable(n) \/ Truncate(n) \/ PrintTable(n)
               \/ \E new \in Names : CopyTable(n, new)
               \/ \E row \in NewRows : Insert(n, row)
        PROVE  FailedChangesNothing'
    <3> USE DEF AtOnce
    <3>1. CASE DropTable(n) BY <3>1 DEF DropTable
    <3>2. CASE Truncate(n) BY <3>2 DEF Truncate
    <3>3. CASE PrintTable(n) BY <3>3 DEF PrintTable
    <3>4. CASE \E new \in Names : CopyTable(n, new) BY <3>4 DEF CopyTable
    <3>5. CASE \E row \in NewRows : Insert(n, row) BY <3>5 DEF Insert
    <3> QED BY <2>1, <3>1, <3>2, <3>3, <3>4, <3>5
  <2>2. ASSUME NEW n \in Names, NEW p \in Paths, DumpOpen(n, p)
        PROVE  FailedChangesNothing'
    BY <2>2 DEF DumpOpen
  <2>3. ASSUME NEW p \in Paths, LoadBegin(p)
        PROVE  FailedChangesNothing'
    BY <2>3 DEF LoadBegin
  <2>4. ASSUME LoadRow PROVE FailedChangesNothing'
    <3>1. query # Idle BY <2>4 DEF LoadRow, Idle
    <3> QED BY <2>4, <3>1 DEF LoadRow
  <2>5. ASSUME LoadRegister PROVE FailedChangesNothing'
    BY <2>5 DEF LoadRegister
  <2>6. ASSUME DumpWrite PROVE FailedChangesNothing'
    <3>1. query # Idle BY <2>6 DEF DumpWrite, Idle
    <3> QED BY <2>6, <3>1 DEF DumpWrite
  <2>7. ASSUME Quit \/ Crash \/ Undefined PROVE FailedChangesNothing'
    BY <2>7 DEF Quit, Crash, Undefined, Exit, NoAnswer
  <2>8. ASSUME ListTable PROVE FailedChangesNothing'
    BY <2>8 DEF ListTable, AtOnce
  <2>9. ASSUME UNCHANGED vars PROVE FailedChangesNothing'
    BY <2>9 DEF vars, memory
  <2> QED BY <2>1, <2>2, <2>3, <2>4, <2>5, <2>6, <2>7, <2>8, <2>9 DEF Next
<1> QED BY <1>1, <1>2, PTL DEF Spec
-------------------------------------------------------------------------------
(* Tables, and the lines they are written to. *)

\* A table without rows.
LEMMA NoRowsOK ==
  ASSUME NEW fields \in Seq(Items), "KEY" \notin ToSet(fields)
  PROVE  TableOK([fields |-> fields, rows |-> <<>>])
  BY DEF TableOK

\* One more row, as INSERT and LOAD add it.
LEMMA RowAddedOK ==
  ASSUME NEW t, TableOK(t), NEW row \in Seq(Items),
         Len(row) = Len(t.fields) + 1 \/ row \in NewRows,
         \A k \in 2 .. Len(row) : row[k] \in Numbers, row[1] \notin KeysOf(t)
  PROVE  TableOK(WithRows(t, Append(t.rows, row)))
  <1> DEFINE rows == Append(t.rows, row)
  <1>1. /\ t.rows \in Seq(Seq(Items)) /\ DOMAIN t.rows = 1 .. Len(t.rows)
        /\ Len(t.rows) \in Nat
    BY LenProperties DEF TableOK
  <1>2. /\ rows \in Seq(Seq(Items)) /\ DOMAIN rows = 1 .. Len(t.rows) + 1
        /\ \A i \in DOMAIN t.rows : rows[i] = t.rows[i]
        /\ rows[Len(t.rows) + 1] = row
    BY <1>1, AppendProperties, LenProperties
  <1>3. \A i \in DOMAIN t.rows : t.rows[i][1] # row[1]
    BY DEF KeysOf
  <1> HIDE DEF rows
  <1>4. ASSUME NEW i \in DOMAIN rows
        PROVE  /\ Len(rows[i]) = Len(t.fields) + 1 \/ rows[i] \in NewRows
               /\ \A k \in 2 .. Len(rows[i]) : rows[i][k] \in Numbers
    <2>1. CASE i \in DOMAIN t.rows BY <2>1, <1>2 DEF TableOK
    <2>2. CASE i = Len(t.rows) + 1 BY <2>2, <1>2
    <2> QED BY <1>1, <1>2, <2>1, <2>2
  <1>5. ASSUME NEW i \in DOMAIN rows, NEW j \in DOMAIN rows, rows[i][1] = rows[j][1]
        PROVE  i = j
    <2>1. CASE i \in DOMAIN t.rows /\ j \in DOMAIN t.rows
      <3>1. t.rows[i][1] = t.rows[j][1] BY <2>1, <1>2, <1>5
      <3> QED BY <2>1, <3>1 DEF TableOK
    <2>2. i = Len(t.rows) + 1 => j \notin DOMAIN t.rows BY <1>2, <1>3, <1>5
    <2>3. j = Len(t.rows) + 1 => i \notin DOMAIN t.rows BY <1>2, <1>3, <1>5
    <2>4. DOMAIN rows = 1 .. Len(t.rows) + 1 BY <1>2
    <2>5. i \in DOMAIN t.rows \/ i = Len(t.rows) + 1 BY <1>1, <2>4
    <2>6. j \in DOMAIN t.rows \/ j = Len(t.rows) + 1 BY <1>1, <2>4
    <2> QED BY <2>1, <2>2, <2>3, <2>5, <2>6
  <1>6. WithRows(t, rows) = [fields |-> t.fields, rows |-> rows]
    BY DEF WithRows
  <1>7. t.fields \in Seq(Items) /\ "KEY" \notin ToSet(t.fields) BY DEF TableOK
  <1> QED BY <1>2, <1>4, <1>5, <1>6, <1>7 DEF TableOK, rows

\* The line of a row has the form every line of a file has.
LEMMA PrintedOK == ASSUME NEW items \in Seq(Items) PROVE Printed(items) \in Line
  BY DEF Printed, Line

\* The first rows of a table.
LEMMA FirstRowsOK ==
  ASSUME NEW t, TableOK(t), NEW k \in 0 .. Len(t.rows) - 1
  PROVE  TableOK(WithRows(t, SubSeq(t.rows, 1, k)))
  <1> DEFINE rows == SubSeq(t.rows, 1, k)
  <1>1. t.rows \in Seq(Seq(Items)) BY DEF TableOK
  <1>2. /\ rows \in Seq(Seq(Items)) /\ DOMAIN rows \subseteq DOMAIN t.rows
        /\ \A i \in DOMAIN rows : rows[i] = t.rows[i]
    BY <1>1
  <1> HIDE DEF rows
  <1>3. WithRows(t, rows) = [fields |-> t.fields, rows |-> rows]
    BY DEF WithRows
  <1>4. t.fields \in Seq(Items) /\ "KEY" \notin ToSet(t.fields) BY DEF TableOK
  <1>5. \A i \in DOMAIN rows :
          /\ Len(rows[i]) = Len(t.fields) + 1 \/ rows[i] \in NewRows
          /\ \A j \in 2 .. Len(rows[i]) : rows[i][j] \in Numbers
          /\ \A j \in DOMAIN rows : rows[i][1] = rows[j][1] => i = j
    BY <1>2 DEF TableOK
  <1>6. TableOK([fields |-> t.fields, rows |-> rows])
    BY <1>2, <1>4, <1>5 DEF TableOK
  <1> QED BY <1>3, <1>6 DEF rows

\* A function of the first numbers is a sequence.
LEMMA IsSequence ==
  ASSUME NEW S, NEW m \in Nat, NEW f \in [1 .. m -> S]
  PROVE  f \in Seq(S) /\ Len(f) = m
  OBVIOUS

\* A row has a key, at least.
LEMMA RowsHaveKeys ==
  ASSUME NEW t, TableOK(t), NEW i \in DOMAIN t.rows
  PROVE  /\ t.rows[i] \in Seq(Items) /\ Len(t.rows[i]) \in Nat /\ Len(t.rows[i]) >= 1
         /\ t.fields \in Seq(Items) /\ Len(t.fields) \in Nat
  <1>1. t.rows \in Seq(Seq(Items)) /\ t.fields \in Seq(Items) BY DEF TableOK
  <1>2. t.rows[i] \in Seq(Items) BY <1>1
  <1>3. Len(t.rows[i]) = Len(t.fields) + 1 \/ t.rows[i] # <<>>
    BY DatabaseAssumption DEF TableOK
  <1> QED BY <1>1, <1>2, <1>3

\* What is printed of a table is a table, in which every row is whole.
LEMMA PrintsOK ==
  ASSUME NEW t, TableOK(t), NEW u \in Prints(t)
  PROVE  /\ TableOK(u) /\ Len(u.rows) = Len(t.rows)
         /\ Whole(t) => u = t
  <1> DEFINE m == Len(t.fields) + 1
  <1>1. PICK beyond \in [Short(t) -> [2 .. m -> Beyond]] :
          u = [fields |-> t.fields,
               rows |-> [i \in DOMAIN t.rows |-> [k \in 1 .. m |->
                          IF k <= Len(t.rows[i]) THEN t.rows[i][k] ELSE beyond[i][k]]]]
    BY DEF Prints
  <1>2. /\ t.rows \in Seq(Seq(Items)) /\ t.fields \in Seq(Items) /\ m \in Nat /\ m >= 1
        /\ DOMAIN t.rows = 1 .. Len(t.rows) /\ Len(t.rows) \in Nat
    BY DEF TableOK
  <1>3. ASSUME NEW i \in DOMAIN t.rows
        PROVE  /\ u.rows[i] \in [1 .. m -> Items] /\ u.rows[i][1] = t.rows[i][1]
               /\ \A k \in 2 .. m : u.rows[i][k] \in Numbers
               /\ Len(t.rows[i]) = m => u.rows[i] = t.rows[i]
    <2>1. u.rows[i] = [k \in 1 .. m |->
                         IF k <= Len(t.rows[i]) THEN t.rows[i][k] ELSE beyond[i][k]]
      BY <1>1
    <2>2. t.rows[i] \in Seq(Items) /\ Len(t.rows[i]) \in Nat /\ Len(t.rows[i]) >= 1
      BY RowsHaveKeys
    <2>3. ASSUME NEW k \in 1 .. m, ~(k <= Len(t.rows[i]))
          PROVE  k \in 2 .. m /\ beyond[i][k] \in Items \cap Numbers
      <3>1. k \in 2 .. m /\ Len(t.rows[i]) < m BY <1>2, <2>2, <2>3
      <3>2. i \in Short(t) BY <3>1 DEF Short
      <3>3. beyond[i] \in [2 .. m -> Beyond] BY <3>2
      <3>4. beyond[i][k] \in Beyond BY <3>1, <3>3
      <3> QED BY <3>1, <3>4, DatabaseAssumption
    <2>4. \A k \in 2 .. Len(t.rows[i]) : t.rows[i][k] \in Numbers
      BY DEF TableOK
    <2> HIDE DEF m
    <2>5. \A k \in 1 .. m : u.rows[i][k] \in Items
      BY <2>1, <2>2, <2>3
    <2>6. \A k \in 2 .. m : u.rows[i][k] \in Numbers
      BY <1>2, <2>1, <2>2, <2>3, <2>4
    <2>7. u.rows[i] \in [1 .. m -> Items] BY <2>1, <2>5
    <2>8. u.rows[i][1] = t.rows[i][1] BY <1>2, <2>1, <2>2
    <2>9. ASSUME Len(t.rows[i]) = m PROVE u.rows[i] = t.rows[i]
      <3>1. u.rows[i] = [k \in 1 .. m |-> t.rows[i][k]] BY <1>2, <2>1, <2>9
      <3>2. t.rows[i] = [k \in 1 .. m |-> t.rows[i][k]] BY <2>2, <2>9
      <3> QED BY <3>1, <3>2
    <2> QED BY <2>6, <2>7, <2>8, <2>9
  <1>4. u = [fields |-> u.fields, rows |-> u.rows] /\ u.fields = t.fields
    BY <1>1
  <1>5. DOMAIN u.rows = DOMAIN t.rows /\ u.rows = [i \in DOMAIN t.rows |-> u.rows[i]]
    BY <1>1
  <1> HIDE DEF m
  <1>6. ASSUME NEW i \in DOMAIN t.rows
        PROVE  u.rows[i] \in Seq(Items) /\ Len(u.rows[i]) = m
    <2>1. u.rows[i] \in [1 .. m -> Items] BY <1>3
    <2> QED BY <1>2, <2>1
  <1>7. u.rows \in Seq(Seq(Items)) /\ Len(u.rows) = Len(t.rows)
    <2>1. u.rows \in [1 .. Len(t.rows) -> Seq(Items)] BY <1>2, <1>5, <1>6
    <2> QED BY <1>2, <2>1, IsSequence
  <1>8. TableOK(u)
    <2>1. \A i \in DOMAIN u.rows, j \in DOMAIN u.rows : u.rows[i][1] = u.rows[j][1] => i = j
      BY <1>3, <1>5 DEF TableOK
    <2>2. u.fields \in Seq(Items) /\ "KEY" \notin ToSet(u.fields) BY <1>4 DEF TableOK
    <2>3. \A i \in DOMAIN u.rows : /\ Len(u.rows[i]) = Len(u.fields) + 1
                                   /\ \A k \in 2 .. Len(u.rows[i]) : u.rows[i][k] \in Numbers
      BY <1>3, <1>4, <1>5, <1>6 DEF m
    <2> QED BY <1>4, <1>7, <2>1, <2>2, <2>3 DEF TableOK
  <1>9. ASSUME Whole(t) PROVE u = t
    <2>1. \A i \in DOMAIN t.rows : u.rows[i] = t.rows[i] BY <1>3, <1>9 DEF Whole, m
    <2>2. u.rows = t.rows BY <1>2, <1>7, <2>1, SeqEqual
    <2>3. t = [fields |-> t.fields, rows |-> t.rows] BY DEF TableOK
    <2> QED BY <1>4, <2>2, <2>3
  <1> QED BY <1>7, <1>8, <1>9

\* A table is written to a file of lines.
LEMMA DumpedOK ==
  ASSUME NEW n \in Names, NEW t, TableOK(t)
  PROVE  FileOK(Dumped(n, t))
  <1> DEFINE rows == [i \in DOMAIN t.rows |-> Printed(t.rows[i])]
             head == Printed(<<"KEY">> \o t.fields)
  <1>1. Dumped(n, t) = [name |-> n, count |-> Len(t.fields) + 1, header |-> head, rows |-> rows]
    BY DEF Dumped
  <1>2. Len(t.fields) + 1 \in Nat /\ head \in Line
    <2>1. t.fields \in Seq(Items) BY DEF TableOK
    <2>2. <<"KEY">> \in Seq(Items)
      <3>1. "KEY" \in Items BY ItemAssumption
      <3> DEFINE key == "KEY"
      <3> HIDE DEF key
      <3>2. <<key>> \in Seq(Items) BY <3>1 DEF key
      <3> QED BY <3>2 DEF key
    <2>3. <<"KEY">> \o t.fields \in Seq(Items) BY <2>1, <2>2, ConcatProperties
    <2>4. head \in Line BY <2>3, PrintedOK
    <2> QED BY <2>1, <2>4, LenProperties
  <1>3. rows \in Seq(Line)
    <2>1. t.rows \in Seq(Seq(Items)) BY DEF TableOK
    <2>2. DOMAIN t.rows = 1 .. Len(t.rows) /\ Len(t.rows) \in Nat BY <2>1
    <2>3. \A i \in DOMAIN t.rows : Printed(t.rows[i]) \in Line BY <2>1, PrintedOK
    <2> HIDE DEF Printed
    <2> QED BY <2>2, <2>3
  <1> HIDE DEF rows, head
  <1> QED BY <1>1, <1>2, <1>3 DEF FileOK

\* What LOAD reads of a line is a row of as many numbers as it asks for.
LEMMA RowReadOK ==
  ASSUME NEW line \in Line, NEW n \in Nat, RowReads(line, n)
  PROVE  /\ RowRead(line, n) \in Seq(Items) /\ Len(RowRead(line, n)) = n + 1
         /\ \A k \in 2 .. n + 1 : RowRead(line, n)[k] \in Numbers
  <1>1. line.items \in Seq(Items) /\ Len(line.items) \in Nat BY DEF Line
  <1>2. PICK i \in 2 .. Len(line.items) + 1 :
          ValuesBegin(line, i) /\ \A k \in 0 .. n - 1 : NumberAt(line, i + k)
    BY DEF RowReads
  <1> DEFINE c == CHOOSE j \in 2 .. Len(line.items) + 1 : ValuesBegin(line, j)
  <1>3. c = i
    <2>1. c \in 2 .. Len(line.items) + 1 /\ ValuesBegin(line, c) BY <1>2
    <2> HIDE DEF c
    <2> QED BY <1>1, <1>2, <2>1, ValuesBeginOnce
  <1> DEFINE values == SubSeq(line.items, i, i + n - 1)
  <1>4. RowRead(line, n) = <<line.items[1]>> \o values
    BY <1>3 DEF RowRead
  <1>5. \A k \in 0 .. n - 1 : i + k \in DOMAIN line.items /\ line.items[i + k] \in Numbers
    BY <1>2 DEF NumberAt
  <1>6. \A k \in i .. i + n - 1 : line.items[k] \in Items /\ line.items[k] \in Numbers
    <2> SUFFICES ASSUME NEW k \in i .. i + n - 1
                 PROVE  k \in DOMAIN line.items /\ line.items[k] \in Numbers
      BY <1>1
    <2>1. k - i \in 0 .. n - 1 /\ i + (k - i) = k BY <1>1
    <2> QED BY <2>1, <1>5
  <1>7. /\ values \in Seq(Items) /\ Len(values) = n
        /\ \A k \in 1 .. n : values[k] = line.items[i + k - 1]
    BY <1>1, <1>6, SubSeqProperties
  <1>8. line.items[1] \in Items
    BY <1>1 DEF RowReads
  <1> HIDE DEF values
  <1>9. <<line.items[1]>> \o values \in Seq(Items)
    BY <1>7, <1>8
  <1>10. ASSUME NEW k \in 2 .. n + 1
         PROVE  (<<line.items[1]>> \o values)[k] = values[k - 1] /\ values[k - 1] \in Numbers
    <2>1. (<<line.items[1]>> \o values)[k] = values[k - 1] BY <1>7
    <2>2. values[k - 1] = line.items[i + (k - 1) - 1] BY <1>7
    <2>3. i + (k - 1) - 1 \in i .. i + n - 1 BY <1>1
    <2> QED BY <2>1, <2>2, <2>3, <1>6
  <1> QED BY <1>4, <1>7, <1>9, <1>10

\* LOAD reads the fields that DUMP wrote.
LEMMA FieldsReadBack ==
  ASSUME NEW n, NEW t, TableOK(t)
  PROVE  LET f == Dumped(n, t)
         IN  /\ f.name = n /\ f.count = Len(t.fields) + 1
             /\ DOMAIN f.rows = DOMAIN t.rows
             /\ \A i \in DOMAIN t.rows : f.rows[i] = Printed(t.rows[i])
             /\ SubSeq(f.header.items, 2, f.count) = t.fields
  <1> DEFINE line == <<"KEY">> \o t.fields
  <1>1. t.fields \in Seq(Items) /\ <<"KEY">> \in Seq(Items)
    BY ItemAssumption DEF TableOK
  <1>2. SubSeq(line, 2, Len(t.fields) + 1) = t.fields
    <2>1. /\ line \in Seq(Items) /\ Len(line) = Len(t.fields) + 1
          /\ \A i \in 1 .. Len(t.fields) : line[i + 1] = t.fields[i]
      BY <1>1, ConcatProperties
    <2> HIDE DEF line
    <2>2. /\ SubSeq(line, 2, Len(t.fields) + 1) \in Seq(Items)
          /\ Len(SubSeq(line, 2, Len(t.fields) + 1)) = Len(t.fields)
          /\ \A i \in 1 .. Len(t.fields) :
               SubSeq(line, 2, Len(t.fields) + 1)[i] = line[i + 1]
      BY <1>1, <2>1
    <2> QED BY <1>1, <2>1, <2>2, SeqEqual
  <1> HIDE DEF line
  <1>3. Printed(line).items = line BY DEF Printed
  <1> QED BY <1>2, <1>3 DEF Dumped, line
-------------------------------------------------------------------------------
(* The inductive invariant. *)

\* What DUMP wrote of a table whose rows are whole is that table.
LEMMA WholeDump ==
  ASSUME NEW p, NEW w, HoldsDump(w, p), w # None, Whole(w.table)
  PROVE  /\ w = [name |-> w.name, table |-> w.table] /\ TableOK(w.table)
         /\ p \in DOMAIN files /\ files[p] = Dumped(w.name, w.table)
  BY PrintsOK DEF HoldsDump

LEMMA InitIndInv == Init => IndInv
  BY DatabaseAssumption DEF Init, IndInv, DatabaseTypeOK, QueryOK, Nothing, Idle, NoAnswer,
     HoldsDump, None

\* A query that is one step changes the tables and nothing else.
LEMMA TablesIndInv ==
  ASSUME IndInv, query' = Idle, UNCHANGED <<files, fileTableNameMap, origin>>,
         answer'.result \in {"ok", "error"},
         \A n \in DOMAIN tables' : n \in Names /\ TableOK(tables'[n])
  PROVE  IndInv'
  BY DEF IndInv, DatabaseTypeOK, QueryOK, Idle, HoldsDump

LEMMA TableIndInv ==
  ASSUME IndInv, NEW n \in Names,
         \/ DropTable(n) \/ Truncate(n) \/ PrintTable(n)
         \/ \E new \in Names : CopyTable(n, new)
         \/ \E row \in NewRows : Insert(n, row)
  PROVE  IndInv'
  <1> USE DEF AtOnce, Answered
  <1>1. \A m \in DOMAIN tables : m \in Names /\ TableOK(tables[m])
    BY DEF IndInv, DatabaseTypeOK
  <1>2. CASE DropTable(n)
    <2>1. \A m \in DOMAIN tables' : m \in Names /\ TableOK(tables'[m])
      BY <1>1, <1>2 DEF DropTable, Restrict
    <2> QED BY <1>2, <2>1, TablesIndInv DEF DropTable
  <1>3. CASE Truncate(n)
    <2>1. n \in DOMAIN tables => TableOK(WithRows(tables[n], <<>>))
      BY <1>1, NoRowsOK DEF TableOK, WithRows
    <2>2. \A m \in DOMAIN tables' : m \in Names /\ TableOK(tables'[m])
      BY <1>1, <1>3, <2>1 DEF Truncate, Set
    <2> QED BY <1>3, <2>2, TablesIndInv DEF Truncate
  <1>4. CASE PrintTable(n)
    BY <1>1, <1>4, TablesIndInv DEF PrintTable
  <1>5. ASSUME NEW new \in Names, CopyTable(n, new) PROVE IndInv'
    <2>1. \A m \in DOMAIN tables' : m \in Names /\ TableOK(tables'[m])
      BY <1>1, <1>5 DEF CopyTable, Put
    <2> QED BY <1>5, <2>1, TablesIndInv DEF CopyTable
  <1>6. ASSUME NEW row \in NewRows, Insert(n, row) PROVE IndInv'
    <2>1. ASSUME n \in DOMAIN tables, row[1] \notin KeysOf(tables[n])
          PROVE  TableOK(WithRows(tables[n], Append(tables[n].rows, row)))
      <3>1. /\ row \in Seq(Items) /\ \A k \in 2 .. Len(row) : row[k] \in Numbers
        BY DatabaseAssumption
      <3> QED BY <1>1, <2>1, <3>1, RowAddedOK
    <2>2. \A m \in DOMAIN tables' : m \in Names /\ TableOK(tables'[m])
      BY <1>1, <1>6, <2>1 DEF Insert, Set
    <2> QED BY <1>6, <2>2, TablesIndInv DEF Insert
  <1> QED BY <1>2, <1>3, <1>4, <1>5, <1>6

LEMMA LoadBeginIndInv ==
  ASSUME IndInv, NEW p \in Paths, LoadBegin(p)
  PROVE  IndInv'
  <1>1. DOMAIN fileTableNameMap' \subseteq Paths
    BY DEF IndInv, DatabaseTypeOK, LoadBegin, getFileTableName, Put
  <1>2. /\ UNCHANGED <<tables, files, origin>>
        /\ answer'.result \in {"none", "error"}
    BY DEF LoadBegin, Answered, NoAnswer
  <1>3. QueryOK(query)'
    <2>1. CASE ~HeadLoads(p)
      BY <2>1 DEF LoadBegin, Answered, QueryOK
    <2>2. CASE HeadLoads(p)
      <3> DEFINE f == files[p]
                 fields == SubSeq(f.header.items, 2, f.count)
                 t == [fields |-> fields, rows |-> <<>>]
      <3>1. /\ p \in DOMAIN files /\ f.count \in Nat \ {0} /\ f.name \in Names
            /\ f.header.items \in Seq(Items)
            /\ \A i \in 1 .. f.count : i \in DOMAIN f.header.items
            /\ "KEY" \notin ToSet(fields)
        BY <2>2 DEF IndInv, HeadLoads, HeaderReads, Creates, FileOK, Line
      <3>2. query' = LoadAt(p, 1, t)
        BY <2>2 DEF LoadBegin
      <3>3. fields \in Seq(Items) /\ Len(fields) + 1 = f.count
        <4>1. \A i \in 2 .. f.count : f.header.items[i] \in Items BY <3>1
        <4> QED BY <3>1, <4>1, SubSeqProperties
      <3> HIDE DEF fields
      <3>4. TableOK(t) /\ Whole(t) /\ t.fields = fields /\ t.rows = <<>>
        BY <3>1, <3>3, NoRowsOK DEF Whole
      <3>5. origin[p] # None /\ Whole(origin[p].table) => t.fields = origin[p].table.fields
        BY <3>1, WholeDump, FieldsReadBack DEF IndInv, fields
      <3> HIDE DEF t
      <3>6. Loading(query', f, origin[p])
        BY <3>1, <3>2, <3>3, <3>4, <3>5 DEF Loading, LoadAt
      <3> QED BY <1>2, <3>1, <3>2, <3>6 DEF QueryOK, LoadAt
    <2> QED BY <2>1, <2>2
  <1> QED BY <1>1, <1>2, <1>3, SMTT(30) DEF IndInv, DatabaseTypeOK, QueryOK, Loading, LoadAt,
                                  Dumping, Idle, HoldsDump

\* The line that LOAD reads next is the next row, if the file is a dump.
LEMMA NextRowReadBack ==
  ASSUME IndInv, query.op = "load", HasLine(query.path, query.line),
         origin[query.path] # None, Whole(origin[query.path].table),
         RowReads(files[query.path].rows[query.line], files[query.path].count - 1)
  PROVE  /\ query.line \in DOMAIN origin[query.path].table.rows
         /\ RowRead(files[query.path].rows[query.line], files[query.path].count - 1)
              = origin[query.path].table.rows[query.line]
  <1> DEFINE t == origin[query.path].table
             row == t.rows[query.line]
  <1>1. query.path \in Paths /\ HoldsDump(origin[query.path], query.path)
    BY DEF IndInv, DatabaseTypeOK, QueryOK, Idle
  <1>2. TableOK(t) /\ Whole(t) /\ files[query.path] = Dumped(origin[query.path].name, t)
    BY <1>1, WholeDump
  <1> HIDE DEF t
  <1>3. /\ files[query.path].count = Len(t.fields) + 1
        /\ query.line \in DOMAIN t.rows
        /\ files[query.path].rows[query.line] = Printed(row)
    BY <1>2, FieldsReadBack DEF HasLine
  <1>4. row \in Seq(Items) /\ Len(row) = Len(t.fields) + 1 /\ Len(t.fields) \in Nat
    BY <1>2, <1>3 DEF TableOK, Whole
  <1>5. files[query.path].count - 1 = Len(t.fields) BY <1>3, <1>4
  <1>6. RowReads(Printed(row), Len(t.fields)) BY <1>3, <1>5
  <1>7. RowRead(Printed(row), Len(t.fields)) = row
    <2> HIDE DEF row
    <2> QED BY <1>4, <1>6, ReadsBackOrFails
  <1> QED BY <1>3, <1>5, <1>7 DEF t

LEMMA LoadRowIndInv ==
  ASSUME IndInv, LoadRow
  PROVE  IndInv'
  <1> DEFINE f == files[query.path]
             line == f.rows[query.line]
             n == f.count - 1
             row == RowRead(line, n)
             w == origin[query.path]
  <1>1. /\ query.op = "load" /\ HasLine(query.path, query.line)
        /\ UNCHANGED <<tables, fileTableNameMap, files, origin>>
    BY DEF LoadRow
  <1>2. query.path \in DOMAIN files /\ Loading(query, f, w) /\ FileOK(f)
    BY <1>1 DEF IndInv, QueryOK, Idle
  <1>3. CASE query' = Idle /\ answer'.result = "error"
    BY <1>1, <1>3 DEF IndInv, DatabaseTypeOK, QueryOK, Idle, HoldsDump
  <1>4. CASE /\ RowReads(line, n) /\ row[1] \notin KeysOf(query.table)
             /\ answer' = answer
             /\ query' = LoadAt(query.path, query.line + 1,
                                WithRows(query.table, Append(query.table.rows, row)))
    <2> DEFINE t == WithRows(query.table, Append(query.table.rows, row))
    <2>1. /\ TableOK(query.table) /\ Whole(query.table) /\ query.line = Len(query.table.rows) + 1
          /\ n = Len(query.table.fields) /\ n \in Nat /\ line \in Line
          /\ Len(query.table.rows) \in Nat
      BY <1>1, <1>2 DEF Loading, FileOK, HasLine, TableOK
    <2>2. row \in Seq(Items) /\ Len(row) = n + 1 /\ \A k \in 2 .. n + 1 : row[k] \in Numbers
      BY <1>4, <2>1, RowReadOK
    <2>3. w # None /\ Whole(w.table) =>
            query.line \in DOMAIN w.table.rows /\ row = w.table.rows[query.line]
      BY <1>1, <1>4, NextRowReadBack
    <2> HIDE DEF f, line, n, row, w
    <2>4. TableOK(t) /\ t.fields = query.table.fields /\ t.rows = Append(query.table.rows, row)
      BY <1>4, <2>1, <2>2, RowAddedOK DEF WithRows
    <2>5. query' = LoadAt(query.path, query.line + 1, t)
      BY <1>4
    <2>6. /\ Len(t.rows) = query.line
          /\ \A i \in DOMAIN t.rows :
               \/ i = query.line /\ t.rows[i] = row
               \/ i \in DOMAIN query.table.rows /\ t.rows[i] = query.table.rows[i]
      <3>1. query.table.rows \in Seq(Seq(Items)) BY <2>1 DEF TableOK
      <3>2. /\ Len(t.rows) = Len(query.table.rows) + 1
            /\ DOMAIN t.rows = 1 .. Len(query.table.rows) + 1
            /\ DOMAIN query.table.rows = 1 .. Len(query.table.rows)
            /\ \A i \in 1 .. Len(query.table.rows) : t.rows[i] = query.table.rows[i]
            /\ t.rows[Len(query.table.rows) + 1] = row
        <4> HIDE DEF t
        <4> QED BY <2>2, <2>4, <3>1, AppendProperties, LenProperties
      <3> QED BY <2>1, <3>2
    <2> HIDE DEF t
    <2>7. Loading(query', f, w)
      <3>1. query'.table = t /\ query'.line = query.line + 1 /\ query'.path = query.path
        BY <2>5 DEF LoadAt
      <3>2. w # None /\ Whole(w.table) =>
              /\ t.fields = w.table.fields
              /\ \A i \in DOMAIN t.rows : /\ i \in DOMAIN w.table.rows
                                          /\ t.rows[i] = w.table.rows[i]
        BY <1>2, <2>3, <2>4, <2>6 DEF Loading
      <3>3. f.name \in Names /\ f.count = Len(t.fields) + 1
        BY <1>2, <2>4 DEF Loading
      <3>4. Whole(t) BY <2>1, <2>2, <2>4, <2>6 DEF Whole
      <3> QED BY <2>4, <2>5, <2>6, <3>1, <3>2, <3>3, <3>4 DEF Loading
    <2>8. QueryOK(query)'
      BY <1>1, <1>2, <2>5, <2>7 DEF QueryOK, LoadAt, f, w
    <2> QED BY <1>1, <1>4, <2>5, <2>8 DEF IndInv, DatabaseTypeOK, HoldsDump, LoadAt
  <1> QED BY <1>3, <1>4 DEF LoadRow, Answered

LEMMA LoadRegisterIndInv ==
  ASSUME IndInv, LoadRegister
  PROVE  IndInv'
  <1>1. TableOK(query.table) /\ files[query.path].name \in Names
    BY DEF IndInv, QueryOK, Idle, Loading, LoadRegister
  <1>2. \A m \in DOMAIN tables' : m \in Names /\ TableOK(tables'[m])
    BY <1>1 DEF LoadRegister, Put, IndInv, DatabaseTypeOK
  <1> QED BY <1>2, TablesIndInv DEF LoadRegister, Answered

\* A file changes while no DUMP is known to have written it.
LEMMA FileIndInv ==
  ASSUME IndInv, NEW p \in Paths, NEW f, FileOK(f), files' = Put(files, p, f),
         NEW w, DOMAIN origin' = Paths, origin'[p] = w,
         \A r \in Paths : r # p => origin'[r] = origin[r],
         w # None => /\ w = [name |-> w.name, table |-> w.table]
                     /\ w.name \in Names /\ TableOK(w.table)
                     /\ \E t \in Prints(w.table) : f = Dumped(w.name, t)
  PROVE  /\ DOMAIN files' \subseteq Paths
         /\ \A r \in DOMAIN files' : FileOK(files'[r])
         /\ DOMAIN origin' = Paths
         /\ \A r \in Paths : HoldsDump(origin[r], r)'
  <1>1. /\ DOMAIN files' = DOMAIN files \cup {p} /\ files'[p] = f
        /\ \A r \in DOMAIN files : r # p => files'[r] = files[r]
    BY DEF Put
  <1>2. /\ DOMAIN origin' = Paths /\ origin'[p] = w
        /\ \A r \in Paths : r # p => origin'[r] = origin[r]
    OBVIOUS
  <1>3. \A r \in Paths : HoldsDump(origin[r], r)'
    <2> SUFFICES ASSUME NEW r \in Paths PROVE HoldsDump(origin[r], r)'
      OBVIOUS
    <2>1. CASE r = p BY <1>1, <1>2, <2>1 DEF HoldsDump
    <2>2. CASE r # p
      <3>1. HoldsDump(origin[r], r) /\ origin'[r] = origin[r] BY <1>2, <2>2 DEF IndInv
      <3> QED BY <1>1, <2>2, <3>1 DEF HoldsDump
    <2> QED BY <2>1, <2>2
  <1> QED BY <1>1, <1>2, <1>3 DEF IndInv, DatabaseTypeOK

LEMMA DumpOpenIndInv ==
  ASSUME IndInv, NEW n \in Names, NEW p \in Paths, DumpOpen(n, p)
  PROVE  IndInv'
  <1>1. DOMAIN fileTableNameMap' \subseteq Paths /\ tables' = tables
    BY DEF DumpOpen, Put, IndInv, DatabaseTypeOK
  <1>2. CASE p \in Protected
    <2>1. /\ query' = Idle /\ answer'.result = "error"
          /\ UNCHANGED <<files, origin>>
      BY <1>2 DEF DumpOpen, Answered
    <2> QED BY <1>1, <2>1 DEF IndInv, DatabaseTypeOK, QueryOK, Idle, HoldsDump
  <1>3. CASE p \notin Protected
    <2>1. /\ query' = [op |-> "dump", path |-> p, name |-> n] /\ answer' = NoAnswer
          /\ files' = Put(files, p, Empty) /\ origin' = Set(origin, p, None)
      BY <1>3 DEF DumpOpen
    <2>2. FileOK(Empty)
      <3>1. <<>> \in Seq(Items) /\ <<>> \in Seq(Line) OBVIOUS
      <3>2. Printed(<<>>) \in Line BY <3>1, PrintedOK
      <3> QED BY <3>1, <3>2 DEF Empty, FileOK
    <2>3. /\ DOMAIN files' \subseteq Paths
          /\ \A r \in DOMAIN files' : FileOK(files'[r])
          /\ DOMAIN origin' = Paths
          /\ \A r \in Paths : HoldsDump(origin[r], r)'
      <3>1. /\ DOMAIN origin' = Paths /\ origin'[p] = None
            /\ \A r \in Paths : r # p => origin'[r] = origin[r]
        BY <2>1 DEF Set, IndInv
      <3> QED BY <2>1, <2>2, <3>1, FileIndInv
    <2>4. QueryOK(query)'
      <3>1. p \in DOMAIN files' /\ origin'[p] = None
        BY <2>1 DEF Put, Set, IndInv
      <3> QED BY <2>1, <3>1 DEF QueryOK, Dumping
    <2> QED BY <1>1, <2>1, <2>3, <2>4 DEF IndInv, DatabaseTypeOK, NoAnswer
  <1> QED BY <1>2, <1>3

LEMMA DumpWriteIndInv ==
  ASSUME IndInv, DumpWrite
  PROVE  IndInv'
  <1>1. /\ query.op = "dump" /\ query.path \in DOMAIN files /\ query.path \in Paths
        /\ query.name \in Names /\ UNCHANGED <<tables, fileTableNameMap>>
        /\ query' = Idle /\ answer'.result \in {"ok", "error"}
    BY DEF DumpWrite, Answered, IndInv, DatabaseTypeOK, QueryOK, Idle, Dumping
  <1>2. CASE query.name \notin DOMAIN tables
    <2>1. UNCHANGED <<files, origin>> BY <1>2 DEF DumpWrite
    <2> QED BY <1>1, <2>1 DEF IndInv, DatabaseTypeOK, QueryOK, Idle, HoldsDump
  <1>3. CASE query.name \in DOMAIN tables
    <2> DEFINE n == query.name
               w == [name |-> n, table |-> tables[n]]
    <2>1. PICK t \in Prints(tables[n]) : files' = Put(files, query.path, Dumped(n, t))
      BY <1>3 DEF DumpWrite
    <2> DEFINE f == Dumped(n, t)
    <2>0. files' = Put(files, query.path, f) /\ origin' = Set(origin, query.path, w)
      BY <1>3, <2>1 DEF DumpWrite
    <2>2. TableOK(tables[n]) /\ FileOK(f)
      BY <1>1, <1>3, PrintsOK, DumpedOK DEF IndInv, DatabaseTypeOK
    <2>3. /\ w = [name |-> w.name, table |-> w.table]
          /\ w.name \in Names /\ TableOK(w.table)
          /\ \E u \in Prints(w.table) : f = Dumped(w.name, u)
      BY <1>1, <2>2
    <2> HIDE DEF n, w, f
    <2>4. /\ DOMAIN files' \subseteq Paths
          /\ \A r \in DOMAIN files' : FileOK(files'[r])
          /\ DOMAIN origin' = Paths
          /\ \A r \in Paths : HoldsDump(origin[r], r)'
      <3>1. /\ DOMAIN origin' = Paths /\ origin'[query.path] = w
            /\ \A r \in Paths : r # query.path => origin'[r] = origin[r]
        BY <1>1, <2>0 DEF Set, IndInv
      <3> QED BY <1>1, <2>0, <2>2, <2>3, <3>1, FileIndInv
    <2> QED BY <1>1, <2>4 DEF IndInv, DatabaseTypeOK, QueryOK, Idle
  <1> QED BY <1>2, <1>3

LEMMA ExitIndInv ==
  ASSUME IndInv, Quit \/ Crash \/ Undefined
  PROVE  IndInv'
  <1>1. /\ tables' = Nothing /\ fileTableNameMap' = Nothing /\ query' = Idle
        /\ answer' = NoAnswer /\ origin' = origin
    BY DEF Quit, Crash, Undefined, Exit
  <1>2. CASE UNCHANGED files
    BY <1>1, <1>2
       DEF IndInv, DatabaseTypeOK, QueryOK, Idle, HoldsDump, Nothing, NoAnswer
  <1>3. ASSUME query.op = "dump", query.name \in DOMAIN tables,
               NEW t \in Prints(tables[query.name]),
               NEW k \in 0 .. Len(tables[query.name].rows) - 1,
               files' = Put(files, query.path,
                            Dumped(query.name, WithRows(t, SubSeq(t.rows, 1, k))))
        PROVE  IndInv'
    <2>1. /\ query.path \in Paths /\ query.name \in Names /\ origin[query.path] = None
          /\ TableOK(tables[query.name])
      BY <1>3 DEF IndInv, DatabaseTypeOK, QueryOK, Idle, Dumping
    <2> DEFINE f == Dumped(query.name, WithRows(t, SubSeq(t.rows, 1, k)))
    <2>2. FileOK(f) BY <2>1, PrintsOK, FirstRowsOK, DumpedOK
    <2>3. /\ DOMAIN origin' = Paths /\ origin'[query.path] = None
          /\ \A r \in Paths : r # query.path => origin'[r] = origin[r]
      BY <1>1, <2>1 DEF IndInv
    <2>4. files' = Put(files, query.path, f) BY <1>3
    <2> HIDE DEF f
    <2>5. /\ DOMAIN files' \subseteq Paths
          /\ \A r \in DOMAIN files' : FileOK(files'[r])
          /\ DOMAIN origin' = Paths
          /\ \A r \in Paths : HoldsDump(origin[r], r)'
      BY <2>1, <2>2, <2>3, <2>4, FileIndInv
    <2> QED BY <1>1, <2>5 DEF IndInv, DatabaseTypeOK, QueryOK, Idle, Nothing, NoAnswer
  <1> QED BY <1>2, <1>3 DEF Quit, Crash, Undefined

THEOREM DatabaseInvariant == Spec => []IndInv
<1>1. IndInv /\ [Next]_vars => IndInv'
  <2> SUFFICES ASSUME IndInv, [Next]_vars PROVE IndInv'
    OBVIOUS
  <2>1. CASE ListTable
    BY <2>1, TablesIndInv DEF ListTable, AtOnce, Answered, IndInv, DatabaseTypeOK
  <2>2. CASE UNCHANGED vars
    BY <2>2 DEF vars, memory, IndInv, DatabaseTypeOK, QueryOK, Loading, Dumping, HoldsDump
  <2> QED
    BY <2>1, <2>2, TableIndInv, LoadBeginIndInv, LoadRowIndInv, LoadRegisterIndInv,
       DumpOpenIndInv, DumpWriteIndInv, ExitIndInv DEF Next
<1> QED BY <1>1, InitIndInv, PTL DEF Spec

\* Every row has a key of its own and its values are numbers, whatever files were
\* loaded, and it has a value for each field unless it is one INSERT was given.
THEOREM DatabaseTypes == Spec => []DatabaseTypeOK
<1>1. IndInv => DatabaseTypeOK BY DEF IndInv
<1> QED BY <1>1, DatabaseInvariant, PTL
-------------------------------------------------------------------------------
(* LOAD of what DUMP wrote. *)

\* The table that LOAD registers is the one in the dump.
LEMMA RegistersTheDump ==
  ASSUME IndInv, LoadRegister, origin[query.path] # None, Whole(origin[query.path].table)
  PROVE  origin[query.path] = [name |-> files[query.path].name, table |-> query.table]
  <1> DEFINE w == origin[query.path]
             t == query.table
  <1>1. query.path \in Paths /\ HoldsDump(w, query.path) /\ Loading(query, files[query.path], w)
    BY DEF LoadRegister, IndInv, DatabaseTypeOK, QueryOK, Idle
  <1>2. /\ w = [name |-> w.name, table |-> w.table] /\ TableOK(w.table)
        /\ files[query.path] = Dumped(w.name, w.table)
    BY <1>1, WholeDump
  <1>3. /\ TableOK(t) /\ query.line = Len(t.rows) + 1 /\ t.fields = w.table.fields
        /\ \A i \in DOMAIN t.rows : i \in DOMAIN w.table.rows /\ t.rows[i] = w.table.rows[i]
    BY <1>1 DEF Loading
  <1> HIDE DEF w, t
  <1>4. /\ files[query.path].name = w.name
        /\ DOMAIN files[query.path].rows = DOMAIN w.table.rows
        /\ \A i \in DOMAIN w.table.rows :
             files[query.path].rows[i] = Printed(w.table.rows[i])
    BY <1>2, FieldsReadBack
  <1>5. query.line \notin DOMAIN w.table.rows
    BY <1>4 DEF LoadRegister, HasLine
  <1>6. t.rows = w.table.rows
    <2>1. t.rows \in Seq(Seq(Items)) /\ w.table.rows \in Seq(Seq(Items))
      BY <1>2, <1>3 DEF TableOK
    <2>2. /\ DOMAIN t.rows = 1 .. Len(t.rows) /\ Len(t.rows) \in Nat
          /\ DOMAIN w.table.rows = 1 .. Len(w.table.rows) /\ Len(w.table.rows) \in Nat
      BY <2>1
    <2>3. Len(t.rows) <= Len(w.table.rows)
      <3>1. Len(t.rows) = 0 \/ Len(t.rows) \in DOMAIN t.rows BY <2>2
      <3>2. Len(t.rows) \in DOMAIN t.rows => Len(t.rows) \in DOMAIN w.table.rows BY <1>3
      <3> QED BY <2>2, <3>1, <3>2
    <2>4. Len(t.rows) + 1 \notin DOMAIN w.table.rows BY <1>3, <1>5
    <2>5. Len(t.rows) = Len(w.table.rows) BY <2>2, <2>3, <2>4
    <2> QED BY <1>3, <2>1, <2>2, <2>5, SeqEqual
  <1>7. t = [fields |-> t.fields, rows |-> t.rows]
        /\ w.table = [fields |-> w.table.fields, rows |-> w.table.rows]
    BY <1>2, <1>3 DEF TableOK
  <1>8. t = w.table
    BY <1>3, <1>6, <1>7
  <1> QED BY <1>2, <1>4, <1>8 DEF w, t

\* LOAD registers a table of whole rows, and of a file that DUMP wrote of such a
\* table that table, row by row.
THEOREM ReloadsExactly == Spec => ReloadIsExact
<1> DEFINE Exact ==
      \A n \in DOMAIN tables' \ DOMAIN tables : query.op = "load" =>
        /\ n = files[query.path].name /\ Whole(tables'[n])
        /\ origin[query.path] # None /\ Whole(origin[query.path].table) =>
             [name |-> n, table |-> tables'[n]] = origin[query.path]
<1>1. IndInv /\ [Next]_vars => [Exact]_vars
  <2> SUFFICES ASSUME IndInv, Next, query.op = "load",
                      NEW n \in DOMAIN tables' \ DOMAIN tables
               PROVE  /\ n = files[query.path].name /\ Whole(tables'[n])
                      /\ origin[query.path] # None /\ Whole(origin[query.path].table) =>
                           [name |-> n, table |-> tables'[n]] = origin[query.path]
    OBVIOUS
  <2>1. query # Idle BY DEF Idle
  <2>2. LoadRow \/ LoadRegister \/ Quit \/ Crash \/ Undefined
    BY <2>1 DEF Next, DropTable, Truncate, PrintTable, CopyTable, Insert, ListTable, AtOnce,
       DumpOpen, LoadBegin, DumpWrite
  <2>3. LoadRegister
    BY <2>2 DEF LoadRow, Quit, Crash, Undefined, Exit, Nothing
  <2>4. n = files[query.path].name /\ tables'[n] = query.table
    BY <2>3 DEF LoadRegister, Put
  <2>5. Whole(query.table) BY <2>1 DEF IndInv, QueryOK, Loading
  <2> QED BY <2>3, <2>4, <2>5, RegistersTheDump
<1> QED BY <1>1, DatabaseInvariant, PTL DEF Spec, ReloadIsExact

\* LOAD goes on at a row of a narrow dump.
LEMMA NarrowRowLoads ==
  ASSUME IndInv, LoadRow, origin[query.path] # None, Whole(origin[query.path].table),
         \A i \in DOMAIN origin[query.path].table.rows :
           ToSet(Tail(origin[query.path].table.rows[i])) \cap Wide = {}
  PROVE  query'.op = "load"
  <1> DEFINE w == origin[query.path]
             t == w.table
             row == t.rows[query.line]
             line == files[query.path].rows[query.line]
             n == files[query.path].count - 1
  <1>1. query.path \in Paths /\ HoldsDump(w, query.path) /\ Loading(query, files[query.path], w)
    BY DEF LoadRow, IndInv, DatabaseTypeOK, QueryOK, Idle
  <1>2. TableOK(t) /\ Whole(t) /\ files[query.path] = Dumped(w.name, t) BY <1>1, WholeDump
  <1>3. /\ query.line = Len(query.table.rows) + 1 /\ TableOK(query.table)
        /\ \A i \in DOMAIN query.table.rows : i \in DOMAIN t.rows /\ query.table.rows[i] = t.rows[i]
    BY <1>1 DEF Loading
  <1>4. \A i \in DOMAIN t.rows : ToSet(Tail(t.rows[i])) \cap Wide = {}
    OBVIOUS
  <1>5. query.line \in DOMAIN files[query.path].rows BY DEF LoadRow, HasLine
  <1> HIDE DEF t
  <1>6. line = Printed(row) /\ n = Len(t.fields) /\ query.line \in DOMAIN t.rows
    BY <1>2, <1>5, FieldsReadBack DEF TableOK
  <1>7. /\ row \in Seq(Items) /\ Len(row) = n + 1 /\ n \in Nat
        /\ \A k \in 2 .. n + 1 : row[k] \in Numbers
        /\ \A i \in DOMAIN t.rows : t.rows[i][1] = row[1] => i = query.line
    <2>1. /\ t.rows \in Seq(Seq(Items)) /\ t.fields \in Seq(Items)
          /\ query.line \in DOMAIN t.rows
      BY <1>2, <1>6 DEF TableOK
    <2>2. row \in Seq(Items) BY <2>1
    <2>3. n \in Nat BY <1>6, <2>1
    <2>4. Len(row) = n + 1 BY <1>2, <1>6, <2>1 DEF Whole
    <2>5. \A k \in 2 .. Len(row) : row[k] \in Numbers BY <1>2, <2>1 DEF TableOK
    <2>6. \A i \in DOMAIN t.rows : t.rows[i][1] = row[1] => i = query.line
      BY <1>2, <2>1 DEF TableOK
    <2> HIDE DEF row, n
    <2> QED BY <2>2, <2>3, <2>4, <2>5, <2>6
  <1>8. ToSet(Tail(row)) \cap Wide = {} BY <1>4, <1>6
  <1> HIDE DEF row, line, n
  <1>9. \A k \in 2 .. n + 1 : row[k] \in Numbers \ Wide
    <2> SUFFICES ASSUME NEW k \in 2 .. n + 1 PROVE row[k] \notin Wide
      BY <1>7
    <2>1. k - 1 \in DOMAIN Tail(row) /\ Tail(row)[k - 1] = row[k]
      BY <1>7
    <2>2. row[k] \in ToSet(Tail(row)) BY <2>1 DEF ToSet
    <2> QED BY <2>2, <1>8
  <1>10. RowReads(line, n) /\ RowRead(line, n) = row
    BY <1>6, <1>7, <1>9, NarrowReadsBack, ReadsBackOrFails
  <1>11. row[1] \notin KeysOf(query.table)
    <2> SUFFICES ASSUME NEW i \in DOMAIN query.table.rows, query.table.rows[i][1] = row[1]
                 PROVE  FALSE
      BY DEF KeysOf
    <2>1. i = query.line BY <1>3, <1>7
    <2>2. i \in 1 .. Len(query.table.rows) /\ Len(query.table.rows) \in Nat
      BY <1>3 DEF TableOK
    <2> QED BY <1>3, <2>1, <2>2
  <1> QED BY <1>10, <1>11 DEF LoadRow, LoadAt, line, n

\* LOAD of a narrow dump begins if its name is free.
LEMMA NarrowHeadLoads ==
  ASSUME IndInv, NEW p \in Paths, origin[p] # None, Whole(origin[p].table),
         ToSet(origin[p].table.fields) \cap Wide = {}, ~HeadLoads(p)
  PROVE  origin[p].name \in DOMAIN tables
  <1> DEFINE t == origin[p].table
             items == <<"KEY">> \o t.fields
  <1>1. /\ TableOK(t) /\ p \in DOMAIN files /\ files[p] = Dumped(origin[p].name, t)
        /\ ToSet(t.fields) \cap Wide = {}
    BY WholeDump DEF IndInv
  <1> HIDE DEF t
  <1>2. /\ files[p].name = origin[p].name /\ files[p].count = Len(t.fields) + 1
        /\ SubSeq(files[p].header.items, 2, files[p].count) = t.fields
    BY <1>1, FieldsReadBack
  <1>3. t.fields \in Seq(Items) /\ Len(t.fields) \in Nat /\ "KEY" \notin ToSet(t.fields)
    BY <1>1 DEF TableOK
  <1>4. files[p].header = Printed(items) BY <1>1 DEF Dumped
  <1>5. /\ items \in Seq(Items) /\ Len(items) = Len(t.fields) + 1 /\ items[1] = "KEY"
        /\ \A i \in 2 .. Len(items) : items[i] = t.fields[i - 1]
    <2>1. <<"KEY">> \in Seq(Items) BY ItemAssumption
    <2> QED BY <1>3, <2>1, ConcatProperties
  <1> HIDE DEF items
  <1>6. \A i \in 2 .. Len(items) : items[i] \notin Wide
    <2> SUFFICES ASSUME NEW i \in 2 .. Len(items) PROVE items[i] \notin Wide
      OBVIOUS
    <2>1. i - 1 \in DOMAIN t.fields BY <1>3, <1>5
    <2>2. t.fields[i - 1] \in ToSet(t.fields) BY <2>1 DEF ToSet
    <2> QED BY <1>1, <1>5, <2>2
  <1>7. Printed(items).items = items /\ Printed(items).glued = {}
    BY <1>6 DEF Printed
  <1>8. HeaderReads(files[p].header, files[p].count)
    BY <1>2, <1>3, <1>4, <1>5, <1>7 DEF HeaderReads
  <1>9. Creates(SubSeq(files[p].header.items, 2, files[p].count))
    BY <1>2, <1>3 DEF Creates
  <1>10. p \in DOMAIN files /\ files[p].count > 0 /\ files[p].name = origin[p].name
    BY <1>1, <1>2, <1>3
  <1> QED BY <1>8, <1>9, <1>10 DEF HeadLoads

\* LOAD of a dump of whole rows that holds no wide item fails only if the name is taken.
THEOREM NarrowDumpsLoad == Spec => []NarrowDumpLoads
<1>1. Init => NarrowDumpLoads
  BY DEF Init, NarrowDumpLoads, NoAnswer
<1>2. IndInv /\ NarrowDumpLoads /\ [Next]_vars => NarrowDumpLoads'
  <2> SUFFICES ASSUME IndInv, NarrowDumpLoads, [Next]_vars,
                      answer'.op = "load", answer'.result = "error",
                      origin'[answer'.path] # None, Whole(origin'[answer'.path].table),
                      ToSet(origin'[answer'.path].table.fields) \cap Wide = {},
                      \A i \in DOMAIN origin'[answer'.path].table.rows :
                        ToSet(Tail(origin'[answer'.path].table.rows[i])) \cap Wide = {}
               PROVE  origin'[answer'.path].name \in DOMAIN before'
    BY DEF NarrowDumpLoads
  <2>1. CASE UNCHANGED vars
    BY <2>1 DEF vars, memory, NarrowDumpLoads
  <2>2. ASSUME NEW p \in Paths, LoadBegin(p)
        PROVE  origin'[answer'.path].name \in DOMAIN before'
    <3>1. ~HeadLoads(p) BY <2>2 DEF LoadBegin, NoAnswer
    <3>2. answer'.path = p /\ before' = tables /\ origin' = origin
      BY <2>2, <3>1 DEF LoadBegin, Answered
    <3> QED BY <3>1, <3>2, NarrowHeadLoads
  <2>3. CASE LoadRow
    <3>1. origin' = origin /\ before' = before BY <2>3 DEF LoadRow
    <3>2. CASE query'.op = "load"
      <4>1. answer' = answer BY <2>3, <3>2 DEF LoadRow, Answered, Idle
      <4> QED BY <3>1, <4>1 DEF NarrowDumpLoads
    <3>3. CASE query'.op # "load"
      <4>1. answer'.path = query.path BY <2>3, <3>3 DEF LoadRow, LoadAt, Answered
      <4> QED BY <2>3, <3>1, <3>3, <4>1, NarrowRowLoads
    <3> QED BY <3>2, <3>3
  <2>4. ASSUME NEW n \in Names,
               \/ DropTable(n) \/ Truncate(n) \/ PrintTable(n) \/ ListTable
               \/ \E new \in Names : CopyTable(n, new)
               \/ \E row \in NewRows : Insert(n, row)
               \/ \E p \in Paths : DumpOpen(n, p)
        PROVE  FALSE
    <3> USE DEF AtOnce, Answered
    <3>1. CASE DropTable(n) BY <3>1 DEF DropTable
    <3>2. CASE Truncate(n) BY <3>2 DEF Truncate
    <3>3. CASE PrintTable(n) BY <3>3 DEF PrintTable
    <3>4. CASE ListTable BY <3>4 DEF ListTable
    <3>5. CASE \E new \in Names : CopyTable(n, new) BY <3>5 DEF CopyTable
    <3>6. CASE \E row \in NewRows : Insert(n, row) BY <3>6 DEF Insert
    <3>7. CASE \E p \in Paths : DumpOpen(n, p) BY <3>7 DEF DumpOpen, NoAnswer
    <3> QED BY <2>4, <3>1, <3>2, <3>3, <3>4, <3>5, <3>6, <3>7
  <2>5. CASE ListTable \/ LoadRegister \/ DumpWrite \/ Quit \/ Crash \/ Undefined
    BY <2>5 DEF ListTable, AtOnce, LoadRegister, DumpWrite, Quit, Crash, Undefined, Exit, Answered,
       NoAnswer
  <2> QED BY <2>1, <2>2, <2>3, <2>4, <2>5 DEF Next
<1> QED BY <1>1, <1>2, DatabaseInvariant, PTL DEF Spec
=================================================================================
