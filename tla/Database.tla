------------------------------- MODULE Database -------------------------------
(***************************************************************************)
(* The database singleton and the queries that manage tables: LOAD, DUMP,  *)
(* DROP, TRUNCATE, COPYTABLE, LIST and SHOWTABLE, with INSERT as the one   *)
(* query that changes a row.  tables lives in memory, files on the disk:   *)
(* a process that ends, by QUIT or killed at any moment, leaves the files. *)
(* LOAD takes a step per row, because each row may fail, and DUMP two,     *)
(* because the file is emptied before the table is looked up and printed.  *)
(***************************************************************************)
EXTENDS DumpFormat, Integers, Functions, SequencesExt

CONSTANTS
  Names, Paths,   \* table names and paths of files
  Protected,      \* the paths that cannot be opened for writing
  UserFiles,      \* what the disk may hold to begin with: functions of Paths
  NewRows,        \* rows that INSERT may add
  MaxRows,        \* bound: no row is added to a table of this size
  Beyond          \* bound: what the memory behind a row is taken for

\* A line of items, whatever they are: of a line of blanks there are none.
Line == [items : Seq(Items), glued : SUBSET Nat]

\* A file: its first line is a name and a count (a count of -1 stands for a line
\* that is not there), its second the header; the rows are the lines from there to
\* the first one that is empty, behind which nobody reads.
FileOK(f) == /\ f.count \in Nat \cup {-1} /\ f.header \in Line /\ f.rows \in Seq(Line)
             /\ f.count >= 0 => f.name \in Names

ASSUME DatabaseAssumption ==
  /\ \A disk \in UserFiles : /\ DOMAIN disk \subseteq Paths
                             /\ \A p \in DOMAIN disk : FileOK(disk[p])
  /\ \A row \in NewRows : /\ row \in Seq(Items) /\ row # <<>>
                          /\ \A k \in 2 .. Len(row) : row[k] \in Numbers
  /\ Beyond \subseteq Items \cap Numbers

VARIABLES
  tables,            \* name -> [fields, rows]; a row is its key and its values
  files,             \* path -> [name, count, header, rows], lines of DumpFormat
  fileTableNameMap,  \* path -> name, as parsing LOAD and DUMP leaves it
  query,             \* the query in execution, or Idle
  answer,            \* the last answer: [op, path, result]
  before,            \* history: tables when the last query began
  origin             \* history: path -> [name, table] that DUMP wrote there

memory == <<tables, fileTableNameMap, query>>
vars == <<memory, files, answer, before, origin>>

Nothing == [x \in {} |-> x]
Idle == [op |-> "idle"]
NoAnswer == [op |-> "none", path |-> "none", result |-> "none"]
None == [name |-> "none", table |-> Nothing]     \* no DUMP wrote this file
Set(f, x, v) == [f EXCEPT ![x] = v]
Put(f, x, v) == [y \in DOMAIN f \cup {x} |-> IF y = x THEN v ELSE f[y]]

Init == /\ tables = Nothing /\ fileTableNameMap = Nothing
        /\ query = Idle /\ answer = NoAnswer /\ before = Nothing
        /\ files \in UserFiles
        /\ origin = [p \in Paths |-> None]

Answered(op, p, r) == /\ answer' = [op |-> op, path |-> p, result |-> r]
                      /\ query' = Idle

\* A query that is one step: what it does if it may, and an error otherwise.
AtOnce(op, may, newTables) ==
  /\ query = Idle
  /\ before' = tables
  /\ IF may THEN tables' = newTables /\ Answered(op, "none", "ok")
            ELSE UNCHANGED tables /\ Answered(op, "none", "error")
  /\ UNCHANGED <<files, fileTableNameMap, origin>>

\* The same fields and these rows.
WithRows(t, rows) == [fields |-> t.fields, rows |-> rows]
KeysOf(t) == {t.rows[i][1] : i \in DOMAIN t.rows}
-------------------------------------------------------------------------------
(* The tables. *)

DropTable(n) == AtOnce("drop", n \in DOMAIN tables, Restrict(tables, DOMAIN tables \ {n}))

Truncate(n) == AtOnce("truncate", n \in DOMAIN tables, Set(tables, n, WithRows(tables[n], <<>>)))

\* The copy is made before registerTable looks whether the new name is free.
CopyTable(n, new) ==
  AtOnce("copy", n \in DOMAIN tables /\ new \notin DOMAIN tables, Put(tables, new, tables[n]))

\* LIST and SHOWTABLE print, and change nothing; if SHOWTABLE reads beyond a row
\* it may also end in Undefined, below.
ListTable == AtOnce("list", TRUE, tables)
PrintTable(n) == AtOnce("show", n \in DOMAIN tables, tables)

\* A row with as many values as INSERT was given, whatever the table's fields are;
\* the table may have the key.
Insert(n, row) ==
  /\ n \in DOMAIN tables => Len(tables[n].rows) < MaxRows
  /\ AtOnce("insert", n \in DOMAIN tables /\ row[1] \notin KeysOf(tables[n]),
            Set(tables, n, WithRows(tables[n], Append(tables[n].rows, row))))
-------------------------------------------------------------------------------
(* LOAD. *)

\* Parsing LOAD reads the name from the file unless it is known already.
getFileTableName(p) ==
  IF p \in DOMAIN files /\ p \notin DOMAIN fileTableNameMap
    THEN Put(fileTableNameMap, p, files[p].name) ELSE fileTableNameMap

\* LOAD of p has built t and goes on at line i of the rows.
LoadAt(p, i, t) == [op |-> "load", path |-> p, line |-> i, table |-> t]

\* The table is created: none of its fields is called KEY, too.
Creates(fields) == "KEY" \notin ToSet(fields)

\* The file opens, its name is free, its first two lines can be read.
HeadLoads(p) ==
  /\ p \in DOMAIN files /\ files[p].count > 0
  /\ files[p].name \notin DOMAIN tables
  /\ HeaderReads(files[p].header, files[p].count)
  /\ Creates(SubSeq(files[p].header.items, 2, files[p].count))

\* MUTANT of LoadBegin: the table is registered before its rows are read.
LoadBeginRegisters(p) ==
  /\ query = Idle /\ HeadLoads(p)
  /\ fileTableNameMap' = getFileTableName(p)
  /\ before' = tables /\ answer' = NoAnswer
  /\ query' = LoadAt(p, 1, [fields |-> <<>>, rows |-> <<>>])
  /\ tables' = Put(tables, files[p].name, query'.table)
  /\ UNCHANGED <<files, origin>>

LoadBegin(p) ==
  /\ query = Idle
  /\ fileTableNameMap' = getFileTableName(p)
  /\ before' = tables
  /\ IF HeadLoads(p)
       THEN /\ query' = LoadAt(p, 1, [fields |-> SubSeq(files[p].header.items, 2, files[p].count),
                                      rows |-> <<>>])
            /\ answer' = NoAnswer
       ELSE Answered("load", p, "error")
  /\ UNCHANGED <<tables, files, origin>>

\* getline gives one more line, and it is not empty.
HasLine(p, i) == i \in DOMAIN files[p].rows

\* MUTANT of LoadRow: a row is taken with as many values as it has.
LoadAnyRow ==
  LET items == files[query.path].rows[query.line].items
  IN /\ query.op = "load" /\ HasLine(query.path, query.line)
     /\ IF items # <<>> /\ items[1] \notin KeysOf(query.table)
          THEN /\ query' = LoadAt(query.path, query.line + 1,
                              WithRows(query.table, Append(query.table.rows, items)))
               /\ UNCHANGED answer
          ELSE Answered("load", query.path, "error")
     /\ UNCHANGED <<tables, fileTableNameMap, files, before, origin>>

\* A row that lacks its key or a value throws, and so does insertByKey.
LoadRow ==
  LET line == files[query.path].rows[query.line]
      n == files[query.path].count - 1
  IN /\ query.op = "load" /\ HasLine(query.path, query.line)
     /\ IF RowReads(line, n) /\ RowRead(line, n)[1] \notin KeysOf(query.table)
          THEN /\ query' = LoadAt(query.path, query.line + 1,
                              WithRows(query.table, Append(query.table.rows, RowRead(line, n))))
               /\ UNCHANGED answer
          ELSE Answered("load", query.path, "error")
     /\ UNCHANGED <<tables, fileTableNameMap, files, before, origin>>

\* MUTANT of LoadRegister: under the name that was known when LOAD was parsed.
RegisterKnownName ==
  /\ query.op = "load" /\ ~HasLine(query.path, query.line)
  /\ tables' = Put(tables, fileTableNameMap[query.path], query.table)
  /\ Answered("load", query.path, "ok")
  /\ UNCHANGED <<fileTableNameMap, files, before, origin>>

\* The table appears when all its rows are there.
LoadRegister ==
  /\ query.op = "load" /\ ~HasLine(query.path, query.line)
  /\ files[query.path].name \notin DOMAIN tables
  /\ tables' = Put(tables, files[query.path].name, query.table)
  /\ Answered("load", query.path, "ok")
  /\ UNCHANGED <<fileTableNameMap, files, before, origin>>
-------------------------------------------------------------------------------
(* DUMP. *)

Empty == [name |-> "none", count |-> -1, header |-> Printed(<<>>), rows |-> <<>>]

\* Every row has as many values as there are fields; the rows that have fewer.
Whole(t) == \A i \in DOMAIN t.rows : Len(t.rows[i]) = Len(t.fields) + 1
Short(t) == {i \in DOMAIN t.rows : Len(t.rows[i]) < Len(t.fields) + 1}

\* A table as operator<< sees it: of each row one value for each field.  Of a
\* longer row the rest is lost, of a shorter one what lies beyond it is printed.
Prints(t) ==
  {[fields |-> t.fields,
    rows |-> [i \in DOMAIN t.rows |-> [k \in 1 .. Len(t.fields) + 1 |->
               IF k <= Len(t.rows[i]) THEN t.rows[i][k] ELSE beyond[i][k]]]] :
   beyond \in [Short(t) -> [2 .. Len(t.fields) + 1 -> Beyond]]}

\* The number of columns and the name, the names of the columns, the rows.
Dumped(n, t) == [name |-> n, count |-> Len(t.fields) + 1, header |-> Printed(<<"KEY">> \o t.fields),
                 rows |-> [i \in DOMAIN t.rows |-> Printed(t.rows[i])]]

\* The name is noted when DUMP is parsed; opening the file empties it.
DumpOpen(n, p) ==
  /\ query = Idle
  /\ fileTableNameMap' = Put(fileTableNameMap, p, n)
  /\ before' = tables
  /\ IF p \in Protected
       THEN Answered("dump", p, "error") /\ UNCHANGED <<files, origin>>
       ELSE /\ query' = [op |-> "dump", path |-> p, name |-> n]
            /\ answer' = NoAnswer
            /\ files' = Put(files, p, Empty)
            /\ origin' = Set(origin, p, None)
  /\ UNCHANGED tables

\* Only then is the table looked up.
DumpWrite ==
  LET n == query.name IN
  /\ query.op = "dump"
  /\ IF n \in DOMAIN tables
       THEN /\ \E t \in Prints(tables[n]) : files' = Put(files, query.path, Dumped(n, t))
            /\ origin' = Set(origin, query.path, [name |-> n, table |-> tables[n]])
            /\ Answered("dump", query.path, "ok")
       ELSE /\ Answered("dump", query.path, "error")
            /\ UNCHANGED <<files, origin>>
  /\ UNCHANGED <<tables, fileTableNameMap, before>>
-------------------------------------------------------------------------------
(* The process. *)

\* exit(0), and the next process.
Exit == /\ tables' = Nothing /\ fileTableNameMap' = Nothing /\ query' = Idle
        /\ before' = Nothing /\ answer' = NoAnswer

Quit == query = Idle /\ Exit /\ UNCHANGED <<files, origin>>

\* The process is killed: DUMP has written a part of its text, or nothing.
Crash ==
  /\ Exit /\ UNCHANGED origin
  /\ \/ UNCHANGED files
     \/ /\ query.op = "dump" /\ query.name \in DOMAIN tables
        /\ \E t \in Prints(tables[query.name]), k \in 0 .. Len(tables[query.name].rows) - 1 :
             files' = Put(files, query.path, Dumped(query.name, WithRows(t, SubSeq(t.rows, 1, k))))

\* Undefined behaviour that may end the process as well: LOAD of a table of no
\* columns takes the front() of no fields, SHOWTABLE and DUMP read beyond a row.
NoFront(p) == /\ query = Idle /\ p \in DOMAIN files /\ files[p].count = 0
              /\ files[p].name \notin DOMAIN tables
BeyondRow(n) == /\ n \in DOMAIN tables /\ Short(tables[n]) # {}
                /\ query = Idle \/ (query.op = "dump" /\ query.name = n)

Undefined == /\ (\E p \in Paths : NoFront(p)) \/ (\E n \in Names : BeyondRow(n))
             /\ Exit /\ UNCHANGED <<files, origin>>

Next == \/ \E n \in Names : \/ DropTable(n) \/ Truncate(n) \/ PrintTable(n)
                            \/ \E new \in Names : CopyTable(n, new)
                            \/ \E row \in NewRows : Insert(n, row)
                            \/ \E p \in Paths : DumpOpen(n, p)
        \/ \E p \in Paths : LoadBegin(p)
        \/ ListTable \/ LoadRow \/ LoadRegister \/ DumpWrite \/ Quit \/ Crash \/ Undefined

Spec == Init /\ [][Next]_vars
-------------------------------------------------------------------------------
\* Every row of a table has a key of its own, its values are numbers, and it has
\* one for each field unless INSERT put it there, which takes any number of them.
TableOK(t) ==
  /\ t = [fields |-> t.fields, rows |-> t.rows]
  /\ t.fields \in Seq(Items) /\ "KEY" \notin ToSet(t.fields)
  /\ t.rows \in Seq(Seq(Items))
  /\ \A i \in DOMAIN t.rows :
       /\ Len(t.rows[i]) = Len(t.fields) + 1 \/ t.rows[i] \in NewRows
       /\ \A k \in 2 .. Len(t.rows[i]) : t.rows[i][k] \in Numbers
       /\ \A j \in DOMAIN t.rows : t.rows[i][1] = t.rows[j][1] => i = j

\* The types.  keyMap counts on keys that differ, operator<< and the queries on a
\* value for each field, which no file somebody else wrote may take from a table
\* (LOAD throws at a row that is short) and only INSERT can (InsertQuery.cpp:24).
DatabaseTypeOK ==
  /\ \A n \in DOMAIN tables : n \in Names /\ TableOK(tables[n])
  /\ DOMAIN files \subseteq Paths /\ DOMAIN fileTableNameMap \subseteq Paths
  /\ query.op \in {"idle", "load", "dump"}
  /\ answer.result \in {"none", "ok", "error"}

\* A query that fails changes no table, also when it fails in the middle: a LOAD
\* at its last row, a COPYTABLE to a name that is taken.
FailedChangesNothing ==
  /\ query # Idle => tables = before
  /\ answer.result = "error" => tables = before

\* LOAD registers a table with a value for each field under the name in its file,
\* and of a file that DUMP wrote the table that was dumped, row by row, if that was
\* Whole: in this process or after it ended or was killed, and whatever else was
\* loaded and dumped meanwhile.
ReloadIsExact ==
  [][ \A n \in DOMAIN tables' \ DOMAIN tables : query.op = "load" =>
        /\ n = files[query.path].name /\ Whole(tables'[n])
        /\ origin[query.path] # None /\ Whole(origin[query.path].table) =>
             [name |-> n, table |-> tables'[n]] = origin[query.path] ]_vars

\* LOAD of a file DUMP has just finished to write, or wrote before a crash,
\* fails only if the name is taken.
DumpLoads ==
  answer.op = "load" /\ answer.result = "error" /\ origin[answer.path] # None =>
    origin[answer.path].name \in DOMAIN before

\* It does not fail otherwise if each row of the table had a value for each field
\* and no item after the first of a line is wide.
NarrowDumpLoads ==
  LET o == origin[answer.path]
      narrow == /\ Whole(o.table) /\ ToSet(o.table.fields) \cap Wide = {}
                /\ \A i \in DOMAIN o.table.rows : ToSet(Tail(o.table.rows[i])) \cap Wide = {}
  IN answer.op = "load" /\ answer.result = "error" /\ o # None /\ narrow =>
       o.name \in DOMAIN before
-------------------------------------------------------------------------------
(* The inductive invariant. *)

\* What a file holds since DUMP wrote w there, if it did.
HoldsDump(w, p) ==
  w # None => /\ w = [name |-> w.name, table |-> w.table]
              /\ w.name \in Names /\ TableOK(w.table)
              /\ p \in DOMAIN files
              /\ \E t \in Prints(w.table) : files[p] = Dumped(w.name, t)

\* LOAD has read the lines before q.line: of a dumped table w, its first rows.
Loading(q, f, w) ==
  /\ q = LoadAt(q.path, q.line, q.table)
  /\ TableOK(q.table) /\ Whole(q.table) /\ q.line = Len(q.table.rows) + 1
  /\ f.name \in Names /\ f.count = Len(q.table.fields) + 1
  /\ w # None /\ Whole(w.table) =>
       /\ q.table.fields = w.table.fields
       /\ \A i \in DOMAIN q.table.rows : /\ i \in DOMAIN w.table.rows
                                        /\ q.table.rows[i] = w.table.rows[i]

\* While DUMP is at it the file holds nothing that could be loaded.
Dumping(q) == /\ q = [op |-> "dump", path |-> q.path, name |-> q.name]
              /\ q.name \in Names /\ origin[q.path] = None

QueryOK(q) == \/ q = Idle
              \/ /\ q.op \in {"load", "dump"} /\ q.path \in DOMAIN files
                 /\ q.op = "load" => Loading(q, files[q.path], origin[q.path])
                 /\ q.op = "dump" => Dumping(q)

IndInv == /\ DatabaseTypeOK
          /\ \A p \in DOMAIN files : FileOK(files[p])
          /\ DOMAIN origin = Paths /\ \A p \in Paths : HoldsDump(origin[p], p)
          /\ QueryOK(query)
===============================================================================
