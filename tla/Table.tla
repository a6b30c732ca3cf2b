--------------------------------- MODULE Table ---------------------------------
(***************************************************************************)
(* One table (db/Table.h, db/Table.cpp) and the queries that change its    *)
(* rows: INSERT, DELETE, UPDATE, DUPLICATE, TRUNCATE.  data is the vector  *)
(* of rows, keyMap the index of a row by its key.  A loop over the rows is *)
(* modelled turn by turn: DELETE moves the last row into the hole while it *)
(* walks, UPDATE of KEY re-keys rows while it walks, DUPLICATE collects    *)
(* keys while it walks and then inserts.                                   *)
(***************************************************************************)
EXTENDS Integers, Sequences, FiniteSets

CONSTANTS
  Keys, Vals,     \* a row is a key and the values of its fields, as one value
  CopyOf,         \* CopyOf[k]: the key k with "_copy" appended
  Conds,          \* WHERE clauses, each as the set of <<key, value>> it admits
  MaxRows,        \* bound: no row is added to a table of this size
  ClashAllowed    \* whether UPDATE may give a row a key another row has

ASSUME TableAssumption ==
  /\ DOMAIN CopyOf \subseteq Keys
  /\ \A k \in DOMAIN CopyOf : CopyOf[k] \in Keys /\ CopyOf[k] # k
  /\ \A j, k \in DOMAIN CopyOf : CopyOf[j] = CopyOf[k] => j = k
  /\ \A c \in Conds : c \subseteq Keys \X Vals
  /\ MaxRows \in Nat
  /\ ClashAllowed \in BOOLEAN

VARIABLES
  data,           \* the rows
  keyMap,         \* key -> index into data
  query,          \* the query in progress, with its operands, or Idle
  it,             \* its iterator
  keys,           \* DUPLICATE's vector of keys
  counter,        \* its count of affected rows
  affected,       \* the count the last query answered
  before          \* history: data when the query in progress began

loop == <<query, it, keys, counter, before>>
vars == <<data, keyMap, loop, affected>>

Row == [key : Keys, val : Vals]

Idle == [op |-> "idle"]

\* evalCondition, after initCondition returned true.
evalCondition(cond, row) == <<row.key, row.val>> \in cond

Matches(row) == evalCondition(query.cond, row)

Empty == [k \in {} |-> 0]

Init == /\ data = <<>>
        /\ keyMap = Empty
        /\ query = Idle
        /\ it = 0
        /\ keys = <<>>
        /\ counter = 0
        /\ affected = 0
        /\ before = <<>>
-------------------------------------------------------------------------------
(* The table's own operations, as functions of the old data and keyMap. *)

\* keyMap[k] = i; and keyMap.erase(k).
Assign(m, k, i) == [x \in DOMAIN m \cup {k} |-> IF x = k THEN i ELSE m[x]]
Erase(m, k) == [x \in DOMAIN m \ {k} |-> m[x]]

\* keyMap.emplace(k, i) does nothing if the key is there.
Emplace(m, k, i) == IF k \in DOMAIN m THEN m ELSE Assign(m, k, i)

\* insertByKey of a key that is not in keyMap: the index is the old size.
insertByKey(k, v) ==
  /\ k \notin DOMAIN keyMap
  /\ keyMap' = Emplace(keyMap, k, Len(data) + 1)
  /\ data' = Append(data, [key |-> k, val |-> v])

\* MUTANT of deleteDatum: the row that fills the hole keeps its old index.
DeleteForgetsLast(k) ==
  /\ k \in DOMAIN keyMap
  /\ keyMap' = Erase(keyMap, k)
  /\ data' = SubSeq([data EXCEPT ![keyMap[k]] = data[Len(data)]], 1, Len(data) - 1)

\* deleteDatum: the last row goes where the deleted one was.
deleteDatum(k) ==
  LET index == keyMap[k]
      last == data[Len(data)]
  IN /\ k \in DOMAIN keyMap
     /\ keyMap' = Erase(Assign(keyMap, last.key, index), k)
     /\ data' = SubSeq([data EXCEPT ![index] = last], 1, Len(data) - 1)

\* setKey on the row at i.
setKey(i, k) ==
  LET index == keyMap[data[i].key]
  IN /\ keyMap' = Emplace(Erase(keyMap, data[i].key), k, index)
     /\ data' = [data EXCEPT ![i].key = k]

\* MUTANT of clear: the index outlives the rows.
ClearRowsOnly == data' = <<>> /\ UNCHANGED keyMap

clear == data' = <<>> /\ keyMap' = Empty

\* MUTANT of evalDuplicate: a row is copied whether or not it has a copy.
AnyKey(k) == k \in DOMAIN keyMap

evalDuplicate(k) == CopyOf[k] \notin DOMAIN keyMap
-------------------------------------------------------------------------------
(* The queries. *)

\* INSERT of a key the table has throws ConflictingKey and changes nothing.
Insert(k, v) ==
  /\ query = Idle
  /\ Len(data) < MaxRows
  /\ insertByKey(k, v)
  /\ UNCHANGED <<loop, affected>>

\* TRUNCATE, which answers no count, and DELETE without a WHERE clause.
Truncate ==
  /\ query = Idle
  /\ clear
  /\ UNCHANGED <<loop, affected>>

DeleteAll ==
  /\ query = Idle
  /\ affected' = Len(data)
  /\ clear
  /\ UNCHANGED loop

\* The loops begin at the first row.
Begin(q) ==
  /\ query = Idle
  /\ query' = q
  /\ it' = 1
  /\ keys' = <<>>
  /\ counter' = 0
  /\ before' = data
  /\ UNCHANGED <<data, keyMap, affected>>

\* MUTANT of SkipRow: the loop looks at the same row again.
SkipNothing ==
  /\ query.op \in {"delete", "update", "rename", "duplicate"}
  /\ it <= Len(data)
  /\ ~Matches(data[it])
  /\ UNCHANGED vars

\* ++it on a row that does not match.
SkipRow ==
  /\ query.op \in {"delete", "update", "rename", "duplicate"}
  /\ it <= Len(data)
  /\ ~Matches(data[it])
  /\ it' = it + 1
  /\ UNCHANGED <<data, keyMap, query, keys, counter, affected, before>>

AtMatch(op) == query.op = op /\ it <= Len(data) /\ Matches(data[it])

\* The count is answered when the iterator is at end().
Finish ==
  /\ query.op \in {"delete", "update", "rename", "insertCopies"}
  /\ it > (IF query.op = "insertCopies" THEN Len(keys) ELSE Len(data))
  /\ affected' = counter
  /\ query' = Idle
  /\ it' = 0 /\ keys' = <<>> /\ counter' = 0 /\ before' = <<>>
  /\ UNCHANGED <<data, keyMap>>

BeginDelete(c) == Begin([op |-> "delete", cond |-> c])

\* MUTANT of DeleteRow: without it--, the row that fills the hole is not looked at.
DeleteAndStep ==
  /\ AtMatch("delete")
  /\ deleteDatum(data[it].key)
  /\ counter' = counter + 1
  /\ it' = it + 1
  /\ UNCHANGED <<query, keys, affected, before>>

\* MUTANT of DeleteRow: it-- without the loop's it++.
DeleteAndStepBack ==
  /\ AtMatch("delete")
  /\ deleteDatum(data[it].key)
  /\ counter' = counter + 1
  /\ it' = it - 1
  /\ UNCHANGED <<query, keys, affected, before>>

\* it-- and the loop's it++: the row moved into the hole is looked at next.
DeleteRow ==
  /\ AtMatch("delete")
  /\ deleteDatum(data[it].key)
  /\ counter' = counter + 1
  /\ UNCHANGED <<query, it, keys, affected, before>>

BeginUpdate(c, v) == Begin([op |-> "update", cond |-> c, val |-> v])

UpdateRow ==
  /\ AtMatch("update")
  /\ data' = [data EXCEPT ![it].val = query.val]
  /\ it' = it + 1
  /\ counter' = counter + 1
  /\ UNCHANGED <<keyMap, query, keys, affected, before>>

\* At most one row takes the key, and no other row has it.
NoClash(c, k) ==
  \A i, j \in DOMAIN data :
    evalCondition(c, data[i]) /\ i # j =>
      data[j].key # k /\ ~evalCondition(c, data[j])

BeginRename(c, k) ==
  /\ ClashAllowed \/ NoClash(c, k)
  /\ Begin([op |-> "rename", cond |-> c, key |-> k])

\* UPDATE of KEY; a row whose key is not in keyMap would dereference end().
RenameRow ==
  /\ AtMatch("rename")
  /\ data[it].key \in DOMAIN keyMap
  /\ setKey(it, query.key)
  /\ it' = it + 1
  /\ counter' = counter + 1
  /\ UNCHANGED <<query, keys, affected, before>>

\* Bound: the copies fit, and no key is at the end of the chain of copies.
BeginDuplicate(c) ==
  /\ \A i \in DOMAIN data :
       evalCondition(c, data[i]) => data[i].key \in DOMAIN CopyOf
  /\ 2 * Len(data) <= MaxRows
  /\ Begin([op |-> "duplicate", cond |-> c])

CollectKey ==
  /\ AtMatch("duplicate")
  /\ IF evalDuplicate(data[it].key)
       THEN keys' = Append(keys, data[it].key) /\ counter' = counter + 1
       ELSE UNCHANGED <<keys, counter>>
  /\ it' = it + 1
  /\ UNCHANGED <<data, keyMap, query, affected, before>>

Collected ==
  /\ query.op = "duplicate"
  /\ it > Len(data)
  /\ query' = [op |-> "insertCopies"]
  /\ it' = 1
  /\ UNCHANGED <<data, keyMap, keys, counter, affected, before>>

\* duplicateByKey finds the row again through keyMap.
duplicateByKey ==
  /\ query.op = "insertCopies"
  /\ it <= Len(keys)
  /\ keys[it] \in DOMAIN keyMap
  /\ insertByKey(CopyOf[keys[it]], data[keyMap[keys[it]]].val)
  /\ it' = it + 1
  /\ UNCHANGED <<query, keys, counter, affected, before>>
-------------------------------------------------------------------------------
Next ==
  \/ \E k \in Keys, v \in Vals : Insert(k, v)
  \/ Truncate \/ DeleteAll
  \/ \E c \in Conds : \/ BeginDelete(c)
                      \/ \E v \in Vals : BeginUpdate(c, v)
                      \/ \E k \in Keys : BeginRename(c, k)
                      \/ BeginDuplicate(c)
  \/ SkipRow \/ DeleteRow \/ UpdateRow \/ RenameRow
  \/ CollectKey \/ Collected \/ duplicateByKey
  \/ Finish

SafeSpec == Init /\ [][Next]_vars

\* A query that began goes on: one thread, and no step of a loop blocks.
Spec == SafeSpec /\ WF_vars(\/ SkipRow \/ DeleteRow \/ UpdateRow \/ RenameRow
                            \/ CollectKey \/ Collected \/ duplicateByKey
                            \/ Finish)
-------------------------------------------------------------------------------
Query ==
  {Idle, [op |-> "insertCopies"]}
    \cup [op : {"delete", "duplicate"}, cond : Conds]
    \cup [op : {"update"}, cond : Conds, val : Vals]
    \cup [op : {"rename"}, cond : Conds, key : Keys]

TypeOK ==
  /\ data \in Seq(Row)
  /\ DOMAIN keyMap \subseteq Keys
  /\ \A k \in DOMAIN keyMap : keyMap[k] \in 1 .. Len(data)
  /\ query \in Query
  /\ it \in Nat
  /\ keys \in Seq(DOMAIN CopyOf)
  /\ counter \in Nat
  /\ affected \in Nat
  /\ before \in Seq(Row)

\* m finds every row of d and nothing else.
Indexes(m, d) ==
  /\ \A i \in DOMAIN d : d[i].key \in DOMAIN m /\ m[d[i].key] = i
  /\ \A k \in DOMAIN m : m[k] \in DOMAIN d /\ d[m[k]].key = k

\* Keys are unique and access by key hits the right row, in the middle of every
\* loop, although DELETE moves rows and UPDATE re-keys them as the loop walks.
KeyMapConsistent == Indexes(keyMap, data)

\* The copies DUPLICATE still has to insert never throw ConflictingKey, and the
\* rows they are copied from are still found: what evalDuplicate said of a key
\* when it was collected holds when duplicateByKey uses it.
CopiesFit ==
  query.op = "insertCopies" =>
    \A n \in it .. Len(keys) : /\ keys[n] \in DOMAIN keyMap
                              /\ CopyOf[keys[n]] \notin DOMAIN keyMap

\* What the loops rely on in the middle of a walk; IndInv is inductive.
RenameAhead ==
  query.op = "rename" =>
    \A i \in it .. Len(data) : Matches(data[i]) =>
      \A j \in DOMAIN data \ {i} :
        data[j].key # query.key /\ (j >= it => ~Matches(data[j]))

Distinct(s) == \A m, n \in DOMAIN s : s[m] = s[n] => m = n

Collecting ==
  query.op = "duplicate" =>
    /\ Distinct(keys)
    /\ \A i \in DOMAIN data :
         Matches(data[i]) => data[i].key \in DOMAIN CopyOf
    /\ \A n \in DOMAIN keys : /\ keys[n] \in DOMAIN keyMap
                             /\ keyMap[keys[n]] < it
                             /\ CopyOf[keys[n]] \notin DOMAIN keyMap

Walks == /\ query.op # "idle" => it >= 1
         /\ query.op = "insertCopies" => Distinct(keys)

IndInv == /\ TypeOK
          /\ KeyMapConsistent
          /\ RenameAhead
          /\ Collecting
          /\ CopiesFit
          /\ Walks

\* Every query that began is answered: DELETE's iterator, which goes back each
\* time a row is deleted, gets to the end, and no insertion of a copy throws.
QueryEnds == query # Idle ~> query = Idle

\* How many turns the query in progress can still take: DUPLICATE looks at each
\* row and then inserts at most one copy of it.
TurnsLeft ==
  CASE query.op = "idle" -> 0
    [] query.op = "duplicate" -> 2 * (Len(data) + 1 - it) + Len(keys) + 2
    [] query.op = "insertCopies" -> Len(keys) + 2 - it
    [] OTHER -> Len(data) + 2 - it

\* Every turn leaves fewer: DELETE's walk goes back only when the table shrinks,
\* UPDATE of KEY meets no row again and DUPLICATE does not walk its own copies.
LoopsShrink == [][query # Idle => TurnsLeft' \in 0 .. TurnsLeft - 1]_vars

\* Why it is so: no iterator is past the end of what it walks.
WithinRows ==
  /\ query.op \in {"delete", "update", "rename", "duplicate"} => it <= Len(data) + 1
  /\ query.op = "insertCopies" => it <= Len(keys) + 1

\* The map a sequence of rows with different keys stands for.
Contents(d) ==
  [k \in {d[i].key : i \in DOMAIN d} |->
     d[CHOOSE i \in DOMAIN d : d[i].key = k].val]

\* The queries take effect at once, when they are answered.
Keyed == INSTANCE KeyedTable WITH
  rows <- IF query = Idle THEN Contents(data) ELSE Contents(before)

ImplementsKeyedTable == Keyed!Spec
================================================================================
