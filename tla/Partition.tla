------------------------------- MODULE Partition -------------------------------
(***************************************************************************)
(* How the parallel branches cut a table of n rows into sub tables: the    *)
(* same four lines in COUNT, SUM, MIN, MAX, SELECT, ADD, SUB, SWAP and     *)
(* DUPLICATE.  Rows are numbered from 0, as iterators are.                 *)
(***************************************************************************)
EXTENDS Integers

CONSTANT Split      \* the table size from which a query is split: 2000

ASSUME SplitAssumption == Split \in Nat /\ Split >= 2

\* unsigned int total_thread = table.size() / 2000 + 1
total_thread(n) == n \div Split + 1

\* unsigned int subtable_num = table.size() / total_thread
subtable_num(n) == n \div total_thread(n)

head(n, id) == id * subtable_num(n)

\* MUTANT of tail: the row at tail is scanned as well.
TailIncluded(n, id) ==
  IF id = total_thread(n) - 1 THEN n ELSE head(n, id) + subtable_num(n) + 1

\* The last sub table takes what the division left over.
tail(n, id) == IF id = total_thread(n) - 1 THEN n
               ELSE head(n, id) + subtable_num(n)

Ids(n) == 0 .. total_thread(n) - 1

\* The rows from head up to tail, tail excluded.
SubTable(n, id) == head(n, id) .. tail(n, id) - 1
================================================================================
