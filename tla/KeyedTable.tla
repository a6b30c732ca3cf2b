------------------------------ MODULE KeyedTable ------------------------------
(***************************************************************************)
(* What a table promises the queries that change it: a finite map from     *)
(* keys to values, each query taking effect at once and answering with the *)
(* number of rows it affected.  Table is shown to implement it.            *)
(***************************************************************************)
EXTENDS Naturals, FiniteSets

CONSTANTS Keys, Vals,
          CopyOf,    \* the key DUPLICATE gives the copy of a row, a function
          Conds      \* the WHERE clauses: sets of rows <<key, value>>

VARIABLES rows,      \* the map
          affected   \* what the last query answered

vars == <<rows, affected>>

Matched(c) == {k \in DOMAIN rows : <<k, rows[k]>> \in c}

Init == /\ rows = [k \in {} |-> 0]
        /\ affected = 0

Insert == \E k \in Keys \ DOMAIN rows, v \in Vals :
  /\ rows' = [x \in DOMAIN rows \cup {k} |-> IF x = k THEN v ELSE rows[x]]
  /\ UNCHANGED affected

Delete == \E c \in Conds :
  /\ rows' = [k \in DOMAIN rows \ Matched(c) |-> rows[k]]
  /\ affected' = Cardinality(Matched(c))

DeleteAll == /\ rows' = [k \in {} |-> 0]
             /\ affected' \in {affected, Cardinality(DOMAIN rows)}

Update == \E c \in Conds, v \in Vals :
  /\ rows' = [k \in DOMAIN rows |-> IF k \in Matched(c) THEN v ELSE rows[k]]
  /\ affected' = Cardinality(Matched(c))

\* UPDATE of KEY: the one row that matches takes the key, which is free.
Rename == \E c \in Conds, new \in Keys :
  \/ /\ Matched(c) = {}
     /\ affected' = 0
     /\ UNCHANGED rows
  \/ \E old \in DOMAIN rows :
       /\ Matched(c) = {old}
       /\ new = old \/ new \notin DOMAIN rows
       /\ rows' = [k \in (DOMAIN rows \ {old}) \cup {new} |->
                     IF k = new THEN rows[old] ELSE rows[k]]
       /\ affected' = 1

\* DUPLICATE: the rows that match and have no copy yet.
Duplicate == \E c \in Conds :
  LET originals == {k \in Matched(c) : CopyOf[k] \notin DOMAIN rows}
      copies == {CopyOf[k] : k \in originals}
  IN /\ Matched(c) \subseteq DOMAIN CopyOf
     /\ rows' = [x \in DOMAIN rows \cup copies |->
                   IF x \in DOMAIN rows THEN rows[x]
                   ELSE rows[CHOOSE k \in originals : CopyOf[k] = x]]
     /\ affected' = Cardinality(originals)

Next == Insert \/ Delete \/ DeleteAll \/ Update \/ Rename \/ Duplicate

Spec == Init /\ [][Next]_vars
===============================================================================
