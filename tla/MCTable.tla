-------------------------------- MODULE MCTable --------------------------------
(* Table with four keys, each but the last with its copy. *)
EXTENDS Table

\* n is one name with "_copy" appended n times: rows 0 and 2 have two copies to
\* make, rows 0 and 1 one, because the copy of 0 is there.
ChainKeys == 0 .. 3
ChainCopyOf == [n \in 0 .. 2 |-> n + 1]
TwoVals == {0, 1}

\* KEY = 1, a comparison of the value, no WHERE clause or one that all satisfy.
ShortConds == {{1} \X TwoVals, ChainKeys \X {0}, ChainKeys \X TwoVals}
================================================================================
