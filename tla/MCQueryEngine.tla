---------------------------- MODULE MCQueryEngine ----------------------------
(* QueryEngine on three workers, two partitions, and a few short inputs. *)
EXTENDS QueryEngine, TLC

CONSTANTS w1, w2, w3

ThreeWorkers == {w1, w2, w3}
TwoQueries == {1, 2} \X {0, 1}
ThreeQueries == {1, 2, 3} \X {0, 1}

AddAdd == <<"ADD", "ADD">>
AddAddSum == <<"ADD", "ADD", "SUM">>

\* The third query is on a table of less than 2000 rows.
FirstTwo == {1, 2}

NoneThrows == {}
\* A matching row in both partitions of the first query, or in the last one.
FirstThrows == {<<1, 0>>, <<1, 1>>}
LastPartThrows == {<<1, 1>>}
==============================================================================
