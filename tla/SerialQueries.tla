----------------------------- MODULE SerialQueries -----------------------------
(***************************************************************************)
(* What the REPL promises for data queries: they are executed one at a     *)
(* time, in the order they were read, and the answer to each is given once *)
(* every partition of its table was scanned for it, exactly once.          *)
(***************************************************************************)
EXTENDS Naturals

CONSTANTS NQ,       \* the number of data queries in the input
          NP        \* the number of partitions of a table

VARIABLES cur,      \* the query read last (0: none yet)
          executing,\* it is not answered yet
          scans     \* how often each partition was scanned for each query

vars == <<cur, executing, scans>>

Parts == 0 .. NP - 1

Init == /\ cur = 0
        /\ executing = FALSE
        /\ scans = [q \in 1 .. NQ |-> [p \in Parts |-> 0]]

Begin == /\ ~executing
         /\ cur < NQ
         /\ cur' = cur + 1
         /\ executing' = TRUE
         /\ UNCHANGED scans

\* One thread scans one partition, or the main thread scans them all.
Scan(S) == /\ executing
           /\ \A p \in S : scans[cur][p] = 0
           /\ scans' = [scans EXCEPT ![cur] =
                          [p \in Parts |-> IF p \in S THEN 1 ELSE scans[cur][p]]]
           /\ UNCHANGED <<cur, executing>>

Answer == /\ executing
          /\ \A p \in Parts : scans[cur][p] = 1
          /\ executing' = FALSE
          /\ UNCHANGED <<cur, scans>>

ScanAllAndAnswer == /\ executing
                    /\ \A p \in Parts : scans[cur][p] = 0
                    /\ scans' = [scans EXCEPT ![cur] = [p \in Parts |-> 1]]
                    /\ executing' = FALSE
                    /\ UNCHANGED cur

ScanSome == \E p \in Parts : Scan({p})

Next == Begin \/ ScanSome \/ Answer \/ ScanAllAndAnswer

SafeSpec == Init /\ [][Next]_vars

Spec == SafeSpec /\ WF_vars(ScanSome \/ Answer \/ ScanAllAndAnswer)
================================================================================
