----------------------------- MODULE MCThreadPool -----------------------------
(* ThreadPool on three threads (one of the constructor's, two of pool_set's)
   and three tasks. *)
EXTENDS ThreadPool

CONSTANTS w1, w2, w3, t1, t2, t3

ThreeWorkers == {w1, w2, w3}
ThreeTasks == {t1, t2, t3}
===============================================================================
