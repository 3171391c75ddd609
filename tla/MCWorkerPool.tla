------------------------------ MODULE MCWorkerPool -----------------------------
(***************************************************************************)
(* Two threads and three interchangeable tasks.                            *)
(***************************************************************************)
EXTENDS WorkerPool, TLC

CONSTANTS t1, t2, t3
================================================================================
