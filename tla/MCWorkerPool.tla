---------------------------- MODULE MCWorkerPool ----------------------------
(* WorkerPool for TLC; the values are in the configurations.               *)
EXTENDS WorkerPool
=============================================================================
