---------------------------- MODULE MCWorkerPool ----------------------------
(* Bounded instances of WorkerPool for TLC. *)
EXTENDS WorkerPool

=============================================================================
