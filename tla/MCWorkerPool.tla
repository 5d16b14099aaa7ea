---------------------------- MODULE MCWorkerPool ----------------------------
(* WorkerPool: the goroutines are interchangeable where no liveness is checked. *)
EXTENDS WorkerPool, TLC

Symmetry == Permutations(Workers)
=============================================================================
