---------------------------- MODULE MCWorkerPool ----------------------------
(* WorkerPool on small instances; the requests are interchangeable. *)
EXTENDS WorkerPool, TLC

Symmetry == Permutations(Requests)
=============================================================================
