---------------------------- MODULE MCGeneration ----------------------------
(* Generation on small instances; the jobs and references are interchangeable. *)
EXTENDS Generation, TLC

Symmetry == Permutations(Jobs) \cup Permutations(Refs)
=============================================================================
