------------------------------ MODULE MCWorker ------------------------------
(* The worker subsystem on small instances.                                *)
EXTENDS WorkerRefines, TLC

Symmetry == Permutations(Tasks)
=============================================================================
