------------------------------ MODULE MCHooks ------------------------------
(***************************************************************************)
(* Hooks for TLC.  Modules and clients are interchangeable.                *)
(***************************************************************************)
EXTENDS Hooks, TLC

Symmetry == Permutations(Modules) \cup Permutations(Clients)
=============================================================================
