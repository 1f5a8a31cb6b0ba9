------------------------------ MODULE MCStoreLock ------------------------------
(* StoreLock with a few interchangeable processes. *)
EXTENDS StoreLock, TLC

Symmetry == Permutations(Processes)
=============================================================================
