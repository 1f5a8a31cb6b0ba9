---------------------------- MODULE MCMappingStore ----------------------------
(* Instances of MappingStore for TLC *)
EXTENDS MappingStore, TLC

\* Threads, requests, sessions and turns are only compared for equality
Symmetry ==
  Permutations(Threads) \cup Permutations(Requests) \cup Permutations(Sessions)
    \cup Permutations(HostTurns) \cup Permutations(NativeTurns)
=============================================================================
