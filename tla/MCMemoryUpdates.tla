-------------------------- MODULE MCMemoryUpdates --------------------------
(* Instances of MemoryUpdates for TLC. *)
EXTENDS MemoryUpdates, TLC

Symmetry == Permutations(Timers) \cup Permutations(Targets)
============================================================================
