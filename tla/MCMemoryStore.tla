---------------------------- MODULE MCMemoryStore ---------------------------
(* Instances of MemoryStore for TLC. *)
EXTENDS MemoryStore, TLC

Symmetry == Permutations(Keys) \cup Permutations(Values)
=============================================================================
