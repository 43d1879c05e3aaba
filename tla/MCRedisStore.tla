---------------------------- MODULE MCRedisStore ----------------------------
(* Instances of RedisStore for TLC. *)
EXTENDS RedisStore, TLC

Symmetry == Permutations(Keys) \cup Permutations(Values)
=============================================================================
