---------------------------- MODULE MCSessionTtl ----------------------------
(* Instances of SessionTtl for TLC. *)
EXTENDS SessionTtl, TLC

AllModes == {"single", "replace", "share", "several"}

ShortAndLong == {1, 2}

Symmetry == Permutations(Devices) \cup Permutations(Tokens) \cup Permutations(Reqs)
=============================================================================
