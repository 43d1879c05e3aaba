---------------------------- MODULE MCJwtSession ----------------------------
(* Instances of JwtSession for TLC. *)
EXTENDS JwtSession, TLC

AllModes == {"single", "replace", "share", "several"}

OneOrTwo == {1, 2}
Two      == {2}

Symmetry == Permutations(Tokens) \cup Permutations(Reqs)
=============================================================================
