-------------------------- MODULE MCTokenLifecycle --------------------------
(* Instances of TokenLifecycle for TLC. *)
EXTENDS TokenLifecycle, TLC

Config(dc, ic, sh) == [deviceConcurrent |-> dc, isConcurrent |-> ic, isShare |-> sh]

JustReplace == {Config(TRUE, FALSE, FALSE)}

LoginLogoutKick == {"login", "logout", "kickout"}

LoginAndKick == {"login", "kickout"}

LoginOnly == {"login"}

Symmetry ==
  Permutations(Reqs) \cup Permutations(Calls) \cup Permutations(Devices)
    \cup Permutations(Tokens)
=============================================================================
