----------------------------- MODULE MCStpLogic -----------------------------
(* Instances of StpLogic for TLC.                                          *)
EXTENDS StpLogic, TLC

Config(dc, ic, sh) == [deviceConcurrent |-> dc, isConcurrent |-> ic, isShare |-> sh]

Single  == Config(FALSE, TRUE, FALSE)
Replace == Config(TRUE, FALSE, FALSE)
Share   == Config(TRUE, TRUE, TRUE)
Several == Config(TRUE, TRUE, FALSE)

AllModes     == {Single, Replace, Share, Several}
Kicking      == {Single, Replace, Share}

CoreOps == AllOps \ {"kickoutByDevice", "logoutByDevice"}

Symmetry ==
  Permutations(Reqs) \cup Permutations(Devices) \cup Permutations(Tokens)
    \cup Permutations(LoginIds)
=============================================================================
