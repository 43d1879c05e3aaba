SPECIFICATION Spec
CONSTANTS
  LoginIds = {l1}
  Devices = {d1, d2}
  Tokens = {t1, t2, t3}
  Reqs = {r1, r2}
  Ops <- CoreOps
  Configs <- Kicking
  Overlap = "devices"
  MayAbort = TRUE
  KICK_OUT = KICK_OUT
  BE_REPLACED = BE_REPLACED
  Null = Null
SYMMETRY Symmetry
INVARIANT EveryLiveTokenIsListed
INVARIANT KickingLeavesOne
INVARIANT Ownership
PROPERTY RevocationIsFinal
CHECK_DEADLOCK FALSE
