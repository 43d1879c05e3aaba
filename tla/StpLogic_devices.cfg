SPECIFICATION FairSpec
CONSTANTS
  LoginIds = {l1}
  Devices = {d1, d2}
  Tokens = {t1, t2}
  Reqs = {r1, r2}
  Ops <- AllOps
  Configs <- AllModes
  Overlap = "devices"
  MayAbort = FALSE
  KICK_OUT = KICK_OUT
  BE_REPLACED = BE_REPLACED
  Null = Null
INVARIANT IndexesAgree
INVARIANT NeverThrows
PROPERTY RevokedOnReturn
PROPERTY EveryRequestEnds
CHECK_DEADLOCK FALSE
