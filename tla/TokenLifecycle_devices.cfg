SPECIFICATION LifecycleSpec
CONSTANTS
  LoginIds = {l1}
  Devices = {d1, d2}
  Tokens = {t1, t2, t3}
  Reqs = {r1}
  Calls = {c1, c2}
  Ops <- LoginLogoutKick
  Configs <- JustReplace
  Overlap = "devices"
  MayAbort = FALSE
  MayExpire = TRUE
  KICK_OUT = KICK_OUT
  BE_REPLACED = BE_REPLACED
  Null = Null
SYMMETRY Symmetry
INVARIANT RotatedIndexesAgree
CHECK_DEADLOCK FALSE
