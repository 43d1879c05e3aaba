SPECIFICATION LifecycleSpec
CONSTANTS
  LoginIds = {l1}
  Devices = {d1}
  Tokens = {t1, t2, t3}
  Reqs = {r1}
  Calls = {c1, c2}
  Ops <- LoginAndKick
  Configs <- JustReplace
  Overlap = "any"
  MayAbort = TRUE
  MayExpire = FALSE
  KICK_OUT = KICK_OUT
  BE_REPLACED = BE_REPLACED
  Null = Null
SYMMETRY Symmetry
INVARIANT RotationExclusive
PROPERTY OldTokenRetired
PROPERTY FamilyEndIsFinal
PROPERTY ImplementsRegistry
CHECK_DEADLOCK FALSE
