SPECIFICATION Spec
CONSTANTS
  Devices = {d1, d2}
  Tokens = {t1, t2}
  Reqs = {r1, r2}
  Timeouts <- ShortAndLong
  ActiveTimeout = 1
  Modes <- AllModes
  MaxTime = 3
  Valid = Valid
  KICK_OUT = KICK_OUT
  BE_REPLACED = BE_REPLACED
  Null = Null
SYMMETRY Symmetry
INVARIANT TtlInv
PROPERTY IdleIsFinal
CHECK_DEADLOCK FALSE
