SPECIFICATION Spec
CONSTANTS
  Devices = {d1}
  Tokens = {t1, t2, t3}
  Reqs = {r1, r2}
  DefaultDevice = d1
  Timeout = 2
  RefreshTimeouts <- Two
  Timeouts <- OneOrTwo
  RenewTimeouts <- Two
  Ops <- AllOps
  Modes <- AllModes
  Overlap = "refreshes"
  MaxTime = 2
  MaxAborts = 1
  Revoked = Revoked
  Null = Null
SYMMETRY Symmetry
INVARIANT RevokedStaysOut
INVARIANT KickingLeavesOne
PROPERTY LoginHandsOutAccepted
CHECK_DEADLOCK FALSE
