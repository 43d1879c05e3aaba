SPECIFICATION Spec
CONSTANTS
  Objects = {o1, o2}
  Fields = {a, b}
  Values = {v1}
  Tokens = {t1, t2}
  LoginTokens = {l1}
  Readers = {r1, r2}
  MaxDevice = 3
  MaxTime = 2
  MaxWrites = 4
  Null = Null
INVARIANT SessionDataInv
PROPERTY NoLostUpdate
INVARIANT ReadsOwnWrites
PROPERTY CallsComplete
INVARIANT ConsumedOnce
CHECK_DEADLOCK FALSE
