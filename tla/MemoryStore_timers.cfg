SPECIFICATION Spec
CONSTANTS
  Keys = {k1, k2}
  Values = {v1, v2}
  Seconds = {0, 1, 3}
  MaxDelay = 2
  MaxTime = 4
  Keep = Keep
  Null = Null
SYMMETRY Symmetry
INVARIANT EntriesKeepTimers
PROPERTY ImplementsTokenStore
CHECK_DEADLOCK FALSE
