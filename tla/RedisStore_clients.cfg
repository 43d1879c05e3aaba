SPECIFICATION Spec
CONSTANTS
  Clients = {c1}
  Keys = {k1, k2}
  Values = {v1, v2}
  Seconds = {0, 1}
  Buckets = 2
  MaxMasters = 2
  MaxTime = 1
  Keep = Keep
  Null = Null
SYMMETRY Symmetry
PROPERTY ImplementsTokenStore
PROPERTY GetTellsDeadline
PROPERTY ScanIsComplete
CHECK_DEADLOCK FALSE
