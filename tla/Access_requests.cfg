SPECIFICATION RequestsSpec
CONSTANTS
  Sites <- MCSites
  Requests <- MCRequests
  Names <- MCNames
  Lists <- MCLists
  RoleLists <- MCRoleLists
  LoadTime = 1
  MaxTime = 3
  MaxChanges = 1
  Star = Star
  Routes <- MCRoutes
  LowerCase <- MCLowerCase
  Decoded <- MCDecoded
  Null = Null
  Apps <- MCApps
  Messages <- MCMessages
  Holder <- MCHolder
  Garbage = Garbage
  t1 = t1
  t2 = t2
INVARIANT AccessInv
PROPERTY ListIsRecent
INVARIANT ChainInv
PROPERTY LoginReachesClient
CHECK_DEADLOCK FALSE
