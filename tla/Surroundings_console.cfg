SPECIFICATION SurroundingsSpec
CONSTANTS
  Chains <- MCChains
  Capacity = 2
  Limit = 2
  Rows = 2
  Calls = {c1, c2}
  LoginIds = {u1}
  MaxEvents = 3
  MaxRestarts = 1
  Null = Null
  Nodes = {n1, n2, n3}
  Algorithm <- MCAlgorithm
  TokenLife = 2
  MaxClock = 6
  Instances = {i1, i2, i3}
  CreateOptions <- MCOptions
  redis = redis
  Iface = Iface
  Sink1 = Sink1
  Inputs <- MCInputs
  Words = {"a", "token", "state"}
  a1 = a1
  a2 = a2
  a3 = a3
  First <- MCFirst
  Devices = {d1, d2}
  DeviceNames = {d1, d2}
  DefaultDevice = d1
  Buffered = 2
  Procs = {c1, c2}
  Default = d1
  PageSize = 2
  MaxSteps = 2
  u2 = u2
  u3 = u3
  e1 = e1
  e2 = e2
  Layouts <- MCLayouts
  MaxToken = 3
  v1 = v1
  v2 = v2
  Shapes <- MCShapes
  Loggers <- MCLoggers
  Overrides <- MCOverrides
  MaxExports = 1
  KeyConfigs <- MCKeyConfigs
  Users = {u2, u3}
  Numbers <- MCNumbers
  Admin = v1
  Usual = 1
  Most = 2
  UsualLimit = 2
  Newest = 3
SYMMETRY Symmetry
INVARIANT ConsoleInv
INVARIANT BridgeInv
PROPERTY ActionsHitTheirTarget
INVARIANT PanelInv
INVARIANT TrailInv
INVARIANT ExportInv
INVARIANT RotationKeepsTokens
INVARIANT DeploymentInv
CHECK_DEADLOCK FALSE
