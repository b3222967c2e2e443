SPECIFICATION PartsSpec
CONSTANTS
  NumPorts = 2
  NumMsti = 1
  AddressSpan = 4
  PortSpan = 4
  DefaultPriority = 2
  DefaultPortPriority = 2
  MigrateTime = 3
  DefaultHelloTime = 2
  DefaultMaxAge = 6
  DefaultForwardDelay = 4
  MaxHops = 20
  DefaultTxHoldCount = 3
  Addresses = {0, 1, 3}
  BridgePriorities = {1, 3}
  PortPriorities = {1}
  LinkCosts = {1}
  LinkDuplex = {TRUE}
  AdminCosts = {0, 2}
  MaxAges = {7}
  ForwardDelays = {5}
  TxHoldCounts = {1}
  StpVersions = {0, 2}
  MstConfigIds = {0}
  Frames <- AllFrames
  MaxCalls = 2
  ClockLimit = 8
INVARIANTS
  NothingPending
  BpduInHand
  OnlyActivePortsLearn
  RolesUpToDate
  RateLimited
  PointToPointKnown
PROPERTIES
  SendsNamedRoles
  EdgeOnlyWhenQuiet
  ForwardsAfterDelay
  MigratesSlowly
