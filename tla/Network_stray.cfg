SPECIFICATION Spec
CONSTANTS
  NumPorts = 3
  NumMsti = 0
  AddressSpan = 4
  PortSpan = 4
  DefaultPriority = 2
  DefaultPortPriority = 2
  MigrateTime = 3
  DefaultHelloTime = 2
  DefaultMaxAge = 6
  DefaultForwardDelay = 4
  MaxHops = 20
  DefaultTxHoldCount = 3
  NumBridges = 2
  MissedLinkPulseCounterMax = 2
  Cost = 1
  InitialWires <- SelfWire
  MaxChanges = 2
INVARIANTS
  NoFrameStrays
