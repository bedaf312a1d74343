SPECIFICATION Spec
CONSTANTS
  Components = {"fix"}
  FixFactories = {"fix_connect"}
  FixSymbols = {"s"}
  FixKinds = {"data", "test"}
  MaxConnections = 1
  MaxFragments = 1
  MaxSends = 4
  InjectCapacity = 2
  AeronSubs <- MCAeronSubs
  FragmentLimit = 1
  AeronWindow = 1
  MaxSlots = 2
  MaxBurst = 2
  MaxDriverChanges = 2
  MaxPubCycles = 1
  IceModes = {"Spin", "Threaded", "Signaled"}
  IceSlices = {TRUE, FALSE}
  IceHistory = 2
  IceEvery = 2
  IceLongest = 1
  MaxSamples = 3
  MaxIceBurst = 2
PROPERTIES FixStopsAlways
CHECK_DEADLOCK FALSE
