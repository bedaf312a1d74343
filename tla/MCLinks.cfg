SPECIFICATION Spec
CONSTANTS
  Components = {"fix", "aeron", "ice"}
  FixFactories = {"fix_connect", "fix_connect_tls", "fix_accept", "fix_send"}
  FixSymbols = {"s"}
  FixKinds = {"data", "test"}
  MaxConnections = 2
  MaxFragments = 2
  MaxSends = 4
  InjectCapacity = 2
  AeronSubs <- MCAeronSubs
  FragmentLimit = 1
  AeronWindow = 1
  MaxSlots = 2
  MaxBurst = 2
  MaxDriverChanges = 2
  MaxPubCycles = 1
  IceModes = {"Spin", "Threaded", "Signaled"}
  IceSlices = {TRUE, FALSE}
  IceHistory = 2
  IceEvery = 2
  IceLongest = 1
  MaxSamples = 3
  MaxIceBurst = 2
INVARIANTS FixSessions SubscriberExact SamplesInOrder
PROPERTIES FixStops AcceptedArrives SampleArrives
CHECK_DEADLOCK FALSE
