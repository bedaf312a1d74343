SPECIFICATION Spec
CONSTANTS
  Components = {"cache", "sub", "sink", "web", "zmq", "latency", "metrics", "group"}
  CacheProcesses = {"a", "b"}
  CacheTeams <- MCTeams
  Connection <- MCConnection
  Slices <- MCSlices
  FileSize <- MCSize
  CacheLimit = 4
  U64Max = 10
  MaxFaults = 1
  SubKinds = {"etcd", "xread", "pubsub", "postgres", "kafka", "fluvio", "kdb"}
  SubKeys = {1, 2}
  SubStarts <- MCStarts
  MaxWrites = 4
  MaxNoise = 1
  SinkKinds = {"etcd", "kafka", "fluvio", "redis", "xadd", "postgres", "kdb"}
  SinkBursts <- MCBursts
  SinkKeyOf <- MCKey
  SinkTables <- MCTables
  Foreign = {1, 3}
  WebTopics = {"x"}
  WebListeners <- MCListeners
  BroadcastCapacity = 1
  OutboundCapacity = 1
  ListenerCapacity = 1
  MaxSockets = 2
  MaxFrames = 2
  MaxPublishes = 2
  MaxPageCalls = 3
  Propagation = 2
  BufferTimeout = 2
  LeaseTtl = 2
  MaxZmqClock = 5
  MaxMessages = 4
  Stages = 3
  Hop = 2
  Buckets = 3
  U64Top = 20
  MaxSpent = 2
  MaxSkew = 1
  MaxObserved = 2
  MetricNames = {"m"}
  MaxMetrics = 2
  MaxMetricTicks = 2
  GroupKeys = {"k", "m"}
  MaxStreams = 4
INVARIANTS CacheTransparent CacheBounded SubscriptionsExact SinksSound WebExact PublisherSound LatencySound ScrapeFresh GroupConsistent
PROPERTIES NoOverwrite
CHECK_DEADLOCK FALSE
