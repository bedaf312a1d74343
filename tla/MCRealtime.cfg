SPECIFICATION Spec
CONSTANTS
  src = src
  fb = fb
  mid = mid
  kid = kid
  snk = snk
  NoNode = NoNode
  Node <- SmallNode
  Layer <- SmallLayer
  LayerCount = 2
  Downstreams <- SmallDownstreams
  CallbackNodes = {src}
  AlwaysNodes = {}
  NotifyNodes = {src, snk}
  FeedbackTo <- SmallFeedbackTo
  MarkTargets <- SmallTargets
  Failing = {}
  Realtime = TRUE
  StartTime = 1
  RunFors <- TimedRunFors
  U32Max = 3
  NanoMax = 100
  CallbackTimes = {0, 2}
  MaxNow = 3
  MaxNotify = 1
INVARIANTS PassesSound
PROPERTIES EngineProgress
CHECK_DEADLOCK FALSE
