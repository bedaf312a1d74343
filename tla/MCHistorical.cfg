SPECIFICATION Spec
CONSTANTS
  src = src
  fb = fb
  mid = mid
  kid = kid
  snk = snk
  NoNode = NoNode
  Node <- MCNode
  Layer <- MCLayer
  LayerCount = 4
  Downstreams <- MCDownstreams
  CallbackNodes = {src}
  AlwaysNodes = {mid}
  NotifyNodes = {src}
  FeedbackTo <- MCFeedbackTo
  MarkTargets <- MCMarkTargets
  Failing = {kid}
  Realtime = FALSE
  StartTime = 1
  RunFors <- AllRunFors
  U32Max = 3
  NanoMax = 100
  CallbackTimes = {0, 1, 3}
  MaxNow = 3
  MaxNotify = 1
INVARIANTS CyclesSound ReplaySound
CHECK_DEADLOCK FALSE
