SPECIFICATION Spec
CONSTANTS
  SourceTimes <- MCTimes
  Kinds = {"producer", "mapper"}
  Modes = {"RealTime", "HistoricalFrom"}
  RunFors <- MCRunFors
  Filtered = {2}
  Failing = {3}
INVARIANTS InStep
PROPERTIES WorkersProgress
CHECK_DEADLOCK FALSE
