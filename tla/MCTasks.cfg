SPECIFICATION TaskSpec
CONSTANTS
  MaxSends = 3
  Forever = FALSE
  DayNanos = 8
  EpochOffset = 3
  Runs <- MCRuns
  Failing = {3}
INVARIANTS ReceiverSound NothingSwallowed AsyncExact
PROPERTIES ReceiverProgress AsyncRunEnds
CHECK_DEADLOCK FALSE
