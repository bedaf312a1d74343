CONSTANTS
  Pipelines <- MCPipelines
  Start = 0
SPECIFICATION Spec
CHECK_DEADLOCK FALSE
INVARIANTS TimeShiftsExact OperatorsMatch StatisticsMatch ReplayIsComplete DemuxRoutes

