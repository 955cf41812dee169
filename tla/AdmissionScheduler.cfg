CONSTANTS
  e1 = e1
  e2 = e2
  e3 = e3
  e4 = e4
  s1 = s1
  Executions <- MCExecutions
  Signals <- MCSignals
  capacity = 2
  ReportsSignals = FALSE
SPECIFICATION FairSpec
CHECK_DEADLOCK FALSE
INVARIANTS
  TypeOK
  SlotsAccounted
  CapacityRespected
  QueueOnlyWhenFull
PROPERTIES
  NoOvertaking
  RefusedCommandsRun
