SPECIFICATION Spec
CONSTANTS
  MAX_PROCESSES = 3
  MESSAGE_QUEUE_SIZE = 1
  SLICE = 2
  TICK_MOD = 5
  MAX_PRIO = 2
  DEFAULT_PRIO = 1
  PrioArgs <- MCPrioArgs
  SleepArgs <- MCSleepArgs
  MaxPid = 3
  CallBudget = 1
  ManualWake = TRUE
INVARIANTS TypeOK OneRunning InServiceOutsideShell PidsUnique CountMatches
  WakeTimeMeansBlocked MemoryOwned ScanAgrees
PROPERTIES TerminatedIsFinal SwitchTakesHighest
