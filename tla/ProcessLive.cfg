SPECIFICATION FairSpec
CONSTANTS
  MAX_PROCESSES = 3
  MESSAGE_QUEUE_SIZE = 1
  SLICE = 2
  TICK_MOD = 3
  MAX_PRIO = 2
  DEFAULT_PRIO = 1
  PrioArgs <- LivePrioArgs
  SleepArgs <- LiveSleepArgs
  MaxPid = 2
  CallBudget = 1
  ManualWake = FALSE
PROPERTIES ShellResumes TimedSleeperWakes ReadyRuns
