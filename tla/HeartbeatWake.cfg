SPECIFICATION WakeSpec
CONSTANTS
  all = all
  main = main
  All = all
  Requests <- MCRequests
  Targets = {all, main}
  Runners = {1, 2}
  Slots = {1, 2}
  Interval = 1
  RetryDelay = 1
  Coalesce = 0
  Paused = {1}
  None = None
INVARIANT WakesKept
PROPERTIES RequestsStand BeatsGoOn
