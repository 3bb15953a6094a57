SPECIFICATION Spec
CONSTANTS
  j1 = j1
  j2 = j2
  None = None
  NoJob = NoJob
  NoStore = NoStore
  Jobs = {j1, j2}
  Specs <- MCSpecs
  InitialSpecs <- MCInitial
  Outcomes = {"ok", "error"}
  MaxTime = 3
  Period = 2
  MaxConcurrentRuns = 1
  MaxTimerDelay = 3
  MinRefireGap = 1
  StuckRun = 0
  Backoff <- MCBackoff
  MaxServices = 2
  MaxOps = 1
  MaxIncidents = 1
CHECK_DEADLOCK FALSE
INVARIANTS MarkersHold WakesInTime
PROPERTIES DueJobsKept DueJobsRun
