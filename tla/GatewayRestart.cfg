SPECIFICATION Spec
CONSTANTS
  Tasks = {t1, t2}
  ExternalAllowed = TRUE
  RespawnModes = {"exits", "inProcess"}
  MaxRequests = 3
  MaxIterations = 4
CHECK_DEADLOCK FALSE
INVARIANTS ServerStands SignalsBalanced
PROPERTIES DrainBeforeClose RequestsHappen
