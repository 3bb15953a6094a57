SPECIFICATION NodeSpec
CONSTANTS
  Calls = {run, list}
  Asking = {run}
  Conns = {1, 2, 3}
  Fallbacks = {"deny", "allowlist", "full"}
  Unset = Unset
CHECK_DEADLOCK FALSE
INVARIANTS ApprovedRuns RecordsSound NoWaitForClosed
PROPERTIES DecisionFinal NothingHangs
