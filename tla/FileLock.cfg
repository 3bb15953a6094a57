SPECIFICATION LockSpec
CONSTANTS
  p1 = p1
  p2 = p2
  c1 = c1
  c2 = c2
  c3 = c3
  Procs = {p1, p2}
  Callers = {c1, c2, c3}
  ProcOf <- MCProcOf
  Locks = {1, 2, 3, 4}
  Crashing = {p1, p2}
  Overdue = {p1}
  None = None
CHECK_DEADLOCK FALSE
INVARIANTS Exclusive LocksAccounted
PROPERTY DeadLockGoes
