SPECIFICATION Spec
CONSTANTS
  NULL = NULL
  MAX_PROC = 2
  PID_SLOTS = 4
  RECYCLE_MOD = 1
  UserSems = {}
  Units = {8}
  Statuses <- StatusesOn
  KernelTE = TRUE
  Outcomes = {"ok"}
  Supports = {}
INVARIANTS DeviceSemaphoreAssertion
