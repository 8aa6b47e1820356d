SPECIFICATION Spec
CONSTANTS
  NULL = NULL
  MAX_PROC = 2
  PID_SLOTS = 4
  RECYCLE_MOD = 1
  UserSems = {}
  Units = {9, 32, 33}
  Statuses <- StatusesOn
  KernelTE = TRUE
  Outcomes = {"ok", "err"}
  Supports = {}
INVARIANTS
  DeviceProtocol
  PanicsExplained
PROPERTIES
  InterruptWakesWaiter
