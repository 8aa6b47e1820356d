SPECIFICATION Spec
CONSTANTS
  NULL = NULL
  MAX_PROC = 3
  PID_SLOTS = 4
  RECYCLE_MOD = 1
  UserSems = {}
  Units = {9}
  Statuses <- StatusesOn
  KernelTE = TRUE
  Outcomes = {"ok"}
  Supports = {}
INVARIANTS
  NoProcessLost
  DeviceProtocol
  PanicsExplained
PROPERTIES
  InterruptWakesWaiter
