SPECIFICATION FairSpec
CONSTANTS
  NULL = NULL
  MAX_PROC = 2
  PID_SLOTS = 4
  RECYCLE_MOD = 1
  UserSems = {}
  Units = {8}
  Statuses <- StatusesOnOff
  KernelTE = FALSE
  Outcomes = {"ok"}
  Supports = {1}
PROPERTIES
  KernelReturns
  DeviceWaiterWakes
  ClockWaiterWakes
