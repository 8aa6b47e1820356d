SPECIFICATION Spec
CONSTANTS
  NULL = NULL
  MAX_PROC = 3
  PID_SLOTS = 4
  RECYCLE_MOD = 2
  UserSems = {50}
  Units = {}
  Statuses <- StatusesOn
  KernelTE = TRUE
  Outcomes = {"ok"}
  Supports = {}
INVARIANTS
  TypeOK
  NoProcessLost
  CountsAgree
  SemaphoreQueues
  ProcessTree
  OneFamily
  PanicsExplained
  PidsResolve
PROPERTIES
  ImplementsBinarySemaphore
  YieldGivesWay
