SPECIFICATION SpecUProcs
CONSTANTS
  NULL = NULL
  Procs <- TestAndUProcs
  Sems <- AllSems
  AccessPoints <- UserAndBuffers
  UPROCMAX = 3
  MAXPAGES = 2
  POOLSIZE = 1
  TLBSIZE = 1
  TextPages = 0
  Values = {0}
  Writers = {}
  Blank = 0
  Vpns <- NoPages
  MaxChars = 0
  Calls <- NoCalls
INVARIANTS
  FreeAreNotAllocated
