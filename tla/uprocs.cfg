SPECIFICATION FairUProcs
CONSTANTS
  NULL = NULL
  Procs <- TestAndUProcs
  Sems <- AllSems
  AccessPoints <- UserAndBuffers
  UPROCMAX = 2
  MAXPAGES = 2
  POOLSIZE = 1
  TLBSIZE = 1
  TextPages = 0
  Values = {0}
  Writers = {}
  Blank = 0
  Vpns <- FirstPage
  MaxChars = 1
  Calls <- OneCalls
INVARIANTS
  DeviceMutexes
  HaltsAfterAll
  SwapPoolMutex
PROPERTIES
  FaultServed
  
