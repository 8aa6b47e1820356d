SPECIFICATION Spec
CONSTRAINT Apart
CONSTANTS
  NULL = NULL
  Procs <- AllAsids
  Sems <- OnlySwap
  AccessPoints <- AtUser
  Vpns <- PagesAndNext
  UPROCMAX = 2
  MAXPAGES = 2
  POOLSIZE = 2
  TLBSIZE = 1
  TextPages = 1
  Values = {0, 1}
  Writers = {1}
  Blank = 0
INVARIANTS
  TypeOK
  PageTablesAgree
  TlbAgrees
  SwapPoolMutex
PROPERTIES
  ImplementsMemory
