SPECIFICATION Spec
CONSTANTS
  NULL = NULL
  Procs <- AllAsids
  Sems <- OnlySwap
  AccessPoints <- AtUser
  Vpns <- PagesAndNext
  UPROCMAX = 2
  MAXPAGES = 2
  POOLSIZE = 1
  TLBSIZE = 1
  TextPages = 0
  Values = {0}
  Writers = {}
  Blank = 0
INVARIANTS
  EvictedPageNotValid
