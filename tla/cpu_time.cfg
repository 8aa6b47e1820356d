SPECIFICATION Spec
CONSTANTS
  NULL = NULL
  Procs = {p1, p2}
  Supported = {p1}
  MaxTod = 4
  MaxCharge = 6
INVARIANTS
  AllTimeCharged
  IntervalsDisjoint
