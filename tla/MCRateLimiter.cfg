SPECIFICATION Spec
CONSTANTS
  a1 = a1  a2 = a2
  p1 = p1  p2 = p2
  Addresses = {a1}
  Requests = {p1, p2}
  Limit = 2
  Window = 2
  MaxTime = 6
  MaxDelay = 2
  MaxCalls = 6
SYMMETRY Symmetry
INVARIANTS LimiterIInv BurstsAreBounded RefusalsAreEarned WaitingIsEnough
CHECK_DEADLOCK FALSE
