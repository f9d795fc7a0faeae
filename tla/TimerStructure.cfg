SPECIFICATION Spec
CONSTANTS
  None = None
  Never = 9
  Slots = {s1, s2, s3, s4}
  Early <- EarlyTimers
  EarlyExpiries <- MCExpiries
  NewExpiries = {1, 2}
  Waits = {w1, w2}
  Workers = {k1, k2}
  Callers = {c1}
  MaxTime = 2
  MaxCalls = 2
  s1 = s1
  s2 = s2
  s3 = s3
  s4 = s4
SYMMETRY MCSymmetry
CHECK_DEADLOCK FALSE
INVARIANTS
  ContainersWellFormed
  WaitsAccounted
  SleepCoversDeadline

PROPERTIES
  KeepsPromise
