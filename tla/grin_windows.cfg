SPECIFICATION Spec
CONSTANTS
  w1 = w1
  w2 = w2
  f1 = f1
  f2 = f2
  f3 = f3
  None = None
  Window = {w1, w2}
  Flow = {f1, f2, f3}
  KindsOf <- Mixed
  Confirmed = 2
  MaxWeeks = 0
  MaxFailures = 0
INVARIANTS IndexNeverReused
CHECK_DEADLOCK FALSE
