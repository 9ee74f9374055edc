SPECIFICATION Spec
CONSTANTS
  w1 = w1
  Window = {w1}
  Backend = {home, other}
  Default = home
  Task = {t1, t2}
  None = None
  Scenario <- MidRefresh
INVARIANTS NumbersFitBackend
CHECK_DEADLOCK FALSE
