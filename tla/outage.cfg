SPECIFICATION PollingSpec
CONSTANTS
  w1 = w1
  Window = {w1}
  Backend = {home}
  Default = home
  Task = {t1}
  None = None
  Scenario <- Outage
PROPERTIES Recovers
CHECK_DEADLOCK FALSE
