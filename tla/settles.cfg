SPECIFICATION SettlesSpec
CONSTANTS
  Window = {w1, w2}
  send = send  setting = setting
  NoCache = NoCache  NoWindow = NoWindow
  Content <- States
  Default <- Empty
  Mutator <- Updates
  Upgrade <- DropSend
  InitVersion = {"older", "newer"}
  Runtimes = {TRUE}
  LockMayExpire = FALSE
  MaxOwnWrites = 64
  MaxUpdates = 3
  MaxOpens = 0
  MaxReadFailures = 0
  MaxWriteFailures = 1
  None = None
  m1 = m1  m2 = m2
  home = home  other = other
INVARIANTS PromiseInv
PROPERTIES
  KeepsPromise UpdatesSettle
  SettlesWhileConnected
CHECK_DEADLOCK FALSE
