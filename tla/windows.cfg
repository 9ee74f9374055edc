SPECIFICATION MCSpec
CONSTANTS
  None = None
  w0 = w0
  f1 = f1  f2 = f2  f3 = f3
  Window = {w0}
  Flow = {f1, f2, f3}
  KindsOf <- Mixed
  Confirmed = 1
  MaxWeeks = 1
  MaxFailures = 1
  w1 = w1  w2 = w2  d1 = d1  d2 = d2
  WalletWindow <- AllWindows
  Approval <- Dapps
  Ordered = TRUE
  Locking <- Scenarios
SYMMETRY Symmetry
INVARIANTS
  IndexNeverReused BroadcastHeld CancelledIsFree
  LockHolds UnpublishedStaysLocked NoRevokedKeysAtRest
CHECK_DEADLOCK FALSE
