SPECIFICATION Spec
CONSTANTS
  Window = {w1, w2}
  Mark = {send}
  Dropped = {send}
  NoCache = NoCache
  NoWindow = NoWindow
  Content <- MCContent
  Default <- MCDefault
  Mutator <- MCMutator
  Upgrade <- MCUpgrade
  InitVersion = {"none", "older", "newer"}
  Runtimes = {TRUE, FALSE}
  LockMayExpire = TRUE
  MaxOwnWrites = 1
  MaxUpdates = 3
  MaxOpens = 1
  MaxReadFailures = 1
  MaxWriteFailures = 1
SYMMETRY Symmetric
INVARIANTS ConvergedAtRest
PROPERTIES CacheNeverGoesBack
CHECK_DEADLOCK FALSE
