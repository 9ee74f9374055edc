SPECIFICATION MCSpec
CONSTANTS
  None = None
  w1 = w1  w2 = w2
  p1 = p1  p2 = p2  r1 = r1
  thor = thor  nonlogs = nonlogs
  Window <- Windows
  Claimer <- InFlight
  Scanned = TRUE
  MaxTries = 3
  MaxLost = 3
  MaxBackups = 1
  Payment <- InFlight
  Coin <- Coins
  Refresh <- Refreshes
  Worth = 2
  Cost = 3
  Overlap = FALSE
  Scenario <- Scenes
  Task <- InFlight
  Swap <- Swaps
  Memo <- Vaults
  Drafts <- Behaviours
SYMMETRY Symmetry
INVARIANTS
  KeptUnlessDiscarded SuccessIsPaid ClawedBackIsReturned
  InFlightIsCovered NoInputTwice SentIsDeducted
  VaultPaidWithMemo TxidIsDeposit ExchangeKept
CHECK_DEADLOCK FALSE
