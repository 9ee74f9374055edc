SPECIFICATION Spec
CONSTANTS w1=w1 w2=w2 c1=c1 c2=c2 None=None
 Window <- Windows
 Claimer <- Claimers
 Scanned = TRUE
 MaxTries = 3
 MaxLost = 3
 MaxBackups = 0
SYMMETRY Symmetry
INVARIANTS FundedTipRecoverable
CHECK_DEADLOCK FALSE
