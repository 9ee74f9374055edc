SPECIFICATION Spec
CONSTANTS
  w1 = w1
  c1 = c1
  c2 = c2
  c3 = c3
  NoAnswer <- Unusable
  Window <- JustOne
  Call <- ThreeCalls
  WindowOf <- AllInOne
  CasAttempts = 3
  MaxMinor = 2
  MaxFailures = 0
INVARIANTS IssueIsConfirmed
CHECK_DEADLOCK FALSE
