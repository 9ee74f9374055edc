SPECIFICATION MCSpec
CONSTANTS
  w1 = w1  w2 = w2
  c1 = c1  c2 = c2  c3 = c3
  NoAnswer <- Unusable
  Window <- Windows
  Call <- ThreeCalls
  WindowOf <- ThirdApart
  CasAttempts = 2
  MaxMinor = 3
  MaxFailures = 1
  t1 = t1  t2 = t2
  home = home  other = other
  None = None
  Backend <- Backends
  Default = home
  Task <- Runs
  Sittings <- Scenarios
  r1 = r1  r2 = r2  r3 = r3  r4 = r4
  site = site
  Prompt <- FourPrompts
  Origin <- Sites
  Connected <- Sites
  OriginOf <- AllOneSite
  MaxQueued = 1
  MaxPrompts = 1
  RateWindow = 1
  EarlyDismissal = FALSE
  Prompts <- Crowds
INVARIANTS
  DistinctInOneWindow ShownWithinLastAnswer IssuedWithinSomeAnswer
  ClientFitsBackend NumbersFitBackend
PROPERTIES AdvancesInOneWindow AdvanceSettles Follows RequestSettles DecisionArrives
CHECK_DEADLOCK FALSE
