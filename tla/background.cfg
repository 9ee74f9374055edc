SPECIFICATION MCSpec
CONSTANTS
  None = None
  btc = btc  xmr = xmr  note = note  payment = payment
  Request <- Requests
  Asset <- Assets
  Kind <- Kinds
  Grantable = {note}
  MaxRemovals = 1
  q1 = q1  q2 = q2  q3 = q3  q4 = q4  q5 = q5
  site = site  stranger = stranger
  Origin = {site, stranger}
  Prompt <- FivePrompts
  OriginOf <- From
  Connected = {site}
  MaxQueued = 1
  MaxPrompts = 1
  RateWindow = 1
  EarlyDismissal = TRUE
  Prompts <- Crowds
  m1 = m1  m2 = m2  home = home
  Mount <- Mounts
  Backend = {home, other}
  HasOffscreen = TRUE
  SignIns <- Scenes
SYMMETRY Symmetry
INVARIANTS
  OnlyApproved NothingLost
  OneWindow QueueBounded AnswerIsUsers OpeningsBounded
  TokenFitsWindow NothingLeftAtRest
PROPERTIES FinishedIsFinal
CHECK_DEADLOCK FALSE
