\* A log of two entries, which the third request finds full.
SPECIFICATION FairSpec
CONSTANTS
  d1 = d1
  d2 = d2
  d3 = d3
  t1 = t1
  t2 = t2
  Delivery <- ThreeDeliveries
  Token <- TwoTokens
  Malformed = Malformed
  NoToken = NoToken
  NoDelivery = NoDelivery
  HOOK_LOG_CAP = 2
  Handled = {"run", "suspend"}
  Repairs = TRUE
INVARIANTS
  WinnerTakesAll
  LogIsExact
  AnsweredAfterWork
  RunHandlerRunsOnce
PROPERTIES
  EveryHookEnds
  AcceptedRunGetsReady
\* Every request may have been served.
CHECK_DEADLOCK FALSE
