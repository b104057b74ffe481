\* A call that reuses what it can and one that forces a rebuild.
SPECIFICATION FairSpec
CONSTANTS
  c1 = c1
  f1 = f1
  Caller <- TwoCallers
  Forced <- OneForced
  DeleteAttempts = 2
INVARIANTS
  ForcedReturnsFresh
  UnforcedPullIsStale
  ReturnedIsBuilt
PROPERTIES
  EnsureReturns
\* Every call may have ended.
CHECK_DEADLOCK FALSE
