\* One call over a lossy network, one request given up on at a time.
SPECIFICATION CompletionFairSpec
CONSTANTS
  h1 = h1
  h2 = h2
  TheId = i1
  Id <- OneId
  Handler <- TwoHandlers
  MaxSpawns = 1
INVARIANTS
  ResultFollowsAck
  OutcomeUnlessAckLost
PROPERTIES
  CallReturns
\* The call returns and the daemon idles.
CHECK_DEADLOCK FALSE
