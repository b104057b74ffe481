\* Two callers, two ports, a clock that reaches past a token's life, a resume.
SPECIFICATION FairSpec
CONSTANTS
  c1 = c1
  c2 = c2
  agent = agent
  web = web
  Caller <- TwoCallers
  Port <- TwoPorts
  AgentPort = agent
  RefreshAfter = 1
  Timeout = 1
  Lifetime = 3
  MaxTime = 4
  MaxEpoch = 1
  None = None
INVARIANTS
  HandedIsLive
  FreshAfterResumeUnlessRaced
PROPERTIES
  EveryCallEnds
\* The clock may have run out.
CHECK_DEADLOCK FALSE
