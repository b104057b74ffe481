\* One id used twice, two requests at a time.
SPECIFICATION FairSpec
CONSTANTS
  i1 = i1
  h1 = h1
  h2 = h2
  Id <- OneId
  Handler <- TwoHandlers
  MaxSpawns = 2
INVARIANTS
  OutcomeKept
  PollMisledOnlyByAck
PROPERTIES
  LifecycleImplemented
  FinishedIsAnnounced
\* With its execs collected and the bound on spawns reached the daemon idles.
CHECK_DEADLOCK FALSE
