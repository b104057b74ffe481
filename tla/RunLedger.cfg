\* One run of either command, a terminate and a prune, and writes that tear.
SPECIFICATION LedgerSpec
CONSTANTS
  Run = {1}
  Kinds = {"run", "agent"}
  Overlap = 1
  Torable = TRUE
  Cleaners = {"terminate", "prune"}
  NoRun = NoRun
INVARIANTS
  LiveIsRecorded
PROPERTIES
  PruneSparesOutstanding
\* Every command may have ended.
CHECK_DEADLOCK FALSE
