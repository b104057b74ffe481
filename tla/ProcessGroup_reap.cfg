\* What reap_group_on_exit says of the processes left behind.
SPECIFICATION Spec
CONSTANTS
  k1 = k1
  MaxProcs = 3
  TimedProcs = 3
  Options <- ReapOrPoweroff
  Killer <- OneKiller
INVARIANT
  ReapLeavesNothing
\* Processes exit and tasks end: the system may stop.
CHECK_DEADLOCK FALSE
