\* A leader and two descendants: one to fork the other while /proc is read.
\* An exec with a timeout has one, and its leader may ignore SIGTERM.
SPECIFICATION FairSpec
CONSTANTS
  k1 = k1
  MaxProcs = 3
  TimedProcs = 2
  Options <- AnyOptions
  Killer <- OneKiller
INVARIANTS
  PoweroffAfterGroup
  SignalledAreSettled
PROPERTIES
  TimedOutExecEnds
\* Processes exit and tasks end: the system may stop.
CHECK_DEADLOCK FALSE
