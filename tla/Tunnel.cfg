\* Two chunks each way over sockets and a path of one, and one kind of fault in
\* each tunnel.
SPECIFICATION FairSpec
CONSTANTS
  Bytes <- MCBytes
  LocalBytes = 2
  GuestBytes = 2
  Buffer = 1
  Window = 1
  Faults = {{"cut"}, {"close"}, {"abort"}, {"gone"}}
  None = None
INVARIANTS
  TypeOK
  DialledAfterConfirm
  LocalEndIsTrue
  GuestEofIsCompleteUnlessLocalGone
PROPERTIES
  EndReachesBoth
  FinishEndsOrWedges
\* A tunnel ends.
CHECK_DEADLOCK FALSE
