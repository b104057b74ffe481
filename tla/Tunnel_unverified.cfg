\* What verify_identity says of its answer.
SPECIFICATION Spec
CONSTANTS
  Bytes <- MCBytes
  LocalBytes = 1
  GuestBytes = 1
  Buffer = 1
  Window = 1
  Faults = {{"close"}}
  None = None
INVARIANT
  ClosedMeansVerified
\* A tunnel ends.
CHECK_DEADLOCK FALSE
