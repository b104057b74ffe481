\* Small ring, channel and head buffer, so that eviction, lag and truncation
\* all happen within three bytes.
SPECIFICATION FairSpec
CONSTANTS
  r1 = r1
  Reader <- OneReader
  Options <- ReaderOptions
  MaxReconnects = 1
  MaxBytes = 3
  BufferCap = 2
  ChannelCap = 1
  OutputCap = 2
INVARIANTS
  EventsContiguous
  NoSilentLossUnlessYields
  ReadIsPublishedUnlessYields
  OutcomeCompleteUnlessYields
PROPERTIES
  StreamEnds
\* An exec ends and its streams end: the system may stop.
CHECK_DEADLOCK FALSE
