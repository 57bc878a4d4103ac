SPECIFICATION FairSpec
CONSTANTS
  Key = {k1}
  Viewer = {v1, v2}
  None = None
  Buffer = 1
  MaxEpoch = 2
INVARIANTS
  AttachedHasFeed
  SingleSubscriber
  NoOrphanSubscription
PROPERTIES
  WaitersReleased
  ClosedSessionsEnd
CHECK_DEADLOCK FALSE
