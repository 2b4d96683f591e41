SPECIFICATION FairSpec
CONSTANTS
  MaxSockets = 3
  MaxMessages = 3
INVARIANTS
  TypeOK
  OneMessenger
  QuickStop
  CacheInOrder
  NothingDangles
PROPERTIES
  NoThreadLost
  EventuallyConnected
  ServiceEnds
CHECK_DEADLOCK FALSE
