SPECIFICATION Spec
CONSTANTS
  Computers = {1, 2, 3, 4}
  Links <- Ring
  Services = {"lock"}
  LocalServices <- OnFour
  Messages = {1, 2, 3, 4}
  From <- FromRing
  Server <- ServerRing
  Service <- ServiceRing
  AnyServer = 0
  IPv6 = FALSE
  NotCached = {4}
  CacheTTL <- TTLRing
  BroadcastTTL = 0
  MaxHops = 5
  MaxTime = 1
  MaxRestarts = 1
INVARIANTS
  TypeOK
  DeliveredOnce
  DirectedInOrder
  NothingLost
  BroadcastReaches
CHECK_DEADLOCK FALSE
