SPECIFICATION Spec
CONSTANTS
  Computers = {1, 2, 3, 4}
  Links <- Ring
  Services = {"lock"}
  LocalServices <- OnFour
  Messages = {1}
  From <- FromOne
  Server <- AnyOne
  Service <- LockOne
  AnyServer = 0
  IPv6 = FALSE
  NotCached = {}
  CacheTTL <- TTLOne
  BroadcastTTL = 1
  MaxHops = 5
  MaxTime = 0
  MaxRestarts = 0
INVARIANT IgnoredIfReceived
CHECK_DEADLOCK FALSE
