SPECIFICATION Spec
CONSTANTS
  Computers = {1, 2, 3, 4, 5, 6, 7, 8}
  Links <- TwoWays
  Services = {"lock"}
  LocalServices <- OnEight
  Messages = {1}
  From <- FromOne
  Server <- AnyOne
  Service <- AllOne
  AnyServer = 0
  IPv6 = FALSE
  NotCached = {}
  CacheTTL <- TTLOne
  BroadcastTTL = 1
  MaxHops = 5
  MaxTime = 0
  MaxRestarts = 0
INVARIANT HopsReach
CHECK_DEADLOCK FALSE
