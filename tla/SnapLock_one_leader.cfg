SPECIFICATION FairSpec
CONSTANTS
  Leaders = {1}
  Clients = {1, 2}
  NoLeader = 0
  MaxRequests = 2
  MaxTicket = 100
  SNAP_LOCK_MINIMUM_TIMEOUT = 1
  SNAP_UNLOCK_MINIMUM_TIMEOUT = 1
  SNAP_MAXIMUM_TIMEOUT = 5
  Home <- HomeFirst
  MaxTime = 5
  Obtentions = {2}
  Durations = {2}
  UnlockDurations <- UnlockDefault
INVARIANTS
  NeverThrows
PROPERTIES
  TicketsExpire
CHECK_DEADLOCK FALSE
