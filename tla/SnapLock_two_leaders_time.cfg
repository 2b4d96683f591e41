SPECIFICATION FairSpec
CONSTANTS
  Leaders = {1, 2}
  Clients = {1, 2}
  NoLeader = 0
  MaxRequests = 1
  MaxTicket = 100
  SNAP_LOCK_MINIMUM_TIMEOUT = 1
  SNAP_UNLOCK_MINIMUM_TIMEOUT = 1
  SNAP_MAXIMUM_TIMEOUT = 5
  Home <- HomeProxy
  MaxTime = 3
  Obtentions = {2}
  Durations = {2}
  UnlockDurations <- UnlockDefault
INVARIANTS
  HeldIsLocked
  GrantStands
PROPERTIES
  ImplementsExclusiveLock
  TicketsExpire
CHECK_DEADLOCK FALSE
