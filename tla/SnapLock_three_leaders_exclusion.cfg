SPECIFICATION Spec
CONSTANTS
  Leaders = {1, 2, 3}
  Clients = {1, 2}
  NoLeader = 0
  MaxRequests = 1
  MaxTicket = 100
  SNAP_LOCK_MINIMUM_TIMEOUT = 1
  SNAP_UNLOCK_MINIMUM_TIMEOUT = 1
  SNAP_MAXIMUM_TIMEOUT = 5
  Home <- HomeSplit
  MaxTime = 0
  Obtentions = {2}
  Durations = {1}
  UnlockDurations <- UnlockDefault
INVARIANTS
  MutualExclusion
CHECK_DEADLOCK FALSE
