SPECIFICATION FairSpec
CONSTANTS
  Leaders = {1, 2}
  Clients = {1, 2}
  NoLeader = 0
  MaxRequests = 2
  MaxTicket = 100
  SNAP_LOCK_MINIMUM_TIMEOUT = 1
  SNAP_UNLOCK_MINIMUM_TIMEOUT = 1
  SNAP_MAXIMUM_TIMEOUT = 5
  Home <- HomeMixed
  MaxTime = 0
  Obtentions = {2}
  Durations = {1}
  UnlockDurations <- UnlockDefault
INVARIANTS
  TypeOK
  MutualExclusion
  LockedIsFirst
  TablesAgree
  FirstIsLocked
  WaitsForSomeone
PROPERTIES
  EveryRequestServed
CHECK_DEADLOCK FALSE
