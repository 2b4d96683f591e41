SPECIFICATION Spec
CONSTANTS
  Computers = {1, 2}
  Priority <- SamePriority
  PRIORITY_OFF = 15
  RandomIds = {1, 2}
  Requests = {1}
  At <- AtLast
  MaxFaults = 2
INVARIANTS
  TypeOK
  LeadersKnown
  QuietAgreement
  CacheReplayed
  QuietReady
PROPERTY SameElection
CHECK_DEADLOCK FALSE
