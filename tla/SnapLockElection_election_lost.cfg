SPECIFICATION Spec
CONSTANTS
  Computers = {1, 2, 3}
  Priority <- SamePriority
  PRIORITY_OFF = 15
  RandomIds = {1}
  Requests = {}
  At <- AtLast
  MaxFaults = 0
INVARIANT QuietReady
CHECK_DEADLOCK FALSE
