SPECIFICATION FairSpec
CONSTANTS
  Computers = {1, 2}
  Neighbors <- FirstKnows
  SentFrom <- Own
  f_max_connections = 100
  MaxFaults = 3
  MaxSockets = 7
INVARIANTS
  TypeOK
  OneConnectionPerName
  EndsAgree
  SomeoneTries
  ServicesKnow
PROPERTIES
  EventuallyLinked
CHECK_DEADLOCK FALSE
