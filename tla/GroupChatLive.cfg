\* One room, whose requests, unasked answers and invited conversation compete for
\* its lock.  The system stops when it is closed or no message is left.
SPECIFICATION FairSpec
CONSTANTS
  r1 = r1
  r2 = r2
  m1 = m1
  m2 = m2
  m3 = m3
  Rooms <- MCOneRoom
  Messages <- MCMessages
  MaxPending = 2
  Slots = 1
PROPERTIES
  RequestsConclude
CHECK_DEADLOCK FALSE
