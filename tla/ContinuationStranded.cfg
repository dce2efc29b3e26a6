\* One request and two supplements: the second arrives during a decision that is
\* not convincing, and the worker ends without a look at it.
CONSTANTS
  Rooms = {r1}
  Messages = {m1, m2}
  ByAdmin = {m1}
  MaxPending = 2
  MaxAccepted = 1
  MaxBatch = 2
  MaxInvitations = 1
SPECIFICATION FairSpec
PROPERTIES
  LeftForNextBatch
CHECK_DEADLOCK FALSE
