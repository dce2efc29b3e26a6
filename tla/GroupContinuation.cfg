\* One room, a request that replaces another, three supplements of two kinds of
\* authors, a batch and a queue that the third overflows, and an accepted list
\* that evicts.
CONSTANTS
  Rooms = {r1}
  Messages = {m1, m2, m3}
  ByAdmin = {m1}
  MaxPending = 2
  MaxAccepted = 1
  MaxBatch = 2
  MaxInvitations = 2
SPECIFICATION FairSpec
INVARIANTS
  TypeOK
  NeverReplayed
  PrivilegeNeverReturns
  RecalledIsForgotten
PROPERTIES
  LaterInputSurvives
  InputIsAssessed
CHECK_DEADLOCK FALSE
