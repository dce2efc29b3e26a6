\* Two rooms compete for one model slot and share the queue's bound.  The system
\* stops when it is closed or no message is left.
SPECIFICATION Spec
CONSTANTS
  r1 = r1
  r2 = r2
  m1 = m1
  m2 = m2
  m3 = m3
  Rooms <- MCRooms
  Messages <- MCMessages
  MaxPending = 2
  Slots = 1
INVARIANTS
  TypeOK
  NoCircle
PROPERTIES
  NoReopening
  OnlyWanted
SYMMETRY MCSymmetry
CHECK_DEADLOCK FALSE
