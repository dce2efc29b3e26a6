\* One worker, a reconnection to another account, and a second start.
CONSTANTS
  Chats = {a, b}
  Sizes = {1}
  EventWorkers = 1
  QueueSize = 2
  MaxBytes = 3
  Forward = TRUE
  MaxEvents = 2
  MaxSessions = 2
  MaxStarts = 2
  None = None
SPECIFICATION Spec
INVARIANTS
  AtMostEventWorkers
CHECK_DEADLOCK FALSE
