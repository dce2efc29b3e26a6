\* Two workers, two chats, three events of two sizes against a queue of two
\* events and three bytes; a reconnection and a restart, forward mode.  No
\* symmetry, since liveness is checked.
CONSTANTS
  Chats = {a, b}
  Sizes = {1, 2}
  EventWorkers = 2
  QueueSize = 2
  MaxBytes = 3
  Forward = TRUE
  MaxEvents = 3
  MaxSessions = 2
  MaxStarts = 2
  None = None
SPECIFICATION FairSpec
INVARIANTS
  Consistent
  BytesExact
PROPERTIES
  ChatsAreQueues
  RecallsDoNotWait
  MessagesAreHandled
CHECK_DEADLOCK FALSE
