SPECIFICATION RefSpec
CONSTANTS
  m1 = m1
  m2 = m2
  Messages = {m1, m2}
  Attachments = {m1, m2}
  MessageOf <- MCMessageOf
  Locators = {1}
  Ttl = 5
  MaxEntries = 1
  Ahead = 1
  Skew = 1
  MaxTime = 3
  MaxIds = 2
INVARIANT
  RecallIsFinal
CHECK_DEADLOCK FALSE
