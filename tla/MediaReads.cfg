SPECIFICATION Spec
CONSTANTS
  m1 = m1
  m2 = m2
  Messages = {m1, m2}
  Attachments = {m1, m2}
  MessageOf <- MCMessageOf
  Current = m1
  Nested = {m2}
  Locators = {1}
  Ttl = 2
  MaxEntries = 1
  Ahead = 0
  Skew = 0
  MaxTime = 3
  MaxIds = 2
  Turns = {t}
  Tools = {q}
  Transfers = {t, q, x}
  Threads = {w}
  Nobody = Nobody
  CacheMax = 2
  CacheTtl = 1
  MaxFiles = 3
  MaxBytes = 2
  MaxTurnBytes = 3
  MaxAttachments = 2
INVARIANTS
  TypeOK
  RecallIsFinal
  QuotaHolds
  TurnBudget
  NothingLeaks
PROPERTIES
  NothingRecalledGiven
CHECK_DEADLOCK FALSE
