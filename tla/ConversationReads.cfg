SPECIFICATION ReadsSpec
CONSTANTS
  m1 = m1
  m2 = m2
  m3 = m3
  t = t
  Messages = {m1, m2, m3}
  Window = 1
  Buffer = 2
  Capacity = 1
  MaxTime = 3
  Turns = {t}
  Current <- MCCurrent
  Tools = {q}
  Expansions = {x}
  None = None
  Limit = 1
  MaxNodes = 1
  PageSize = 2
  MaxReads = 2
SYMMETRY Symmetry
INVARIANTS
  ReadsTypeOK
  NothingRecalledShown
PROPERTIES
  NewestKept
CHECK_DEADLOCK FALSE
