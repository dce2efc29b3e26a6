SPECIFICATION FairSpec
CONSTANTS
  v = v
  b = b
  Uploads = {v, b}
  Chunks = 2
  MaxConcurrent = 1
  MaxPending = 2
  MaxEpoch = 2
  MaxVersion = 2
  Parts <- MCParts
  MediaAt <- MCMediaAt
  Files = {v, b}
  Borrowed = {v}
  Bundles = {b}
  Hosted = {b}
  Nobody = Nobody
INVARIANTS
  TypeOK
  HonestReport
PROPERTIES
  WritesWhatIsStaged
  DeliveriesEnd
CHECK_DEADLOCK FALSE
