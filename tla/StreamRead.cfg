\* A file of two chunks, the second one short; a buffer that holds most of the
\* answer but not all of it; two connections.
CONSTANTS
  ChunkSize = 2
  Limit = 3
  MaxBuffer = 3
  MaxEpoch = 2
SPECIFICATION FairSpec
INVARIANTS
  TypeOK
  WholeFile
  FallbackOnlyUntouched
  HonestNotRefused
PROPERTIES
  LapsedForGood
  LostReadsEnd
CHECK_DEADLOCK FALSE
