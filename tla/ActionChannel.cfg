\* Two attachments, two logins and an ordinary call; reverse mode, where a session
\* may arrive while stop() is under way.  No symmetry, since liveness is checked.
CONSTANTS
  Calls = {c1, c2, c3}
  NoCall = NoCall
  MaxEpoch = 2
  Forward = FALSE
SPECIFICATION FairSpec
INVARIANTS
  UntouchedMeansNoEffect
  OnlyVerifiedPeers
  StopIsClean
PROPERTIES
  DeliverySpec
  LostCallsConclude
CHECK_DEADLOCK FALSE
