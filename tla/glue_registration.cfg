SPECIFICATION FairSpec
CONSTANTS
  Client = {c1, c2}
  Definition = {d1, d2}
  Patience = 2
  MaxVersions = 2
  None = None
INVARIANTS
  ReturnsOwnAvailable
  RacersAllRegister
PROPERTIES
  CallsReturn
CHECK_DEADLOCK FALSE
