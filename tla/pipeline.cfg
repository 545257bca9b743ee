SPECIFICATION Spec
CONSTANTS
  Task = {t1, t2}
  Config <- SomeConfigs
  Text = {"mine", "other"}
  Own = "mine"
  Capacity = 1
  MaxIds = 2
  MaxRecords = 1
  None = None
  NotFound = NotFound
SYMMETRY TaskSymmetry
INVARIANTS
  DecodesAsWritten
  PicksUpNewer
  OneKeyPerSubject
PROPERTIES
  NeverWritesUnasked
