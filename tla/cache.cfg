SPECIFICATION FairSpec
CONSTANTS
  Task = {t1, t2, t3}
  Key = {k1, k2}
  Tag = {g1}
  Predicate <- ByTag
  MaxEntries = 1
  MaxGeneration = 1
  MaxToken = 2
  Invalidator = {t1}
  Inserter = {t2}
  None = None
  Failed = Failed
  Cancelled = Cancelled
INVARIANTS
  WaiterIsOwed
  StoreConsistent
PROPERTIES
  LosesSlotToOwnKey
  FreshClaim
  OnlyClaimedComesBack
  KeepsPromise
  CallsReturn
