SPECIFICATION FairSpec
CONSTANTS
  Caller = {c1, c2}
  Kind = {"get", "register", "delete_latest", "too_big"}
  Content = {x}
  MaxRetries = 1
  Ceiling = 1
  MaxVersions = 3
  MaxLate = 2
  None = None
INVARIANTS
  PermitsConserved
  EffectsBounded
PROPERTIES
  FailsOnlyWhenSpent
  RequestsReturn
