SPECIFICATION FairSpec
CONSTANTS
  Doc <- MCDoc
  Root = "r"
  Name <- MCName
  Registries <- MCRegistries
  MaxDepth = 3
  MaxReferences = 3
  None = None
INVARIANTS
  ClosureIsExact
  DefinitionsFirst
  NothingIsLost
  CycleIsReal
  OrderedStaysPut
PROPERTIES
  Terminates
CHECK_DEADLOCK FALSE
