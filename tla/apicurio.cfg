SPECIFICATION Spec
CONSTANTS
  Client = {c1, c2}
  Subject <- MCSubject
  Invalid = Invalid
  DefaultGroup = "default"
  Global = Global
  Order <- MCOrder
  Text = {x, y, z}
  Level = {l1, l2}
  Latest = Latest
  Call <- MCCall
  Registry <- MCRegistry
  PageSize = 2
  ServerLimit = 2
  MaxSchemaId = 4
  MaxRetries = 1
  MaxGlobalId = 6
  MaxCalls = 3
  None = None
SYMMETRY ClientSymmetry
INVARIANTS
  IdNamesText
  WalkIsComplete
  DeleteIsDone
  RuleIsSet
CHECK_DEADLOCK FALSE
