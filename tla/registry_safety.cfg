SPECIFICATION Spec
CONSTANTS
  Task = {t1, t2}
  Item = {x1, x2}
  Known = {x1}
  Op = {"id", "guid", "latest", "warm", "delete", "clear"}
  Guids = TRUE
  SubjectInIdAnswers = TRUE
  MaxEntries = 1
  MaxGeneration = 2
  MaxDeletions = 1
  None = None
  Failed = Failed
SYMMETRY TaskSymmetry
INVARIANTS
  DeletedIsDropped
PROPERTIES
  SubjectReadsStayCurrent
  CallFillsBothIndexes
