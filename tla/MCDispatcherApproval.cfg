SPECIFICATION Spec
CONSTANTS
  a = a
  b = b
  None = None
  Operation <- MCOperation
  MayDependOn <- NoDependencies
  ReAdd = FALSE
  SortKey = {1, 2}
  MaxRetries = 2
  Deniable = {"START"}
  UpdatableFields = {}
  Callers = {}
PROPERTY StartedWasApproved
