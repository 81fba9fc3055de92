SPECIFICATION Spec
CONSTANTS
  a = a
  b = b
  None = None
  Operation <- MCOperation
  MayDependOn <- NoDependencies
  ReAdd = FALSE
  SortKey = {1}
  MaxRetries = 2
  Deniable = {"CANCEL", "RESUME"}
  UpdatableFields = {"release_date"}
  Callers = {}
SYMMETRY AnyOrder
INVARIANT StateAgreesWithBucket
INVARIANT ExhaustedMeansPaused
