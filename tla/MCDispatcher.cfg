SPECIFICATION FairSpec
CONSTANTS
  a = a
  b = b
  None = None
  Operation <- MCOperation
  MayDependOn <- NoDependencies
  ReAdd = FALSE
  SortKey = {1, 2}
  MaxRetries = 2
  Deniable = {"START"}
  UpdatableFields = {"priority"}
  Callers = {"x"}
INVARIANT TypeOK
INVARIANT StateAgreesWithBucket
INVARIANT ExhaustedMeansPaused
INVARIANT NoLostWakeup
PROPERTY PausedStartsNothing
PROPERTY ImplementsSingleResource
PROPERTY WorkIsRequested
PROPERTY StopTakesEffect
