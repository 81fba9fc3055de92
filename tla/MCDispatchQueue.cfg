SPECIFICATION QueueSpec
CONSTANTS
  a = a
  b = b
  c = c
  None = None
  Operation <- MCOperation
  SortKey = {1, 2}
  MayDependOn <- AcyclicDependencies
  ReAdd = FALSE
INVARIANT QueueTypeOK
INVARIANT OneBucket
INVARIANT ProvidersFirst
PROPERTY OrderIsKept
