SPECIFICATION FairSpec
CONSTANTS
  Caller = {t1, t2}
  None = None
  MaxStarts = 2
INVARIANT TypeOK
INVARIANT OneRun
PROPERTY StopReachesTheRun
PROPERTY EveryCallReturns
\* Two callers that a closing loop strands, one with the lock: no more steps.
CHECK_DEADLOCK FALSE
