SPECIFICATION FairSpec
CONSTANTS
  Operation = {1, 2}
  None = 0
  Thread = {1, 2}
  MaxWorkers = 2
INVARIANT TypeOK
INVARIANT OneReport
INVARIANT ActiveIsSimulated
INVARIANT SimulatedIsActive
CHECK_DEADLOCK FALSE
PROPERTY ActiveIsReported
PROPERTY CallbacksReturn
