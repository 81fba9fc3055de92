SPECIFICATION FairSpec
CONSTANTS
  Operation = {1, 2}
  NewState = {}
  NewOutcome = {"SUCCESS"}
  None = 0
INVARIANT TypeOK
INVARIANT SteadyIsNotMissed
INVARIANT CancelledOnce
PROPERTY RequestsAreAnswered
CHECK_DEADLOCK FALSE
