SPECIFICATION Spec
CONSTANTS
  Operation = {1, 2}
  NewState = {}
  NewOutcome = {}
  None = 0
CHECK_DEADLOCK FALSE
INVARIANT QueuedIsFound
