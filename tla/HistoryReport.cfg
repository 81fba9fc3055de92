SPECIFICATION Spec
CONSTANTS
  Operation = {a}
  None = None
  EventHistoryLimit = 3
  DefaultDuration = 1
  NewState = {"RUNNING"}
  NewTime = {0}
  MaxTime = 2
  MaxEmitted = 6
INVARIANT UptimeIsExact
INVARIANT PausedTimeIsExact
INVARIANT RowsTile
INVARIANT DispatcherRowsAreTrue
CHECK_DEADLOCK FALSE
