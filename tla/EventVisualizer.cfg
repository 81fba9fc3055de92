SPECIFICATION FairSpec
CONSTANTS
  Publishers = 2
  Connection = {c}
  Total = 3
  MaxEvents = 2
  QueueSize = 1
  Starts = 2
INVARIANT TypeOK
INVARIANT StreamsHaveNoGap
PROPERTY SubscribersEnd
PROPERTY EventsAreShown
CHECK_DEADLOCK FALSE
