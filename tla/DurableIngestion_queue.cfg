CONSTANTS
  Loop = {l1, l2}
  Stopper = {sigint, sigterm}
  MaxQueueDepth = 1
  MaxRetries = 1
  MaxOffers = 3
SPECIFICATION ClockSpec
INVARIANT NoStrandedJob
INVARIANT ClosedUnlessWriteFailed
INVARIANT PublishedIsCurrent
PROPERTY KeepsContract
PROPERTY StopTerminates
PROPERTY EveryJobSettles
CHECK_DEADLOCK FALSE
