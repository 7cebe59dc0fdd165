CONSTANTS
  Events = {e1, e2}
  Tasks = {t1, t2}
  MaxAttempts = 2
  MaxFaults = 2
  NoTask = NoTask
  NoMsg = NoMsg
SPECIFICATION FairSpec
INVARIANTS
  MarkerImpliesProcessed
  NothingLost
  DeadOnlyAfterAllAttempts
PROPERTIES
  ImplementsOnceEffect
  EventuallySettled
CHECK_DEADLOCK FALSE
