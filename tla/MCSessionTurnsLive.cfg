SPECIFICATION FairSpec
CONSTANTS
  Posts = {p1}
  Triggers = {t1}
  Workers = {w1}
  None = None
  MaxRetry = 1
  MaxFailures = 1
  MaxInterrupts = 1
  MaxDrains = 1
  MaxCallbacks = 0
PROPERTY TurnReleased
CHECK_DEADLOCK FALSE
