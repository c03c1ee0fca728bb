SPECIFICATION Spec
CONSTANTS
  Posts = {p1}
  Triggers = {t1}
  Workers = {w1, w2}
  None = None
  MaxRetry = 1
  MaxFailures = 1
  MaxInterrupts = 1
  MaxDrains = 1
  MaxCallbacks = 1
SYMMETRY Symmetry
INVARIANTS OneDeliverer PostedInOrder PostedOnce Carried
CHECK_DEADLOCK FALSE
