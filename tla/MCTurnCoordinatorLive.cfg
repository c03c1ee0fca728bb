SPECIFICATION FairSpec
CONSTANTS
  Inbound = {r1, r2, s1}
  Scheduled = {s1}
  None = None
  MaxRegular = 1
  MaxInterrupts = 1
  MaxSubagents = 1
  MaxPanics = 1
INVARIANTS Accounted InterruptedOnRequest
PROPERTIES Settled FateFinal
CHECK_DEADLOCK FALSE
