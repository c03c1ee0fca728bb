SPECIFICATION Spec
CONSTANTS
  Inbound = {r1, r2, r3, r4, s1}
  Scheduled = {s1}
  None = None
  MaxRegular = 1
  MaxInterrupts = 1
  MaxSubagents = 0
  MaxPanics = 0
SYMMETRY Symmetry
INVARIANTS OneLoopOutsideGap RunOnce InOrder ScheduledNotStarved
CHECK_DEADLOCK FALSE
