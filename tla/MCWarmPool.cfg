SPECIFICATION Spec
CONSTANTS
  Sandboxes = {s1, s2}
  Checkers = {c1, c2}
  None = None
  MaxWant = 2
  MaxSlots = 2
  MaxQueued = 1
  MaxTrouble = 1
  MaxChanges = 1
INVARIANTS OneHolder HeldAlive LeakFree NotOverfilled
PROPERTY Reclaimed
