SPECIFICATION FairSpec
CONSTANTS
  Procs = {p1, p2, p3}
  Keys = {k1, k2}
  Entries = {e1, e2, e3}
  Nil = Nil
  MaxCalls = 2
INVARIANT MapHoldsOnlyUsed
PROPERTIES Serializes LockReturns
CHECK_DEADLOCK FALSE
