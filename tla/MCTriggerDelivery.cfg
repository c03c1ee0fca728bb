SPECIFICATION Spec
CONSTANTS
  first = first
  second = second
  label = label
  d1 = d1
  d2 = d2
  d3 = d3
  d4 = d4
  d5 = d5
  Events <- MCEvents
  Stable <- MCStable
  Reviews <- MCReviews
  Suites <- MCSuites
  HeadOf <- MCHeadOf
  Deliveries <- MCDeliveries
  EventOf <- MCEventOf
  ClaimOf <- MCClaimOf
  Routed <- MCRouted
  None = None
  MaxFaults = 1
  MaxTasks = 2
INVARIANTS OnceEach Kept
PROPERTIES Sealed Delivered
