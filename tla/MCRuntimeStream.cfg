CONSTANTS
    Permits = {d1, d2}
    None = None
    MaxEvents = 2
    MaxBoxes = 2
    MaxAttempts = 2
    MaxFaults = 1
    MaxLapses = 1
    MaxCrashes = 1
    MaxExpiries = 1
SPECIFICATION Spec
INVARIANTS DeliveredAccepted NoHole
PROPERTIES SettledStays ImplementsEventLog Drains
