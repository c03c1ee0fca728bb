CONSTANTS
    Projectors = {p1, p2}
    Sessions = {s1, s2}
    None = None
    BatchSize = 2
    MaxEntries = 3
    MaxQuiet = 1
    MaxTrouble = 2
SPECIFICATION Spec
INVARIANT AckedProjected
PROPERTY AllProjected
