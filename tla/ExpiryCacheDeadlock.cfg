CONSTANTS
    Users = {u1}
    Keys = {k1}
    None = None
    Durations <- NoOrSome
    MaxTime = 1
    MaxPuts = 1
SPECIFICATION FairSpec
PROPERTIES
    DestructionEnds
CHECK_DEADLOCK FALSE
