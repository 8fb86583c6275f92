CONSTANTS
    Users = {u1, u2}
    Keys = {k1, k2}
    None = None
    Durations <- AnyDuration
    MaxTime = 3
    MaxPuts = 2
SPECIFICATION FairSpec
INVARIANTS
    TypeOK
    AnnouncedOnce
    FlagMeansThread
PROPERTIES
    NeverEarly
    AutoVacuumCollects
CHECK_DEADLOCK FALSE
