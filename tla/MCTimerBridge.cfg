CONSTANTS
    Pumps = {p1}
    TimerThread = timer
    None = None
    MaxEmits = 2
    MaxStarts = 2
SPECIFICATION FairSpec
INVARIANTS
    TypeOK
    BridgeKeepsPromise
    ArgsUnshared
PROPERTIES
    TimerStops
CHECK_DEADLOCK FALSE
