CONSTANTS
    Threads = {t1, t2}
    MaxConnects = 3
    Priorities = {0, 1}
    None = None
    MaxEmits = 2
    MaxSettings = 1
    Synchronised = TRUE
SPECIFICATION FairSpec
INVARIANTS
    TypeOK
    PairsAgree
    NoCallAfterDisconnect
    EmissionExact
    PriorityOrder
PROPERTIES
    EveryEmitReturns
CHECK_DEADLOCK FALSE
