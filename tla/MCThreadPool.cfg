CONSTANTS
    Workers = {w1, w2}
    Clients = {c1, c2}
    None = None
    MaxTasks = 4
SPECIFICATION FairSpec
INVARIANTS
    TypeOK
    NoSleepOverWork
PROPERTIES
    KeepsPromise
    DestructionEnds
    EveryTaskRuns
CHECK_DEADLOCK FALSE
