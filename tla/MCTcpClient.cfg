CONSTANTS
    Workers = {w1, w2}
    App = app
    None = None
    MaxRequests = 2
    MaxConnects = 2
    Careful = TRUE
SPECIFICATION FairSpec
INVARIANTS
    ServiceKeepsPromise
    PollerIsTold
PROPERTIES
    RequestsEnd
CHECK_DEADLOCK FALSE
