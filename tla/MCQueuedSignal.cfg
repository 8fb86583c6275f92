CONSTANTS
    Threads = {t1, t2}
    Signals = {s1, s2}
    None = None
    MaxEmits = 3
SPECIFICATION Spec
INVARIANTS
    TypeOK
    NoDanglingSignal
    DestroyDeliversAll
PROPERTIES
    DeliversInOrder
CHECK_DEADLOCK FALSE
