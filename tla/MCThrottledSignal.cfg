CONSTANTS
    Emitters = {e1, e2}
    None = None
    MaxEmits = 4
SPECIFICATION FairSpec
INVARIANTS
    TypeOK
    JoinsFinishedThread
    DestroyDeliversAll
PROPERTIES
    DeliversInOrder
    CallsReturn
CHECK_DEADLOCK FALSE
