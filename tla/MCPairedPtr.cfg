CONSTANTS
    Loc = {l1, l2, l3, l4, l5}
    NULL = NULL
SPECIFICATION CarefulSpec
INVARIANTS
    PairTypeOK
    Symmetric
PROPERTIES
    MovesKeepLinks
