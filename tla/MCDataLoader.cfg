CONSTANTS
    Keys = {k1, k2, k3}
    Loads = {l1, l2, l3}
    MaxBatch = 2
    Missing = {k1, k2}
    Nil = Nil
    Unset = Unset
SPECIFICATION FairSpec
CHECK_DEADLOCK FALSE
INVARIANTS
    OwnValue
    EndedOnce
    BatchWithinLimit
PROPERTIES
    KeysFrozen
    NoRefetch
    EveryLoadReturns
