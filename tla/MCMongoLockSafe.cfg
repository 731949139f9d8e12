CONSTANTS
    h1 = h1
    h2 = h2
    c1 = c1
    c2 = c2
    c3 = c3
    None = None
    Hosts = {h1, h2}
    Callers = {c1, c2, c3}
    HostOf <- SharedHost
    MaxCalls = 2
    Faults = TRUE
SPECIFICATION Spec
CHECK_DEADLOCK FALSE
INVARIANTS
    TypeOK
    OwnsDocument
PROPERTIES
    OthersKept
    ImplementsMutex
