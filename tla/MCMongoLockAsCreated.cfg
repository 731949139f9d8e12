CONSTANTS
    h1 = h1
    h2 = h2
    c1 = c1
    c2 = c2
    c3 = c3
    None = None
    Hosts = {h1, h2}
    Callers = {c1, c2, c3}
    HostOf <- SharedHost
    MaxCalls = 1
    Faults = FALSE
SPECIFICATION Spec
CHECK_DEADLOCK FALSE
INVARIANTS
    MutualExclusion
