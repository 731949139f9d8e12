CONSTANTS
    c1 = c1
    c2 = c2
    e1 = e1
    e2 = e2
    None = None
    Torn = Torn
    Calls = {c1, c2}
    Enrollments = {e1, e2}
    TTL = 1
    Timeout = 1
    Margin = 4
    Lifetime = 6
    MaxTime = 5
    Left = {0, 5}
    Initially = {{e1}}
SPECIFICATION FairSpec
CHECK_DEADLOCK FALSE
INVARIANTS
    GoodToken
PROPERTIES
    OneFetch
    StatusFresh
    DisableRemoves
    CallsReturn
