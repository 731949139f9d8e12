CONSTANTS
    a1 = a1
    a2 = a2
    a3 = a3
    r1 = r1
    r2 = r2
    r3 = r3
    None = None
    Left = Left
    Requests = {r1, r2, r3}
    Admins = {a1, a2, a3}
    Bootstrap = {}
    Seeded = {a1, a2, a3}
    CerbosConfigured = TRUE
    Operations = {"setRole"}
    AssignableRoles = {"viewer"}
SPECIFICATION FairSpec
INVARIANTS
    SystemAdminRemains
PROPERTIES
    RequestsEnd
