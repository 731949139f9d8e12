CONSTANTS
    a1 = a1
    a2 = a2
    a3 = a3
    r1 = r1
    r2 = r2
    r3 = r3
    None = None
    Left = Left
    Requests = {r1, r2}
    Admins = {a1, a2, a3}
    Bootstrap = {a1}
    Seeded = {a1}
    CerbosConfigured = TRUE
    Operations <- AllOperations
    AssignableRoles = {"system_admin"}
SPECIFICATION Spec
SYMMETRY Symmetry
INVARIANTS
    ApprovedHasRole
    ApproverWasTrusted
PROPERTIES
    RevocationSticks
