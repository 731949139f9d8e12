CONSTANTS
    u1 = u1
    u2 = u2
    u3 = u3
    team = team
    side = side
    home = home
    i1 = i1
    Integrations = {i1}
    None = None
    r1 = r1
    r2 = r2
    Users = {u1, u2, u3}
    Workspaces = {team, side}
    Personal = {}
    Seeded <- SeededTeam
    Requests = {r1, r2}
    Calls <- MemberCalls
    CerbosConfigured = TRUE
    Transactions = "snapshot"
    Trusted = {u3}
SYMMETRY Interchangeable
SPECIFICATION Spec
INVARIANTS
    RolesAgree
PROPERTIES
    OnlyTransferGrantsOwner
    NoSelfPromotion
    LastOwnerStays
    ServedOneByOne
