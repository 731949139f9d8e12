CONSTANTS
    u1 = u1
    u2 = u2
    u3 = u3
    r1 = r1
    r2 = r2
    team = team
    side = side
    home = home
    i1 = i1
    Integrations = {}
    None = None
    Users = {u1, u2, u3}
    Workspaces = {team, home}
    Personal = {home}
    Seeded <- SeededHome
    Trusted = {}
    Requests = {r1, r2}
    Calls <- GuardedCalls
    CerbosConfigured = FALSE
    Transactions = "readCommitted"
SYMMETRY Interchangeable
SPECIFICATION Spec
PROPERTY OwnerKept
