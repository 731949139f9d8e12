CONSTANTS
    r1 = r1
    r2 = r2
    r3 = r3
    n1 = n1
    n2 = n2
    p1 = p1
    p2 = p2
    t1 = t1
    t2 = t2
    t3 = t3
    None = None
    Transactions = "snapshot"
    Requests = {r1, r2, r3}
    Names = {n1, n2}
    Passwords = {p1, p2}
    Tokens = {t1, t2, t3}
    Providers = {{"reearth", "auth0"}, {"auth0"}}
    Lifetime = 1
    MaxTime = 2
SYMMETRY Interchangeable
SPECIFICATION Spec
CHECK_DEADLOCK FALSE
INVARIANTS
    MailedIsStored
    NamesAgree
    HomeFollows
PROPERTIES
    OwnFields
    ResetOnce
    StaysVerified
