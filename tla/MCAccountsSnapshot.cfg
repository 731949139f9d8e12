CONSTANTS
    i1 = i1
    i2 = i2
    i3 = i3
    s1 = s1
    s2 = s2
    e1 = e1
    e2 = e2
    r1 = r1
    r2 = r2
    r3 = r3
    None = None
    IDs = {i1, i2, i3}
    Subjects = {s1, s2}
    Emails = {e1, e2}
    Identities <- TwoEmailsOfOne
    Requests = {r1, r2}
    Operations <- AllButUpdateBySub
    Transactions = "snapshot"
SYMMETRY Interchangeable
SPECIFICATION Spec
CHECK_DEADLOCK FALSE
INVARIANTS
    UserAndHome
PROPERTIES
    ImplementsDirectory
