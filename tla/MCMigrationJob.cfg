CONSTANTS
    j1 = j1
    j2 = j2
    u1 = u1
    u2 = u2
    w1 = w1
    owner = owner
    Maintainer = maintainer
    Self = self
    Old = Old
    None = None
    Jobs = {j1, j2}
    Users = {u1, u2}
    Workspaces = {w1}
    Names = {owner, maintainer, self}
    Members <- OneWorkspace
    Disabled <- U2Disabled
    Recorded <- U2Only
    Known <- OwnerOnly
    MaxServed = 1
SPECIFICATION FairSpec
CHECK_DEADLOCK FALSE
INVARIANTS
    RecordedIsDone
    NoDuplicates
    RolesMigrated
PROPERTIES
    VersionsInOrder
    JobsEnd
