SPECIFICATION Spec
CONSTANTS
    T1 = T1
    W1 = W1
    j1 = j1
    j2 = j2
    r1 = r1
    r2 = r2
    r3 = r3
    None = None
    Requests = {r1, r2, r3}
    Scope <- MCScope
    Tenants = {T1}
    Workspaces = {W1}
    Spaces = {"pay", "chat"}
    LastDay = 2
    Jobs = {j1, j2}
    Lists <- MCLists
    Limit = 4
    MaxStatements = 3
SYMMETRY JobSymmetry
INVARIANTS
    TypeOK
    CountsAreWhole
    OverviewAgrees
PROPERTIES
    CountsNeverShrink
CHECK_DEADLOCK FALSE
