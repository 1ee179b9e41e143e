SPECIFICATION Spec
CONSTANTS
    T1 = T1
    W1 = W1
    E1 = E1
    c1 = c1
    c2 = c2
    r1 = r1
    None = None
    Tenants = {T1}
    Workspaces = {W1}
    Environments = {E1}
    Patterns = {"*", "pay*"}
    Namespaces = {"pay", "chat"}
    Covers <- MCCovers
    Length <- MCLength
    Scopes <- MCScopes
    Keys <- MCKeys
    Questions <- MCQuestions
    Calls = {c1, c2}
    Readers = {r1}
    MaxVersions = 2
    MaxRows = 3
SYMMETRY IdSymmetry
INVARIANTS
    TypeOK
    VersionsNumbered
    
CHECK_DEADLOCK FALSE
