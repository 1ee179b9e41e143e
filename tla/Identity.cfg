SPECIFICATION Spec
CONSTANTS
    s1 = s1
    h1 = h1
    h2 = h2
    r1 = r1
    T0 = T0
    T1 = T1
    T2 = T2
    W0 = W0
    W1 = W1
    K0 = K0
    K1 = K1
    old = old
    new = new
    x1 = x1
    None = None
    Servers = {s1}
    Configs <- MCConfigs
    Tenants = {T0, T1, T2}
    Workspaces = {W0, W1}
    Keys = {K0, K1}
    Generated = {T1, T2, W1, K1}
    Slugs = {"a", "b"}
    Secrets = {old, new, x1}
    Prefixes = {"mk_dev", old, new, x1}
    KeyPrefix <- MCKeyPrefix
    Roles = {"tenant_admin"}
    Capabilities = {{}}
    Admins = {h1, h2}
    Requests = {r1}
SYMMETRY IdSymmetry
INVARIANTS
    TypeOK
    BootstrapWhole
    KeysAccountedFor
PROPERTIES
    RevokedIsRefused
CHECK_DEADLOCK FALSE
