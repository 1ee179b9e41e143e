SPECIFICATION Spec
CONSTANTS
    h1 = h1
    h2 = h2
    t1 = t1
    t2 = t2
    p1 = p1
    b1 = b1
    b2 = b2
    a1 = a1
    ref = ref
    NoPeriod = NoPeriod
    TenantOf <- MCTenantOf
    Savings <- MCSavings
    Cost <- MCCost
    PeriodTenant <- MCPeriodTenant
    Window <- MCWindow
    KeyOf <- MCKeyOf
    BucketOf <- MCBucketOf
    BucketTenant <- MCBucketTenant
    DateOf <- MCDateOf
    RefOf <- MCRefOf
    AdjustmentAmount <- MCAdjustmentAmount
    Handlers = {h1}
    Tenants = {t1, t2}
    Requests = {1, 2, 3, 4}
    Periods = {p1}
    Buckets = {b1, b2}
    Adjustments = {a1}
    Threshold = 6
    Limits = {2}
INVARIANTS
    BooksBalance
    LedgerBacked
PROPERTIES
    ImplementsBook
