SPECIFICATION OverlapSpec
CONSTANTS
    h1 = h1
    h2 = h2
    t1 = t1
    t2 = t2
    p1 = p1
    p2 = p2
    b1 = b1
    b2 = b2
    a1 = a1
    ref = ref
    NoPeriod = NoPeriod
    TenantOf <- MCTenantOf
    Savings <- MCSavings
    Cost <- MCCost
    PeriodTenant <- MCPeriodTenant
    Window <- MCWindow
    KeyOf <- MCKeyOf
    BucketOf <- MCBucketOf
    BucketTenant <- MCBucketTenant
    DateOf <- MCDateOf
    RefOf <- MCRefOf
    AdjustmentAmount <- MCAdjustmentAmount
    Handlers = {h1, h2}
    Tenants = {t1, t2}
    Requests = {1}
    Periods = {p1, p2}
    Buckets = {b1, b2}
    Adjustments = {a1}
    Threshold = 5
    Limits = {3}
INVARIANTS
    TypeOK
    ChargedAtMostOnce
PROPERTIES
    SealedIsFinal
    UndisturbedByTheBook
    CallsEnd
CONSTRAINT
    Focus
