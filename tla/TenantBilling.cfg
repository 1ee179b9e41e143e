SPECIFICATION Spec
CONSTANTS
    t1 = t1
    t2 = t2
    c1 = c1
    c2 = c2
    o1 = o1
    o2 = o2
    None = None
    Tenants = {t1, t2}
    Subs = {1, 2}
    ActiveSubs = {1}
    Periods = {1}
    SubTenant <- MCSubTenant
    PeriodTenant <- MCPeriodTenant
    PeriodSub <- MCPeriodSub
    PeriodStart <- MCPeriodStart
    History = {}
    Who <- MCWho
    QueryFallback = TRUE
    Calls = {c1, c2}
    Kinds <- MCKinds
    Operators = {o1, o2}
    Tasks <- MCTasks
    Billable <- MCBillable
    PageSize = 1
    Invoices = {1, 2, 3}
    MaxTotal = 1
    MaxCharges = 3
CONSTRAINT
    Focus
INVARIANTS
    TypeOK
    OwnRows
    InvoicesSound
    ClosedReportReconciles
    PagesMissNothing
CHECK_DEADLOCK FALSE
