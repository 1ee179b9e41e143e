SPECIFICATION Spec
CONSTANTS
    t1 = t1
    t2 = t2
    h1 = h1
    h2 = h2
    c1 = c1
    None = None
    SubTenant <- MCSubTenant
    SubEnd <- MCSubEnd
    PeriodTenant <- MCPeriodTenant
    PeriodEnd <- MCPeriodEnd
    Tenants = {t1}
    Subs = {1}
    SubStatuses = {"trialing", "active"}
    Periods = {1, 2}
    Asked = {"open", "closing"}
    Operators = {h1}
    Calls = {c1}
    Gains = {1}
    Threshold = 1
    MaxEarned <- MCMaxEarned
INVARIANTS
    TypeOK
    DecisionsJustified
    PatronageIsEarned
    AnsweredCloseIsLogged
PROPERTIES
    SuspensionJustified
CHECK_DEADLOCK FALSE
