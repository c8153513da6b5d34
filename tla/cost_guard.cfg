\* Three tasks of one tenant that has no subscription row, two at a time, over two
\* months, with a budget of one unit, so that two spend it and one comes after.
SPECIFICATION FairSpec
CONSTANTS
    j1 = j1
    j2 = j2
    j3 = j3
    t1 = t1
    Jobs = {j1, j2, j3}
    Tenants = {t1}
    TenantOf <- OneTenant
    Slots = 2
    Budget <- OneUnit
    MaxCost = 1
    LastMonth = 1
    Legacy = {t1}
    Faults = TRUE
    NoJob = NoJob
INVARIANTS SpendBounded SpendIsBilled
PROPERTY TasksEnd
CHECK_DEADLOCK FALSE
