\* No crash, no overlap: only a final commit the database refuses.
SPECIFICATION Spec
CONSTANTS
    r1 = r1
    r2 = r2
    r3 = r3
    e1 = e1
    e2 = e2
    e3 = e3
    t1 = t1
    t2 = t2
    Recs = {r1, r2}
    NoOne = NoOne
    NoCall = NoCall
    Tenants = {t1, t2}
    Entities = {e1}
    EntityOf <- SameEntity
    TenantOf <- OwnedByT1
    Requests = {q1, q2}
    QueueLimit = 1
    SingleApprover = TRUE
    Crashes = FALSE
    FlushErrors = TRUE
INVARIANT NeverLeftExecuting
CHECK_DEADLOCK FALSE
