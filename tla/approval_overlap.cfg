\* Three offers of two tenants, two overlapping requests, every failure, a list
\* that shows one recommendation.
SPECIFICATION Spec
CONSTANTS
    r1 = r1
    r2 = r2
    r3 = r3
    e1 = e1
    e2 = e2
    e3 = e3
    t1 = t1
    t2 = t2
    Recs = {r1, r2, r3}
    NoOne = NoOne
    NoCall = NoCall
    Tenants = {t1, t2}
    Entities = {e1, e2, e3}
    EntityOf <- ThreeEntities
    TenantOf <- OwnedByBoth
    Requests = {q1, q2}
    QueueLimit = 1
    SingleApprover = FALSE
    Crashes = TRUE
    FlushErrors = TRUE
SYMMETRY RequestSymmetry
INVARIANTS QueueAgrees EffectsAudited TenantBoundary
PROPERTY NeverReopened
CHECK_DEADLOCK FALSE
