\* Two tasks for one offer, three requests that do not overlap on a
\* recommendation, every failure, fair scheduling.
SPECIFICATION FairSpec
CONSTANTS
    r1 = r1
    r2 = r2
    r3 = r3
    e1 = e1
    e2 = e2
    e3 = e3
    t1 = t1
    t2 = t2
    Recs = {r1, r2}
    NoOne = NoOne
    NoCall = NoCall
    Tenants = {t1, t2}
    Entities = {e1}
    EntityOf <- SameEntity
    TenantOf <- OwnedByT1
    Requests = {q1, q2, q3}
    QueueLimit = 1
    SingleApprover = TRUE
    Crashes = TRUE
    FlushErrors = TRUE
INVARIANTS AtMostOneEffect
PROPERTIES DecidedOnce ImplementsDecisions ExecutionEnds ProposalsReachQueue
CHECK_DEADLOCK FALSE
