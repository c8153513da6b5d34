\* One connection created, two workers and one API process, one rotation.
SPECIFICATION FairSpec
CONSTANTS
    a1 = a1
    p1 = p1
    p2 = p2
    c1 = c1
    None = None
    Apis = {a1}
    Workers = {p1, p2}
    Connections = {c1}
    First = {}
    Sent = {"full", "partial", "none"}
    MaxRequests = 1
    MaxKeys = 2
    MaxChanges = 1
    MaxFaults = 1
INVARIANT RotationLosesNothing
PROPERTY HealthSettles
CHECK_DEADLOCK FALSE
