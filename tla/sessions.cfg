\* Two requests at a time over two minutes, one revocation, one key rotation.
SPECIFICATION Spec
CONSTANTS
    u1 = u1
    u2 = u2
    t1 = t1
    t2 = t2
    t3 = t3
    q1 = q1
    q2 = q2
    k1 = k1
    k2 = k2
    k3 = k3
    k4 = k4
    NoOne = NoOne
    Users = {u1, u2}
    Tenants = {t1, t2, t3}
    Requests = {q1, q2}
    Tokens = {k1, k2, k3, k4}
    Limit <- TwoAndOne
    MaxWindows = 1
    MaxArrivals = 3
    MaxEvents = 2
    MaxKeys = 3
    FirstUsers = {u1}
    FirstMembers <- OfBoth
    Newcomers = {u2}
    LoginTenants <- OneOrNone
    FirstSession <- LoggedIn
SYMMETRY Symmetric
INVARIANTS WindowRespected
PROPERTIES EntitledOnly UsedOnce NeverForcedOut
CHECK_DEADLOCK FALSE
