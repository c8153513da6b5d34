\* Two tenants, two requests at a time; events overtaken, repeated and dropped by dying handlers.
SPECIFICATION Spec
CONSTANTS
    t1 = t1
    t2 = t2
    i1 = i1
    i2 = i2
    None = None
    Tenants = {t1, t2}
    Legacy = {t2}
    Handlers = {i1, i2}
    Plans = {"starter"}
    Moves <- SomeMoves
    MaxRequests = 2
    MaxSent = 3
    MaxFaults = 1
INVARIANT SettledIsStripes
PROPERTIES FollowsOwnEvents ImplementsSubscription EventsAcknowledged
CHECK_DEADLOCK FALSE
