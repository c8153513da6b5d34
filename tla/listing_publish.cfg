\* Two approvals of one offer, each message delivered up to twice, a sync, one
\* edit on the platform, every fault.
SPECIFICATION PublishFairSpec
CONSTANTS
    a1 = a1
    a2 = a2
    o1 = o1
    o2 = o2
    Offers = {o1}
    Approvals = {a1, a2}
    OfferOf <- SameOffer
    Deliveries = {d1, d2}
    Syncs = {s1}
    Platform = {"draft", "pending", "publish", "future"}
    LiveWord = "publish"
    DraftWord = "draft"
    Faults = TRUE
    MaxChanges = 1
    NoPage = NoPage
INVARIANTS PendingIsDriven ActiveIsLive
PROPERTIES OnlyApprovalStarts SyncConverges
CHECK_DEADLOCK FALSE
