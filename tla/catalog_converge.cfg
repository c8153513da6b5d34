\* Two syncs that overlap again and again, one change by the merchant, which may
\* add a listing the database refuses; no faults.
SPECIFICATION FairSpec
CONSTANTS
    s1 = s1
    s2 = s2
    l1 = l1
    l2 = l2
    l3 = l3
    k1 = k1
    NoSku = NoSku
    NoRow = NoRow
    Listings = {l1, l2, l3}
    Skus = {k1}
    Bad = {l3}
    Syncs = {s1, s2}
    PageLimit = 1
    MaxAttempts = 2
    MaxEdits = 1
    MaxFaults = 0
    FirstCatalog <- TwoListed
    FirstSku <- FirstKeyless
    Blanks <- AllOrNone
    FirstBlank <- SecondBare
    Empty = Empty
PROPERTIES SyncsEnd MirrorConverges
