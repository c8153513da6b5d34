\* Two syncs that overlap, pages of one listing, one change by the merchant, two
\* faults; a listing the database refuses may be added anywhere.
SPECIFICATION Spec
CONSTANTS
    s1 = s1
    s2 = s2
    l1 = l1
    l2 = l2
    l3 = l3
    k1 = k1
    NoSku = NoSku
    NoRow = NoRow
    Listings = {l1, l2, l3}
    Skus = {k1}
    Bad = {l3}
    Syncs = {s1, s2}
    PageLimit = 1
    MaxAttempts = 2
    MaxEdits = 1
    MaxFaults = 2
    FirstCatalog <- TwoListed
    FirstSku <- FirstKeyless
    Blanks <- AllOrNone
    FirstBlank <- SecondBare
    Empty = Empty
INVARIANTS TypeOK AloneLosesNothing
PROPERTIES MirrorsWhatStayed OutcomeIsRecent
SYMMETRY Symmetric
