\* Two calls on every platform, one merchant edit, one fault, two expired tokens.
SPECIFICATION Spec
CONSTANTS
    c1 = c1
    c2 = c2
    Kinds = {"woocommerce", "allegro", "shoper", "prestashop", "idosell", "mock"}
    Calls = {c1, c2}
    Ops = {"list", "create", "update", "price", "stock", "image", "publish"}
    Givens <- Complete
    Sizes = {2}
    Wanted = {1}
    Limit = 1
    PageCap = 1
    MaxListings = 3
    MaxTries = 2
    Edited = {"description"}
    MaxEdits = 1
    MaxFaults = 1
    MaxRevoked = 2
    Dropped = Dropped
    NoListing = NoListing
SYMMETRY Symmetric
INVARIANTS SuccessIsApplied AuthErrorIsReal ListsAll
PROPERTY SiblingsKept
CHECK_DEADLOCK FALSE
