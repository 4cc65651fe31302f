SPECIFICATION Spec
CONSTANTS
    None = None
    ProductOf <- MCProductOf
    Subtree <- MCSubtree
    Products = {p}
    Assets = {}
    Individual = {}
    Consumables = {p}
    Boxes = {}
    MaxStock = 2
    MaxDelta = 1
    Requests = {r1, r2, r3}
    IssuePhotos = {i1, i2}
    ReturnPhotos = {e1, e2}
    Keys = {}
    OutstandingLimit = 1
    Public = {p}
    MaxQty = 2
    MaxScans = 1
    AssetProduct = p
    Outer = None
SYMMETRY Symmetry
INVARIANTS
    TypeOK
    Ledgers
    ItemLedger
PROPERTIES
    LendingConserves
