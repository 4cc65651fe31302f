SPECIFICATION Spec
CONSTANTS
    None = None
    ProductOf <- MCProductOf
    Subtree <- MCSubtree
    Products = {p}
    Assets = {a1}
    Individual = {}
    Consumables = {}
    Boxes = {b1, b2}
    MaxStock = 2
    MaxDelta = 1
    Requests = {r1, r2}
    IssuePhotos = {i1, i2}
    ReturnPhotos = {e1, e2}
    Keys = {k1, k2}
    OutstandingLimit = 1
    Public = {p, a1}
    MaxQty = 1
    MaxScans = 2
    AssetProduct = p
    Outer = b1
SYMMETRY Symmetry
INVARIANTS
    ContainerCustody
    QrExclusive
    EvidenceSingleUse
    BooksAgree
    UnitCustody
    AnonymousBacklog
    NothingStuck
PROPERTIES
    SettledFrozen
    NoUnitWalksOut
