SPECIFICATION Spec
CONSTANTS
    None = None
    ProductOf <- MCProductOf
    Subtree <- MCSubtree
    Products = {p}
    Assets = {a1}
    Individual = {}
    Consumables = {p}
    Boxes = {}
    MaxStock = 1
    MaxDelta = 1
    Requests = {r1}
    IssuePhotos = {i1}
    ReturnPhotos = {e1}
    Keys = {}
    OutstandingLimit = 2
    Public = {}
    MaxQty = 1
    MaxScans = 1
    AssetProduct = p
    Outer = None
SYMMETRY Symmetry
INVARIANT IndividualStock
