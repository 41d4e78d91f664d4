\* Two administrators and an order: one product of each kind at most, each with
\* one plan or SKU at most, because there is one code.
SPECIFICATION Spec
CONSTANTS
    Products = {m1, m2}
    Units = {u1, u2}
    Codes = {x}
    Statuses = {"draft", "active"}
    Admins = {a1, a2}
    Orders = {o1}
    MaxStock = 2
    NoDoc = NoDoc
    NoId = NoId
SYMMETRY CatalogSymmetry
INVARIANTS
    CatalogTypeOK
    StockAddsUp
    CodesAreUnique
    
CHECK_DEADLOCK FALSE
