\* The price of a SKU is changed while an order reserves its last unit.
SPECIFICATION AdminSpec
CONSTANTS
    c1 = c1
    c2 = c2
    s1 = s1
    s2 = s2
    Payments = {p1, p2}
    Checkouts = {c1, c2}
    Skus = {s1, s2}
    Items <- ScarceItems
    TotalStock <- ScarceStock
    Amount = 1
    ConfirmRequests = {r1}
    OrderKeys = {o1}
    ConfirmKeys = {k1}
    Matching = {TRUE, FALSE}
    NoPayment = NoPayment
    NoCheckout = NoCheckout
    NoKey = NoKey
    Nobody = Nobody
    Gone = Gone
    Admins = {a1}
    NoSku = NoSku
INVARIANTS
    NoOversell
CHECK_DEADLOCK FALSE
