\* Two checkouts compete for one unit: retries, expiry, failure pages and one
\* process that confirms.
SPECIFICATION Spec
CONSTANTS
    c1 = c1
    c2 = c2
    s1 = s1
    s2 = s2
    Payments = {p1, p2}
    Checkouts = {c1, c2}
    Skus = {s1, s2}
    Items <- ScarceItems
    TotalStock <- ScarceStock
    Amount = 1
    ConfirmRequests = {r1}
    OrderKeys = {o1}
    ConfirmKeys = {k1}
    Matching = {TRUE, FALSE}
    NoPayment = NoPayment
    NoCheckout = NoCheckout
    NoKey = NoKey
    Nobody = Nobody
    Gone = Gone
SYMMETRY PaymentSymmetry
INVARIANTS
    TypeOK
    PaidWasCharged
PROPERTIES
    Finality
    LedgerSpec
CHECK_DEADLOCK FALSE
