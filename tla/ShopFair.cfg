\* What crashes and aborts leave behind is freed in the end.
SPECIFICATION CancelFairSpec
CONSTANTS
    c1 = c1
    s1 = s1
    Payments = {p1}
    Checkouts = {c1}
    Skus = {s1}
    Items <- SingleItems
    TotalStock <- SingleStock
    Amount = 1
    ConfirmRequests = {r1}
    OrderKeys = {o1}
    ConfirmKeys = {k1}
    Matching = {TRUE, FALSE}
    CancelRequests = {q1}
    CancelKeys = {x1}
    Whole = Whole
    Wants = {Whole}
    NoPayment = NoPayment
    NoCheckout = NoCheckout
    NoKey = NoKey
    Nobody = Nobody
    Gone = Gone
PROPERTIES
    KeysSettle
    CancelKeysSettle
CHECK_DEADLOCK FALSE
