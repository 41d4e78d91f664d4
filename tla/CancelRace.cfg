\* Two processes refund parts of one payment under two keys.
SPECIFICATION PaidSpec
CONSTANTS
    c1 = c1
    s1 = s1
    Payments = {p1}
    Checkouts = {c1}
    Skus = {s1}
    Items <- SingleItems
    TotalStock <- SingleStock
    Amount = 3
    ConfirmRequests = {}
    OrderKeys = {}
    ConfirmKeys = {k1}
    Matching = {TRUE}
    CancelRequests = {q1, q2}
    CancelKeys = {x1, x2}
    Whole = Whole
    Wants = {1, Whole}
    NoPayment = NoPayment
    NoCheckout = NoCheckout
    NoKey = NoKey
    Nobody = Nobody
    Gone = Gone
SYMMETRY CancelSymmetry
INVARIANTS
    CancelTypeOK
    RefundsAreReal
    RefundsAreTraceable
    StockExact
PROPERTIES
    RefundsAreFinal
CHECK_DEADLOCK FALSE
