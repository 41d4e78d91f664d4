\* Refunds race with the webhooks that report them.
SPECIFICATION PaidShopSpec
CONSTANTS
    c1 = c1
    s1 = s1
    Payments = {p1}
    Checkouts = {c1}
    Skus = {s1}
    Items <- SingleItems
    TotalStock <- SingleStock
    Amount = 2
    ConfirmRequests = {}
    OrderKeys = {}
    ConfirmKeys = {k1}
    Matching = {TRUE}
    CancelRequests = {q1, q2}
    CancelKeys = {x1, x2}
    Whole = Whole
    Wants = {1, Whole}
    NoPayment = NoPayment
    NoCheckout = NoCheckout
    NoKey = NoKey
    Nobody = Nobody
    Gone = Gone
SYMMETRY CancelSymmetry
PROPERTIES
    RefundsSurviveWebhooks
CHECK_DEADLOCK FALSE
