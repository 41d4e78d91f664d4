\* One attempt: confirmation, failure page, expiry and late webhooks.
SPECIFICATION ShopSpec
CONSTANTS
    c1 = c1
    s1 = s1
    Payments = {p1}
    Checkouts = {c1}
    Skus = {s1}
    Items <- SingleItems
    TotalStock <- SingleStock
    Amount = 1
    ConfirmRequests = {r1, r2}
    OrderKeys = {}
    ConfirmKeys = {k1}
    Matching = {TRUE}
    CancelRequests = {}
    CancelKeys = {}
    Whole = Whole
    Wants = {Whole}
    NoPayment = NoPayment
    NoCheckout = NoCheckout
    NoKey = NoKey
    Nobody = Nobody
    Gone = Gone
INVARIANTS
    WebhookTypeOK
    
    StockExact
    AnswersHold
CHECK_DEADLOCK FALSE
