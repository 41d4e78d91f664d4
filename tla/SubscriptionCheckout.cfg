\* Two confirmations of a subscription over two days.
SPECIFICATION Spec
CONSTANTS
    Subs = {s1}
    Auths = {}
    Cards = {c1, c2, c3}
    Issuers = {}
    Managers = {}
    IssueKeys = {}
    DefaultKeys = {}
    Confirmers = {f1, f2}
    ConfirmKeys = {k1, k2}
    LastDay = 1
    NoAuth = NoAuth
    NoCard = NoCard
    NoKey = NoKey
    NoSub = NoSub
    Nobody = Nobody
    Gone = Gone
SYMMETRY CheckoutSymmetry
INVARIANTS
    CheckoutTypeOK
    ActiveWasPaid
PROPERTIES
    ConfirmedIsFinal
CHECK_DEADLOCK FALSE
