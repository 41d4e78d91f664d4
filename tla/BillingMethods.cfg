\* Two issuing, one managing and one confirming request of a user.
SPECIFICATION Spec
CONSTANTS
    Subs = {s1}
    Auths = {a1}
    Cards = {c1, c2}
    Issuers = {i1, i2}
    Managers = {m1}
    IssueKeys = {k1, k2}
    DefaultKeys = {k1}
    Confirmers = {f1}
    ConfirmKeys = {k1}
    LastDay = 0
    NoAuth = NoAuth
    NoCard = NoCard
    NoKey = NoKey
    NoSub = NoSub
    Nobody = Nobody
    Gone = Gone
SYMMETRY CheckoutSymmetry
INVARIANTS
    DefaultIsThere
    ActiveIsChargeable
CHECK_DEADLOCK FALSE
