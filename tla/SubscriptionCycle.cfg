\* Two billing runs, a retry, a cancellation, a resumption and an expiration.
SPECIFICATION Spec
CONSTANTS
    Subs = {s1}
    Runs = {b1, b2}
    Retries = {r1}
    RetryKeys = {k1}
    CycleKey = CycleKey
    LastDay = 1
    PeriodDays = 1
    MaxFailed = 2
    FirstEnds = {1}
    NoKey = NoKey
    NoSub = NoSub
    Nobody = Nobody
    Never = Never
    Gone = Gone
SYMMETRY RunSymmetry
INVARIANTS
    BillingTypeOK
    OwesIffPastDue
    PaidCyclesWereCharged
    RunsChargeOnce
    DueWhileRenewing
PROPERTIES
    LifeSpec
CHECK_DEADLOCK FALSE
