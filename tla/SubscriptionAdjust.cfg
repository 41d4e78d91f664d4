\* A plan change and an adjustment at a time beside a billing run.
SPECIFICATION AdjustSpec
CONSTANTS
    Subs = {s1}
    Runs = {b1}
    Retries = {}
    RetryKeys = {}
    CycleKey = CycleKey
    LastDay = 1
    PeriodDays = 1
    MaxFailed = 2
    FirstEnds = {1}
    Changers = {c1}
    ChangeKeys = {x1}
    Tokens = {t1}
    Plans = {10, 20, 30}
    FirstPlan = 20
    Adjusters = {a1}
    AdjustKeys = {y1}
    PostponeBy = {2}
    Horizon = 3
    NoKey = NoKey
    NoSub = NoSub
    Nobody = Nobody
    Never = Never
    Gone = Gone
    NoPlan = NoPlan
    NoToken = NoToken
    Waived = Waived
INVARIANTS
    AdjustTypeOK
    
    UpgradeWasPaid
    RecordedWasTaken
PROPERTIES
    CancellationHolds
CHECK_DEADLOCK FALSE
