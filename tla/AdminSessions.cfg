\* A login, a logout, a reset and three refresh tokens.
SPECIFICATION Spec
CONSTANTS
    Logins = {p1}
    Leavers = {q1}
    Links = {l1, l2}
    Resets = {w1}
    Refreshes = {r1, r2, r3}
    Passwords = {old, new}
    FirstPassword = old
    MaxFailed = 2
    MaxAttempts = 1
    NoToken = NoToken
SYMMETRY AdminSymmetry
INVARIANTS
    AdminTypeOK
    SessionsEndAtReset
    OneTokenPerLogin
PROPERTIES
    SpentStaysSpent
CHECK_DEADLOCK FALSE
