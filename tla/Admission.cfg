SPECIFICATION Spec
CONSTANTS
    Messages = {m1, m2}
    Skew = 1
    MaxEntries = 2
    Clients = {k1, k2}
    Capacity = 2
    Token = 3
    Second = 2
    MaxKeys = 1
    MaxTicks = 4
    MaxSetBack = 1
    None = None
INVARIANTS PassedOnce RateHeld RetryAfterSuffices
CHECK_DEADLOCK FALSE
SYMMETRY Symmetry
