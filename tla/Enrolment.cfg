SPECIFICATION FairSpec
CONSTANTS
    Nonces = {a, b, c}
    None = None
    MaxAttempts = 2
    Interval = 2
    MaxBackoff = 3
    ExponentCap = 1
    MaxFaults = 1
INVARIANTS LoopAlive CleanEnds RetryIsNoReplay
PROPERTIES Enrolled Retired
