SPECIFICATION Spec
CONSTANTS
    Requests = {r1, r2}
    None = None
    MaxEntries = 1
    MaxFailures = 1
    MaxRestarts = 1
INVARIANT NoLeakedRows
CHECK_DEADLOCK FALSE
