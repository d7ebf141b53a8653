SPECIFICATION Spec
CONSTANTS
    Requests = {r1, r2}
    None = None
    MaxEntries = 1
    MaxFailures = 1
    MaxRestarts = 1
INVARIANTS OrderCapped RowsCurrent
CHECK_DEADLOCK FALSE
