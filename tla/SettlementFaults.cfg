SPECIFICATION Spec
CONSTANTS
    r1 = r1  r2 = r2  r3 = r3  o1 = o1  o2 = o2
    Requests <- TwoRequests
    Operators = {o1}
    None = None
    Inbound <- UnitInbound
    MarginBps = 1500
    BatchMins = {2}
    BatchMaxRequests = 3
    Attempts = 1
    LeaseCoversRetry = TRUE
    MaxPayouts = 3
    MaxEnds = 1
    CrashMode = "any"
    MaxStoreFaults = 1
    MaxLoadFaults = 1
    MaxLookupFaults = 1
INVARIANTS OnePayoutPerRequest LedgerTruth PendingReport
PROPERTIES Irrevocable
CONSTRAINTS OneFault NotedOnce
SYMMETRY AlikeRequests
CHECK_DEADLOCK FALSE
