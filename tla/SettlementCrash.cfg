SPECIFICATION Spec
CONSTANTS
    r1 = r1  r2 = r2  r3 = r3  o1 = o1  o2 = o2
    Requests <- TwoRequests
    Operators = {o1}
    None = None
    Inbound <- UnitInbound
    MarginBps = 1500
    BatchMins = {2}
    BatchMaxRequests = 3
    Attempts = 2
    LeaseCoversRetry = TRUE
    MaxPayouts = 4
    MaxEnds = 1
    CrashMode = "any"
    MaxStoreFaults = 0
    MaxLoadFaults = 0
    MaxLookupFaults = 0
INVARIANT PaidAtMostOnce
CHECK_DEADLOCK FALSE
