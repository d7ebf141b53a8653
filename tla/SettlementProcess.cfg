SPECIFICATION FairSpec
CONSTANTS
    r1 = r1  r2 = r2  r3 = r3  o1 = o1  o2 = o2
    Requests <- OneFreeRequest
    Operators = {o1, o2}
    None = None
    Inbound <- ZeroInbound
    MarginBps = 1500
    BatchMins = {0, 1, 2}
    BatchMaxRequests = 3
    Attempts = 2
    LeaseCoversRetry = TRUE
    MaxPayouts = 2
    MaxEnds = 1
    CrashMode = "none"
    MaxStoreFaults = 0
    MaxLoadFaults = 0
    MaxLookupFaults = 0
PROPERTIES ImplementsDebt Resolved ShutdownEnds
CHECK_DEADLOCK FALSE
