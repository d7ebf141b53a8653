SPECIFICATION FairSpec
CONSTANTS
    Requests = {r1}
    Callers = {c1, c2}
    Probers = {p1, p2}
    Permits = 1
    MaxChunks = 1
    CacheAge = 2
INVARIANTS PermitsExact HonestEnd HealthIsRecent
PROPERTIES Turns
