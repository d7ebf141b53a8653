SPECIFICATION Spec
CONSTANTS
    Nodes = {n1, n2}
    Operators = {o1, o2}
    None = none
    HealthWindow = 2
    UnhealthyAfter = 2
    Slots = {s1}
    Handlers = {h1}
    MaxConcurrent = 1
    RequireUsdcOptIn = TRUE
INVARIANTS
    TypeOK
    InFlightExact
    HealthIsEarned
    PaidToServer
PROPERTIES
    Answered
