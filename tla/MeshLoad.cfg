SPECIFICATION Spec
CONSTANTS
    Nodes = {n1}
    Operators = {o1}
    None = none
    HealthWindow = 3
    UnhealthyAfter = 2
    Slots = {s1, s2}
    Handlers = {h1}
    MaxConcurrent = 2
    RequireUsdcOptIn = FALSE
INVARIANTS
    TypeOK
    InFlightExact
    HealthIsEarned
