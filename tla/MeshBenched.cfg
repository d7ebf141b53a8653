SPECIFICATION BusySpec
CONSTANTS
    Nodes = {n1}
    Operators = {o1}
    None = none
    HealthWindow = 2
    UnhealthyAfter = 2
    Slots = {s1}
    Handlers = {h1}
    MaxConcurrent = 1
    RequireUsdcOptIn = TRUE
PROPERTIES
    BenchedReturns
