SPECIFICATION Spec
CONSTANTS
    Gateways = {g1, g2}
    None = None
    HealthWindow = 1
    UnhealthyAfter = 1
    MaxCalls = 2
    MaxFaults = 1
INVARIANTS InFlightExact NoInventedOutcomes
PROPERTIES HealthHeals ComesBack
