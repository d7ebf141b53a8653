SPECIFICATION RepliesSpec
CONSTANTS
    MaxLines = 3
    Decimals = 1
    MaxPriceTiers = 1
    RatioScale = 2
    HealthWindow = 3
    UnhealthyAfter = 2
    MaxModels = 2
    MaxDetailItems = 2
    MaxDetailDepth = 1
INVARIANTS
    ChunkingIrrelevant
    PricesQuoted
    SelectionSound
    NetworksAgree
    AnswerNormal
    ConfigFits
    DiagnosisSound
    RepliesSafe
CHECK_DEADLOCK FALSE
