SPECIFICATION Spec
CONSTANTS
    x = x
    y = y
    Positions <- TwoPositions
    Prices <- TwoPrices
    Entry = 100
    Stop = 90
    Activation = 102
    Target1 = 110
    Target2 = 120
    TrailingPct = 5
    ReassessedPcts = {}
    QuantityLoaded = TRUE
    MayFill = TRUE
    Overlap = FALSE
    Faults = TRUE
PROPERTY LedgerSpec
CHECK_DEADLOCK FALSE
