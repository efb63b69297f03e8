SPECIFICATION FairSpec
CONSTANTS
    x = x
    y = y
    Positions <- OnePosition
    Prices <- FewPrices
    Entry = 100
    Stop = 90
    Activation = 102
    Target1 = 110
    Target2 = 0
    TrailingPct = 5
    ReassessedPcts = {}
    QuantityLoaded = FALSE
    MayFill = TRUE
    Overlap = FALSE
    Faults = FALSE
PROPERTY StopIsTaken
CHECK_DEADLOCK FALSE
