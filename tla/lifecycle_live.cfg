SPECIFICATION FairSpec
CONSTANTS
    x = x
    y = y
    Positions <- OnePosition
    Prices <- SomePrices
    Entry = 100
    Stop = 90
    Activation = 102
    Target1 = 110
    Target2 = 120
    TrailingPct = 5
    ReassessedPcts = {2}
    QuantityLoaded = TRUE
    MayFill = TRUE
    Overlap = TRUE
    Faults = FALSE
INVARIANT TypeOK
INVARIANT ClosedOnce
INVARIANT RowsAgree
PROPERTY PaperStopIsTaken
CHECK_DEADLOCK FALSE
