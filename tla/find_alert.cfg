SPECIFICATION AlertSpec
CHECK_DEADLOCK FALSE
SYMMETRY Twins
CONSTANTS
    s1 = s1
    s2 = s2
    s3 = s3
    r1 = r1
    r2 = r2
    ARequests = {r1, r2}
    AStocks = {s1, s2}
    AStrategies = {"S1", "S4"}
    ABatches <- TwoBatches
    AThemeOf <- OneTheme
    AConfigStored = TRUE
    ADedupTtl = 3
    AStockCooldown = 2
    AMaxDailySignals = 2
    ACountBound = 3
    AMaxSignalsPerStrategy = 2
    AMaxPositions = 2
    AMaxThemePositions = 1
    AHorizon = 2
    VStocks = {s1}
    VRawPrices <- FewPrices
    VWatchFor = 2
    VReleaseLease = 3
    VSupplementAge = 1
    VSignalLease = 4
    VQueueBound = 2
    VHorizon = 5
    CStocks = {s1, s2}
    CDayLength = 3
    CMinObserveDays = 2
    CSignalLimit = 1
    CWatchTtl = 3
    CTriggerTtl = 2
    CHorizon = 5
    NChats = {r1, r2}
    NEvents = {s1}
    NSendLease = 2
    NMinute = 2
    NMaxSignalsPerMin = 1
    NMaxDefers = 1
    NDeferFor = 1
    NEmitBound = 3
    NHorizon = 3
    KScans = {r1, r2}
    KBudget = 1
    KInterval = 2
    KWaitFor = 1
    KBackoff = 1
    KMaxRetries = 1
    KTaskBound = 2
    KHorizon = 2
    BWorkers = {r1, r2}
    BSlots = {"MORNING", "MIDDAY"}
    BLiveTtl = 1
    BCacheTtl = 2
    BHorizon = 4
    PShares = {s1, s2, s3}
    PLimit = 2
    PQualityFilter = FALSE
    PRankings <- RankingsOfTwo
    PTossRankings <- TossRankingOfOne
    PLiveRankings <- LiveRankingsOfThree
    PPreMarket <- PreMarketBuilders
    PIntraday <- IntradayBuilders
    PListenLimit = 2
    PMinute = 10
    POpening = 1
    PRegular = 2
    PClosing = 5
    PHorizon = 6
    QOrder <- ScheduleOrder
    QAtClose = "S12"
    QSlots = 3
    QPause = 1
    QForceClose = 22
    QOpens <- WindowOpens
    QCloses <- WindowCloses
    QTimeoutOf <- ScanTimeout
    QDay <- Afternoon
    QSetbackBound = 1
    GWorkers = {r1, r2}
    GKinds = {"primary", "score", "exit"}
    GLimits <- OneCall
    GBlockTtl = 1
    GHorizon = 1
    DCallers = {r1, r2}
    DRequests <- DayRequests
    DTtl <- DayTtl
    DMaxPages = 2
    DHorizon = 3
    MRequests <- MinuteRequests
    MTtl <- MinuteTtl
    MMaxPages = 3
INVARIANT RiskAlertIsShown
