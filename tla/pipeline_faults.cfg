SPECIFICATION Spec
CONSTANTS
    j1 = j1
    p1 = p1
    p2 = p2
    A = A
    S8 = S8
    S9 = S9
    S14 = S14
    G04 = G04
    G07 = G07
    NoSignal = NoSignal
    Stocks <- MCStocks
    Strategies <- MCStrategies
    Families <- MCFamilies
    FamilyOf <- MCFamilyOf
    StockOf <- OneStock
    StrategyOf <- ThreeStrategies
    Signals <- OneOfEach
    JavaSignals <- MCJavaSignals
    FamilyRouting = TRUE
    Faults = TRUE
    Crashes = TRUE
    MaxRechecks = 1
    Resent = {}
INVARIANT TypeOK
PROPERTY LeaseSpec
CHECK_DEADLOCK FALSE
