SPECIFICATION Spec
CONSTANTS
    None <- NoNumber
    NoText <- Unread
    Fee = 7
    ZoneGate = FALSE
    BoxPeriod = 5
    Lookback = 6
    FamilyRouting = FALSE
    FamilyTable <- FamiliesOfTwo
    Shares = {"a", "b", "c"}
    Limit = 2
    Inputs <- InputsOf
CHECK_DEADLOCK FALSE
INVARIANT BracketsHold
INVARIANT ZonesHold
INVARIANT ScoreIsMonotone
INVARIANT StockAnswersHold
INVARIANT EnterIsEarned
INVARIANT RiskNeverPays
INVARIANT AnswerIsBound
INVARIANT DeclineNeverHolds
INVARIANT PoolsAreQualified
INVARIANT PatternsHold
INVARIANT WorseNeverBolder
INVARIANT StrongerStaysPassed
