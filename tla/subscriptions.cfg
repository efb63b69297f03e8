SPECIFICATION ScenarioSpec
CONSTANTS
    a = a
    b = b
    All = All
    Codes = {a, b}
    Rankings <- TwoRankings
    Day <- ShortDay
    GroupMax = 2
    Total = 4
    ProgramItems = 1
    Dynamic = TRUE
    MaxLost = 1
    MaxInFlight = 2
INVARIANT TypeOK
INVARIANT AckedMatchesServer
INVARIANT PlanFits
PROPERTY Converges
