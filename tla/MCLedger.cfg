SPECIFICATION LedgerSpec
CONSTANTS
    PhaseIds <- TwoCycles
    Results <- SomeResults
    Window = 4
    Threshold = 3
    MaxResults = 6
INVARIANTS
    CountIsHonest
    StreakIsReal
