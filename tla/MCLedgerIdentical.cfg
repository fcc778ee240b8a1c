SPECIFICATION LedgerSpec
CONSTANTS
    PhaseIds <- TwoCycles
    Results <- SomeResults
    Window = 4
    Threshold = 3
    MaxResults = 3
INVARIANT
    CompressedWasShown
