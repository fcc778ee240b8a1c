SPECIFICATION TranscriptSpec
CONSTANTS
    Ids = {x, y}
    LastToolsN = 2
    MaxCalls = 3
    MaxMessages = 7
SYMMETRY IdSymmetry
INVARIANTS
    EveryCallIsAnswered
    RelayKeepsEvidence
    HandoffIsTrue
