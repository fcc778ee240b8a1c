SPECIFICATION FairSpec
CONSTANTS
    NPhases = 2
    NCalls = 2
INVARIANTS
    KilledMeansKilled
    OutputIsWhole
    LeftoversWereCut
PROPERTIES
    EveryCallEnds
