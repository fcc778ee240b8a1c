SPECIFICATION Spec
CONSTANTS
    NCalls = 3
    MaxParallel = 2
    Fragments <- TwoFragments
INVARIANTS
    FileIsAsReported
PROPERTIES
    LoneWriteNeverOverwrites
