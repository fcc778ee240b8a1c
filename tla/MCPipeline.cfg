SPECIFICATION FairSpec
CONSTANTS
    NCycles = 3
    MaxSteps = 0
    FailLimit = 2
    MaxRetries <- ShippedRetries
INVARIANTS
    StormOvershoot
    FinalStatusFromLastWork
    PromptsSeeFreshResults
PROPERTIES
    ImplementsRegime
    Terminates
