SPECIFICATION Spec
CONSTANTS
    NCycles = 4
    MaxSteps = 2
    FailLimit = 1
    MaxRetries <- GenerousRetries
INVARIANTS
    StalledOnlyAfterAsk
