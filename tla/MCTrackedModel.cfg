SPECIFICATION FairSpec
CONSTANTS
    plan = plan
    work = work
    PhaseIds <- TwoPhases
    ConfigMax = 12
    ServerCaps <- SomeCaps
    FailLimit = 2
    FailBound = 3
    None = None
INVARIANTS
    UsageAttributed
PROPERTIES
    PreflightPicksAccepted
    ImplementsEndpoint
    EveryRequestEnds
