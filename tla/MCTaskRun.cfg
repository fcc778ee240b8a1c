SPECIFICATION FairSpec
CONSTANT NAttempts = 2
INVARIANTS
    NoContainerLeft
    ScoreHasAVerifier
    TerminationMatchesGrade
    FinishedTrialIsValid
PROPERTIES
    EveryTaskEnds
