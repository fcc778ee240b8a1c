SPECIFICATION Spec
CONSTANTS
    NTasks = 2
    Phases = {"plan", "work"}
    MaxRequests = 2
INVARIANTS
    TokensAgree
    KillLosesOneFlush
    ReasonsAgree
PROPERTIES
    TagsOwnTrace
