SPECIFICATION Spec
CONSTANTS
    NCycles = 2
    MaxSteps = 0
    FailLimit = 3
    MaxRetries <- ShippedRetries
PROPERTIES
    QuietOnceStalled
