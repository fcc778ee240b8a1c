SPECIFICATION Spec
CONSTANTS
    b1 = b1
    b2 = b2
    manual = manual
    ci = ci
    Batches <- TwoBatches
    NTasks <- TwoAndTwo
    Manual <- OneManual
    CiRuns <- OneCi
    SweepLimit = 2
    ReconcileLimit = 2
SYMMETRY BatchSymmetry
INVARIANTS
    ShutdownClosesRuns
    ReconcileIsThorough
PROPERTIES
    FinishedIsComplete
    BatchesStayApart
