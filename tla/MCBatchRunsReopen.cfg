SPECIFICATION Spec
CONSTANTS
    b1 = b1
    b2 = b2
    manual = manual
    ci = ci
    Batches <- OneBatch
    NTasks <- TwoTasks
    Manual <- OneManual
    CiRuns <- OneCi
    SweepLimit = 2
    ReconcileLimit = 2
PROPERTIES
    FinishedStaysFinished
