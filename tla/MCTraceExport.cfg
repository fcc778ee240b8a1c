SPECIFICATION Spec
CONSTANTS
    Families <- OneFamily
    Legacy = "legacy"
    PageSize = 2
    InitialTraces = 4
    MaxTraces = 7
    Burst = 1
INVARIANTS TraceExportAssumption ExportIsWhole ExportedOnce
PROPERTY ExportEnds
