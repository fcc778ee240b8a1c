SPECIFICATION ReconSpec
CONSTANTS
    Paths = {1, 2, 3, 4, 5, 6}
    Seeds <- TwoSeeds
    SensitivePaths <- Overlapping
    Sites <- SomeSites
    WaveSize = 2
    MaxRequests = 5
    Depths = 3
    Deadline = 10
    PortsReserve = 6
    VhostsReserve = 3
    CrawlReserve = 2
    SensitiveReserve = 1
    PortsTime = 2
    BaseTimeout = 2
    VhostTimeout = 1
    PageTimeout = 2
    MinTimeout = 1
    MaxOperations = 4
    VhostWaves = 2
    Wall = 10
INVARIANTS WithinBudget CrawlIsBreadthFirst
PROPERTIES OverrunIsOneWave CallEnds
