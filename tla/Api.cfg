SPECIFICATION FairSpec
CONSTANTS
    Reqs = {r1}
    EnvValues <- WorkerSettings
    DefaultWorkers = 2
    PartitionCounts = {1}
    MaxSeeds = 1
INVARIANTS
    TypeOK
    OneTrueAnswer
    StoresOutliveWorkers
    SeedIsFound
    EveryLaneServed
PROPERTIES
    SignalEndsProcess
CHECK_DEADLOCK FALSE
