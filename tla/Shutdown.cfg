SPECIFICATION Spec
CONSTANTS
    Reqs = {r1}
    EnvValues <- WorkerSettings
    DefaultWorkers = 2
    PartitionCounts = {1}
    MaxSeeds = 1
INVARIANT DrainedBeforeExit
CHECK_DEADLOCK FALSE
