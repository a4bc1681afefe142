SPECIFICATION FairSpec
CONSTANTS
    u1 = u1
    p1 = p1
    p2 = p2
    i1 = i1
    i2 = i2
    c1 = c1
    c2 = c2
    Users = {u1}
    Owner <- OneOwner
    Recipient <- OneRecipient
    Msgs = {1, 2}
    InitialBalance <- One
    MaxDeposit = 1
    Deposits = {1}
    FaultKinds = {"crash", "stall", "db"}
    MaxFaults = 2
    Topic <- TwoLaneTopic
    Partitions = {p1, p2}
    PartitionTopic <- TwoLanePartitions
    PartitionOf <- TwoLanePartitionOf
    Instances = {i1, i2}
    Consumers = {}
    LaneOf <- NormalLane
    Home <- HomeI1
    BatchSize = 1
    MaxAttempts = 2
    MaxProviderAttempts = 1
INVARIANTS
    PublishedIsInLog
    CopiesBounded
    ExhaustionIsEarned
PROPERTIES
    OutboxSettles
CHECK_DEADLOCK FALSE
