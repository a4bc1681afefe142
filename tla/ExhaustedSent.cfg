SPECIFICATION Spec
CONSTANTS
    u1 = u1
    p1 = p1
    p2 = p2
    i1 = i1
    i2 = i2
    c1 = c1
    c2 = c2
    Users = {u1}
    Owner <- OneOwner
    Recipient <- OneRecipient
    Msgs = {1}
    InitialBalance <- One
    MaxDeposit = 0
    Deposits = {1}
    FaultKinds = {}
    MaxFaults = 0
    Topic <- AllNormal
    Partitions = {p1}
    PartitionTopic <- NormalPartitions
    PartitionOf <- InP1
    Instances = {i1}
    Consumers = {c1}
    LaneOf <- NormalLane
    Home <- HomeI1
    BatchSize = 1
    MaxAttempts = 1
    MaxProviderAttempts = 1
INVARIANTS
    ExhaustedMeansFailed
CHECK_DEADLOCK FALSE
