SPECIFICATION Spec
CONSTANTS
    u1 = u1
    p1 = p1
    p2 = p2
    i1 = i1
    i2 = i2
    c1 = c1
    c2 = c2
    Users = {u1}
    Owner <- OneOwner
    Recipient <- OneRecipient
    Msgs = {1}
    InitialBalance <- Zero
    MaxDeposit = 1
    Deposits = {1}
    FaultKinds = {"crash", "db", "cancel", "rebalance", "stall", "kafka"}
    MaxFaults = 2
    Topic <- AllNormal
    Partitions = {p1}
    PartitionTopic <- NormalPartitions
    PartitionOf <- InP1
    Instances = {i1, i2}
    Consumers = {c1, c2}
    LaneOf <- NormalLane
    Home <- HomeSplit
    BatchSize = 1
    MaxAttempts = 2
    MaxProviderAttempts = 2
INVARIANTS
    TypeOK
    LedgerBalanced
    RefundedIsOver
    ExhaustedLeavesNothingOpen
    SentWasDelivered
    DeadLetterIsEarned
    ProviderCallsBounded
    SingleSender
PROPERTIES
    NeverReopened
    SentIsFinal
    ImplementsLedger
CHECK_DEADLOCK FALSE
