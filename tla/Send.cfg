SPECIFICATION FairSpec
CONSTANTS
    u1 = u1
    nobody = nobody
    k = k
    j = j
    h = h
    g = g
    Calls = {1, 2, 3, 4, 5}
    Users = {u1}
    User <- CallUser
    Key <- CallKey
    Hash <- CallHash
    Valid <- ValidRecipients
    InitialBalance <- Opening
    Credits = {1}
    MaxCredit = 1
    PollAttempts = 2
    FaultKinds = {"redis", "db", "cancel", "evict"}
    MaxFaults = 1
INVARIANTS
    TypeOK
    KeyExecutedOnce
    CacheCoherent
    PlanIsCurrent
    FirstPollSucceeds
PROPERTIES
    ImplementsIdempotentSend
    EveryCallReturns
CHECK_DEADLOCK FALSE
