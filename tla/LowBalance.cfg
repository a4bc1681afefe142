SPECIFICATION Spec
CONSTANTS
    u1 = u1
    nobody = nobody
    k = k
    j = j
    h = h
    g = g
    Calls = {1, 4}
    Users = {u1}
    User <- CallUser
    Key <- CallKey
    Hash <- CallHash
    Valid <- ValidRecipients
    InitialBalance <- Opening
    Credits = {1}
    MaxCredit = 0
    PollAttempts = 2
    FaultKinds = {}
    MaxFaults = 0
INVARIANT LowBalanceIsRefused
CHECK_DEADLOCK FALSE
