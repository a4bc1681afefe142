SPECIFICATION Spec
CONSTANTS
    MaxLen = 3
    Requests <- AllRequests
    Balances <- AllBalances
INVARIANTS
    TypeOK
    PlanIsReference
    EveryRecipientAnswered
CHECK_DEADLOCK FALSE
