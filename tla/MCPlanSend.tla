------------------------------ MODULE MCPlanSend ------------------------------
EXTENDS PlanSend

CONSTANT MaxLen     \* bound on the recipients of one section

Sections == UNION {[1..n -> BOOLEAN] : n \in 0..MaxLen}
AllRequests == [otp : Sections, text : Sections]
\* From below zero (the clamp) to more than any request can use.
AllBalances == (-1)..(2 * MaxLen + 1)
===============================================================================
