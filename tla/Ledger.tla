-------------------------------- MODULE Ledger --------------------------------
(***************************************************************************)
(* What the gateway promises about money, with no queue, no worker and no   *)
(* database in sight: a message is charged to its owner when it is         *)
(* accepted, the charge may be given back, and it is given back at most    *)
(* once.  Delivery.tla is shown to implement this specification.           *)
(***************************************************************************)
EXTENDS Naturals, FiniteSets

CONSTANTS
    Msgs,       \* identities of messages
    Users,      \* accounts
    Owner,      \* Owner[m]: the account message m is charged to
    Price,      \* what one message costs
    Opening     \* Opening[u]: balance of u before anything happens

VARIABLES
    balance,    \* users.balance
    account     \* account[m]: has m been charged, and given back?

ledgerVars == <<balance, account>>

LInit ==
    /\ balance = Opening
    /\ account = [m \in Msgs |-> "none"]

\* A request of u is accepted for the messages S: all of them are charged at
\* once, and only when the balance covers them all.
Charge(u, S) ==
    /\ \A m \in S : account[m] = "none" /\ Owner[m] = u
    /\ Price * Cardinality(S) <= balance[u]
    /\ account' = [m \in Msgs |-> IF m \in S THEN "charged" ELSE account[m]]
    /\ balance' = [balance EXCEPT ![u] = @ - Price * Cardinality(S)]

\* The charge of m is given back.
Refund(m) ==
    /\ account[m] = "charged"
    /\ account' = [account EXCEPT ![m] = "refunded"]
    /\ balance' = [balance EXCEPT ![Owner[m]] = @ + Price]

\* An account is topped up.
Deposit(u) ==
    /\ balance'[u] > balance[u]
    /\ balance' = [balance EXCEPT ![u] = balance'[u]]
    /\ UNCHANGED account

LNext ==
    \/ \E u \in Users : \E S \in SUBSET Msgs : Charge(u, S)
    \/ \E m \in Msgs : Refund(m)
    \/ \E u \in Users : Deposit(u)

LSpec == LInit /\ [][LNext]_ledgerVars
===============================================================================
