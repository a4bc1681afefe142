--------------------------------- MODULE Repo ---------------------------------
(***************************************************************************)
(* The tables of internal/messaging/repo.go (users, messages,              *)
(* outbox_events) and its statements.  A statement, or a transaction that   *)
(* runs in one call, is one operator on the primed variables; who calls it, *)
(* and whether the caller learns that it was applied, is said in            *)
(* OutboxWorker.tla and SMSConsumer.tla.                                    *)
(*                                                                         *)
(* A message and its outbox row are inserted together, one row each, and    *)
(* share an identity here (aggregate_id).  error_code, last_error and the   *)
(* texts are left out; the timestamps locked_at and updated_at are reduced  *)
(* to what the WHERE clauses ask of them: is the claim older than the       *)
(* staleness limit?                                                        *)
(***************************************************************************)
EXTENDS Integers, FiniteSets

CONSTANTS
    Msgs,           \* message ids (bigserial: positive, growing)
    Users,
    Owner,          \* Owner[m]: user_id of m
    Topic,          \* Topic[m]: "express" or "normal"
    InitialBalance, \* users.balance before the first request
    MaxDeposit,     \* bound on what AddBalance adds to one account
    FaultKinds,     \* which faults may happen: see AllFaultKinds
    MaxFaults       \* bound on the number of faults in a behaviour

\* stall: a worker needs longer for its batch than outboxClaimStaleAfter; slow: a
\* consumer needs longer for a message than sendingStaleAfter; foreign: a record
\* of another producer; kafka: a failing commit of an offset.
AllFaultKinds ==
    {"crash", "db", "cancel", "rebalance", "stall", "slow", "foreign", "kafka"}

ASSUME MsgsAssumption ==
    /\ Msgs \subseteq Nat \ {0}
    /\ IsFiniteSet(Msgs)
ASSUME OwnerAssumption == Owner \in [Msgs -> Users]
ASSUME TopicAssumption == Topic \in [Msgs -> {"express", "normal"}]
ASSUME BalanceAssumption ==
    /\ InitialBalance \in [Users -> Nat]
    /\ MaxDeposit \in Nat
ASSUME FaultAssumption ==
    /\ FaultKinds \subseteq AllFaultKinds
    /\ MaxFaults \in Nat

VARIABLES
    balance,        \* users.balance
    msgStatus,      \* messages.status ("none": no such row yet)
    msgAged,        \* sending rows whose updated_at is past sendingStaleAfter
    obStatus,       \* outbox_events.status
    obAttempts,     \* outbox_events.attempts
    obAged,         \* publishing rows whose locked_at is past outboxClaimStaleAfter
    deposited,      \* history: what AddBalance has added so far
    refunded,       \* history: messages whose cost was given back
    faults          \* number of faults so far

repoVars == <<balance, msgStatus, msgAged, obStatus, obAttempts, obAged,
              deposited, refunded, faults>>
tables == <<balance, msgStatus, msgAged, obStatus, obAttempts, obAged,
            deposited, refunded>>

MessageStatus == {"none", "queued", "sending", "sent", "failed"}
OutboxStatus  == {"none", "pending", "publishing", "published", "failed"}

RepoTypeOK ==
    /\ balance \in [Users -> Nat]
    /\ msgStatus \in [Msgs -> MessageStatus]
    /\ msgAged \subseteq Msgs
    /\ obStatus \in [Msgs -> OutboxStatus]
    /\ obAttempts \in [Msgs -> Nat]
    /\ obAged \subseteq Msgs
    /\ deposited \in [Users -> Nat]
    /\ refunded \subseteq Msgs
    /\ faults \in Nat

RepoInit ==
    /\ balance = InitialBalance
    /\ msgStatus = [m \in Msgs |-> "none"]
    /\ msgAged = {}
    /\ obStatus = [m \in Msgs |-> "none"]
    /\ obAttempts = [m \in Msgs |-> 0]
    /\ obAged = {}
    /\ deposited = [u \in Users |-> 0]
    /\ refunded = {}
    /\ faults = 0

\* A fault of kind k happens in this step.  Faults are bounded in number; what
\* a step does when no fault happens is never bounded by this counter.
Fault(k) ==
    /\ k \in FaultKinds
    /\ faults < MaxFaults
    /\ faults' = faults + 1
NoFault == UNCHANGED faults

smsCost == 1
Cost(S) == smsCost * Cardinality(S)

-------------------------------------------------------------------------------
(***************************************************************************)
(* Ingress: the whole persistSend transaction, as the rest of the system    *)
(* sees it.  Send.tla looks inside it.                                      *)
(***************************************************************************)

\* The ids a request of u may draw: unused, and above those u already has (the
\* row lock on users serialises the requests of one user).
FreshIds(u) ==
    {m \in Msgs : /\ Owner[m] = u
                  /\ msgStatus[m] = "none"
                  /\ \A n \in Msgs :
                        Owner[n] = u /\ msgStatus[n] # "none" => n < m}

\* Mutant: the balance is not compared with the cost.
CoveredAlways(u, S) == TRUE
\* planSend accepts no more than the balance pays for.
Covered(u, S) == Cost(S) <= balance[u]

\* Mutant: the debit is dropped from the transaction.
NotDebited(u, S) == balance
Debited(u, S) == [balance EXCEPT ![u] = @ - Cost(S)]

\* The messages S that planSend found payable are inserted as queued, each
\* with a pending outbox row, and paid for.
PersistSend(u, S) ==
    /\ S # {} /\ S \subseteq FreshIds(u)
    /\ Covered(u, S)
    /\ balance' = Debited(u, S)
    /\ msgStatus' = [m \in Msgs |-> IF m \in S THEN "queued" ELSE msgStatus[m]]
    /\ obStatus' = [m \in Msgs |-> IF m \in S THEN "pending" ELSE obStatus[m]]
    /\ UNCHANGED <<msgAged, obAttempts, obAged, deposited, refunded>>

\* POST /users/:id/add-balance: internal/user AddBalance.
AddBalance(u, n) ==
    /\ n > 0
    /\ deposited[u] + n <= MaxDeposit
    /\ balance' = [balance EXCEPT ![u] = @ + n]
    /\ deposited' = [deposited EXCEPT ![u] = @ + n]
    /\ UNCHANGED <<msgStatus, msgAged, obStatus, obAttempts, obAged, refunded>>

-------------------------------------------------------------------------------
(***************************************************************************)
(* outbox_events                                                           *)
(***************************************************************************)

\* Mutant: rows left in publishing are never taken over.
ClaimablePendingOnly == {m \in Msgs : obStatus[m] = "pending"}

\* Rows the WHERE clause of ClaimPendingOutbox selects.
Claimable ==
    {m \in Msgs : obStatus[m] = "pending" \/ (obStatus[m] = "publishing" /\ m \in obAged)}

\* ORDER BY: the preferred topic first, then the id.
ClaimsBefore(m, n) ==
    IF Topic[m] = Topic[n] THEN m < n ELSE Topic[m] = "express"

\* The rows one claim takes: the first `limit' claimable rows, leaving out the
\* ones in `locked' (SKIP LOCKED).
ClaimedRows(limit, locked) ==
    LET rows == Claimable \ locked
    IN  {m \in rows : Cardinality({n \in rows : ClaimsBefore(n, m)}) < limit}

\* The UPDATE of ClaimPendingOutbox on the rows S.
ClaimRows(S) ==
    /\ obStatus' = [m \in Msgs |-> IF m \in S THEN "publishing" ELSE obStatus[m]]
    /\ obAttempts' = [m \in Msgs |-> IF m \in S THEN obAttempts[m] + 1 ELSE obAttempts[m]]
    /\ obAged' = obAged \ S
    /\ UNCHANGED <<balance, msgStatus, msgAged, deposited, refunded>>

\* Mutant: the status in the WHERE clauses is forgotten.
StillOpenAlways(m) == TRUE
\* WHERE status IN (pending, publishing).
StillOpen(m) == obStatus[m] \in {"pending", "publishing"}

\* An UPDATE that ends the claim on row m, if the row is still open.
SetOutbox(m, status) ==
    IF StillOpen(m)
    THEN /\ obStatus' = [obStatus EXCEPT ![m] = status]
         /\ obAged' = obAged \ {m}
         /\ UNCHANGED <<balance, msgStatus, msgAged, obAttempts, deposited, refunded>>
    ELSE UNCHANGED tables

MarkOutboxPublished(m) == SetOutbox(m, "published")
RecordOutboxFailure(m) == SetOutbox(m, "pending")

\* Mutants: the message is failed, and refunded, whatever its status; only when
\* it is queued and not while it is being sent.
OpenMessageAlways(m) == TRUE
OpenMessageQueued(m) == msgStatus[m] = "queued"
\* WHERE of the message UPDATE in FinalizeOutboxExhausted.
OpenMessage(m) == msgStatus[m] \in {"queued", "sending"}

\* Mutant: the cost is given back and the message is left as it was.
MessageKept(m) == msgStatus
MessageFailed(m) == [msgStatus EXCEPT ![m] = "failed"]

\* One transaction: the outbox row to failed if it is still open; the message
\* to failed if it is queued or sending, whether or not the outbox row was
\* open; and its cost back to its owner if the message changed.
FinalizeOutboxExhausted(m) ==
    /\ obStatus' = IF StillOpen(m) THEN [obStatus EXCEPT ![m] = "failed"] ELSE obStatus
    /\ obAged' = IF StillOpen(m) THEN obAged \ {m} ELSE obAged
    /\ IF OpenMessage(m)
       THEN /\ msgStatus' = MessageFailed(m)
            /\ msgAged' = msgAged \ {m}
            /\ balance' = [balance EXCEPT ![Owner[m]] = @ + smsCost]
            /\ refunded' = refunded \cup {m}
       ELSE UNCHANGED <<msgStatus, msgAged, balance, refunded>>
    /\ UNCHANGED <<obAttempts, deposited>>

-------------------------------------------------------------------------------
(***************************************************************************)
(* messages                                                                *)
(***************************************************************************)

\* Mutants: a sending row is claimed whatever its age; a failed one once more.
CanClaimMessageNoAge(m) == msgStatus[m] \in {"queued", "sending"}
CanClaimMessageFailed(m) ==
    msgStatus[m] \in {"queued", "failed"} \/ (msgStatus[m] = "sending" /\ m \in msgAged)

\* WHERE of the UPDATE in ClaimMessageForSending.
CanClaimMessage(m) ==
    msgStatus[m] = "queued" \/ (msgStatus[m] = "sending" /\ m \in msgAged)

SetMessage(m, status) ==
    /\ msgStatus' = [msgStatus EXCEPT ![m] = status]
    /\ msgAged' = msgAged \ {m}
    /\ UNCHANGED <<balance, obStatus, obAttempts, obAged, deposited, refunded>>

\* UPDATE of ClaimMessageForSending, when it matches.
ClaimMessage(m) == SetMessage(m, "sending")

\* WHERE id = $1 and nothing else: the current status is not looked at.
MarkMessageSent(m) == SetMessage(m, "sent")
MarkMessageFailed(m) == SetMessage(m, "failed")

-------------------------------------------------------------------------------
(***************************************************************************)
(* Time                                                                    *)
(***************************************************************************)

\* The claim on outbox row m passes outboxClaimStaleAfter.
OutboxClaimAges(m) ==
    /\ obStatus[m] = "publishing" /\ m \notin obAged
    /\ obAged' = obAged \cup {m}
    /\ UNCHANGED <<balance, msgStatus, msgAged, obStatus, obAttempts, deposited, refunded>>

\* The claim on message m passes sendingStaleAfter.
MessageClaimAges(m) ==
    /\ msgStatus[m] = "sending" /\ m \notin msgAged
    /\ msgAged' = msgAged \cup {m}
    /\ UNCHANGED <<balance, msgStatus, obStatus, obAttempts, obAged, deposited, refunded>>
===============================================================================
