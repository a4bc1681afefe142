------------------------------- MODULE Delivery -------------------------------
(***************************************************************************)
(* The gateway from the accepted request to the SMS: the outbox workers and *)
(* the SMS consumers of several instances over one database and one Kafka.  *)
(***************************************************************************)
EXTENDS OutboxWorker, SMSConsumer

CONSTANTS
    Deposits,   \* amounts AddBalance is called with
    Home,       \* Home[c]: the instance consumer c runs in
    Recipient   \* Recipient[m]: partition key of m

ASSUME DeliveryAssumption ==
    /\ Deposits \subseteq Nat \ {0}
    /\ Home \in [Consumers -> Instances]
    /\ \A m, n \in Msgs : Recipient[m] = Recipient[n] /\ Topic[m] = Topic[n]
                             => PartitionOf[m] = PartitionOf[n]

vars == <<repoVars, brokerVars, workerVars, consumerVars>>

Init ==
    /\ RepoInit
    /\ BrokerInit
    /\ WorkerInit
    /\ ConsumerInit

-------------------------------------------------------------------------------
Accept(u, S) ==
    /\ PersistSend(u, S) /\ NoFault
    /\ UNCHANGED <<brokerVars, workerVars, consumerVars>>

TopUp(u, n) ==
    /\ AddBalance(u, n) /\ NoFault
    /\ UNCHANGED <<brokerVars, workerVars, consumerVars>>

Outbox(w) == WorkerStep(w) /\ UNCHANGED consumerVars
Consume(c) == ConsumerStep(c) /\ UNCHANGED workerVars

OutboxTime(m) == AgeOutboxClaim(m) /\ UNCHANGED consumerVars
MessageTime(m) == AgeMessageClaim(m) /\ UNCHANGED workerVars

Regroup(t) == Rebalance(t) /\ UNCHANGED workerVars
Intrude(p, r) == ForeignRecord(p, r) /\ UNCHANGED workerVars

\* The process of instance i dies and is started again: its outbox worker and
\* its consumers lose what they had in memory, and the groups of both lanes
\* rebalance.
Crash(i) ==
    /\ Fault("crash")
    /\ StopWorker(i)
    /\ cpc' = [c \in Consumers |-> IF Home[c] = i THEN "fetch" ELSE cpc[c]]
    /\ rec' = [c \in Consumers |-> IF Home[c] = i THEN BadPayload ELSE rec[c]]
    /\ part' = [c \in Consumers |-> IF Home[c] = i THEN NoPart ELSE part[c]]
    /\ off' = [c \in Consumers |-> IF Home[c] = i THEN 0 ELSE off[c]]
    /\ try' = [c \in Consumers |-> IF Home[c] = i THEN 0 ELSE try[c]]
    /\ assigned' \in Assignments
    /\ rpos' = committed
    /\ UNCHANGED <<tables, brokerVars, delivered, calls>>

Next ==
    \/ \E u \in Users : \E S \in SUBSET Msgs : Accept(u, S)
    \/ \E u \in Users, n \in Deposits : TopUp(u, n)
    \/ \E w \in Instances : Outbox(w)
    \/ \E c \in Consumers : Consume(c)
    \/ \E m \in Msgs : OutboxTime(m) \/ MessageTime(m)
    \/ \E t \in {"express", "normal"} : Regroup(t)
    \/ \E p \in Partitions, r \in Foreign : Intrude(p, r)
    \/ \E i \in Instances : Crash(i)

Spec == Init /\ [][Next]_vars

\* The ticker of Run and the loop of runWorker go on as long as the process
\* lives, and time passes: a claim nobody works on any more becomes stale.
Fairness ==
    /\ \A w \in Instances : WF_vars(Outbox(w))
    /\ \A c \in Consumers : WF_vars(Consume(c))
    /\ \A m \in Msgs : WF_vars(OutboxTime(m) /\ NoFault)
    /\ \A m \in Msgs : WF_vars(MessageTime(m) /\ NoFault)

FairSpec == Spec /\ Fairness

-------------------------------------------------------------------------------
(***************************************************************************)
(* Safety                                                                  *)
(***************************************************************************)

\* Every variable has its type.
TypeOK ==
    /\ RepoTypeOK
    /\ BrokerTypeOK
    /\ WorkerTypeOK
    /\ ConsumerTypeOK

\* Messages that u has paid for and not got back.
Charged(u) ==
    {m \in Msgs : Owner[m] = u /\ msgStatus[m] # "none" /\ m \notin refunded}

\* No money is made or lost: what a user paid in is the balance plus the price
\* of every accepted message that was not refunded, whatever the workers,
\* retries and crashes did to the messages.
LedgerBalanced ==
    \A u \in Users :
        balance[u] + Cost(Charged(u)) = InitialBalance[u] + deposited[u]

Terminal == {"sent", "failed"}

\* A message is refunded only after maxAttempts claims of its outbox row, and a
\* refunded message is over: no worker will take it for queued or sending.
RefundedIsOver ==
    \A m \in refunded : msgStatus[m] \in Terminal /\ obAttempts[m] >= MaxAttempts

\* An exhausted outbox row never leaves its message behind in queued or
\* sending, where nobody would ever look at it again.
ExhaustedLeavesNothingOpen ==
    \A m \in Msgs : obStatus[m] = "failed" => msgStatus[m] \in Terminal

\* A row is published only when its record is on the topic: retries, stale
\* claims and two workers on one row never mark a record that was not written.
PublishedIsInLog ==
    \A m \in Msgs : obStatus[m] = "published" => InLog(m)

\* A message shown as sent was accepted by the provider.
SentWasDelivered ==
    \A m \in Msgs : msgStatus[m] = "sent" => m \in delivered

\* Nothing goes to the DLQ early: an event is reported as exhausted only after
\* maxAttempts claims, and as refused by the provider only when its message is
\* settled.  (It may be settled as sent: another copy may have been delivered.)
DeadLetterIsEarned ==
    \A m \in Msgs :
        /\ <<"outbox_exhausted", m>> \in dlq => obAttempts[m] >= MaxAttempts
        /\ <<"provider_error", m>> \in dlq => msgStatus[m] \in Terminal

(***************************************************************************)
(* What the invariants above rest on: what a worker or a consumer remembers *)
(* about a row stays true while others change the row.                     *)
(***************************************************************************)

\* A message and its outbox row exist together.
RowsTogether ==
    \A m \in Msgs : obStatus[m] = "none" <=> msgStatus[m] = "none"

\* The batch of a worker holds existing rows with attempts that were counted;
\* before a mark the record is in the log, before a finalize the row has used
\* up its attempts.
WorkersRemember ==
    \A w \in Instances :
        /\ \A m \in Msgs : events[w][m] > 0 =>
              obStatus[m] # "none" /\ events[w][m] <= obAttempts[m]
        /\ wpc[w] # "next" => obStatus[cur[w]] # "none"
        /\ wpc[w] = "mark" => InLog(cur[w])
        /\ wpc[w] \in {"dlq", "finalize"} => obAttempts[cur[w]] >= MaxAttempts

\* A consumer that sends has an existing message, one that marks it sent has
\* the provider's word for it, one that reports it has settled it.
ConsumersRemember ==
    \A c \in Consumers :
        /\ cpc[c] \in Sending => msgStatus[rec[c]] # "none"
        /\ cpc[c] = "sent" => rec[c] \in delivered
        /\ cpc[c] = "dlq" => rec[c] \in Msgs /\ msgStatus[rec[c]] \in Terminal

\* The inductive invariant: what is promised and what it rests on.
IndInv ==
    /\ TypeOK
    /\ RowsTogether
    /\ WorkersRemember
    /\ ConsumersRemember
    /\ RefundedIsOver
    /\ ExhaustedLeavesNothingOpen
    /\ PublishedIsInLog
    /\ SentWasDelivered
    /\ DeadLetterIsEarned

Copies(m) ==
    Cardinality({i \in 1..Len(log[PartitionOf[m]]) : log[PartitionOf[m]][i] = m})

\* However many workers share a row through stale claims, its record is
\* published at most once per claim and at most maxAttempts times in all (a
\* Publish counts as one copy, see AppendRecord).
CopiesBounded ==
    \A m \in Msgs : Copies(m) <= obAttempts[m] /\ Copies(m) <= MaxAttempts

\* A row fails only after the publisher has been asked maxAttempts times, less
\* the attempts that a crash, a database error or a stalled batch took away: a
\* claim counts as an attempt before anything is published.
ExhaustionIsEarned ==
    \A m \in Msgs : obStatus[m] = "failed" => tries[m] + faults >= MaxAttempts

\* How often a recipient may get one message: a message is sent by one claim,
\* and by another one only after a fault took the first claim away, so the
\* provider sees at most maxProviderAttempts calls for each.
ProviderCallsBounded ==
    \A m \in Msgs : calls[m] <= MaxProviderAttempts * (1 + faults)

\* While none is slower than sendingStaleAfter, one consumer at a time works on
\* a message, even while partitions move and copies of its record are around.
SingleSender ==
    \A c, d \in Consumers :
        cpc[c] \in Sending /\ cpc[d] \in Sending /\ rec[c] = rec[d] => c = d

\* A record below the committed offset is done with: its message is settled or
\* a running consumer is about to settle it.
CommittedIsHandled ==
    \A p \in Partitions : \A i \in 1..committed[p] :
        LET r == log[p][i]
        IN  r \in Msgs => \/ msgStatus[r] \in Terminal
                           \/ HeldByConsumer(r)

(***************************************************************************)
(* Action properties                                                       *)
(***************************************************************************)

\* A settled message is never taken for queued or sending again, and a settled
\* outbox row keeps its status for good.
NeverReopened ==
    [][\A m \in Msgs :
          /\ msgStatus[m] \in Terminal => msgStatus'[m] \in Terminal
          /\ obStatus[m] \in {"published", "failed"} => obStatus'[m] = obStatus[m]]_vars

\* While no consumer is slower than sendingStaleAfter, a message that is sent
\* stays sent.
SentIsFinal ==
    [][\A m \in Msgs : msgStatus[m] = "sent" => msgStatus'[m] = "sent"]_vars

(***************************************************************************)
(* Liveness                                                                *)
(***************************************************************************)

\* Every outbox row ends as published or failed, through crashes, database
\* errors and stalls.
OutboxSettles ==
    \A m \in Msgs : obStatus[m] = "pending" ~> obStatus[m] \in {"published", "failed"}

\* Every accepted message ends as sent or failed.
EveryMessageSettles ==
    \A m \in Msgs : msgStatus[m] = "queued" ~> msgStatus[m] \in Terminal

(***************************************************************************)
(* What the documentation says and the code does not do                    *)
(***************************************************************************)

\* README: an exhausted outbox row and its message are failed (and refunded).
ExhaustedMeansFailed ==
    \A m \in Msgs : obStatus[m] = "failed" => msgStatus[m] = "failed"

\* First offset of m in its partition.
FirstCopy(m) ==
    LET s == log[PartitionOf[m]]
    IN  CHOOSE i \in 1..Len(s) : s[i] = m /\ \A j \in 1..(i - 1) : s[j] # m

\* Usecase and producer: the records of one recipient keep their order.
RecipientOrder ==
    \A m, n \in Msgs :
        /\ m < n /\ Owner[m] = Owner[n] /\ Topic[m] = Topic[n]
        /\ Recipient[m] = Recipient[n]
        /\ InLog(m) /\ InLog(n)
        => FirstCopy(m) < FirstCopy(n)

(***************************************************************************)
(* The money side of all this is Ledger.tla                                *)
(***************************************************************************)
Account ==
    [m \in Msgs |-> IF msgStatus[m] = "none" THEN "none"
                    ELSE IF m \in refunded THEN "refunded" ELSE "charged"]

L == INSTANCE Ledger
        WITH Price <- smsCost, Opening <- InitialBalance, account <- Account

\* Every step of the gateway is a charge, a refund or a deposit of the abstract
\* ledger, or does not touch the money.
ImplementsLedger == L!LSpec
===============================================================================
