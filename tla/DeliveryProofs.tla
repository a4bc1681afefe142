---------------------------- MODULE DeliveryProofs ----------------------------
(***************************************************************************)
(* Theorems about Delivery.tla, for all values of its constants.            *)
(***************************************************************************)
EXTENDS Delivery, FiniteSetTheorems, TLAPS

-------------------------------------------------------------------------------
(***************************************************************************)
(* Type correctness of the statements of Repo.tla                          *)
(***************************************************************************)

\* A set of messages costs a natural number.
LEMMA CostType == \A S \in SUBSET Msgs : Cost(S) \in Nat /\ Cost(S) = Cardinality(S)
  <1>1. SUFFICES ASSUME NEW S \in SUBSET Msgs
                 PROVE  Cost(S) \in Nat /\ Cost(S) = Cardinality(S)
    OBVIOUS
  <1>2. Cardinality(S) \in Nat
    BY FS_Subset, FS_CardinalityType, MsgsAssumption
  <1> QED
    BY <1>2 DEF Cost, smsCost

\* persistSend keeps the tables typed; in particular it never overdraws.
LEMMA PersistSendType ==
  ASSUME RepoTypeOK, faults' \in Nat, NEW u \in Users, NEW S \in SUBSET Msgs,
         PersistSend(u, S)
  PROVE  RepoTypeOK'
  <1>1. balance' \in [Users -> Nat]
    BY CostType DEF RepoTypeOK, PersistSend, Covered, Debited
  <1>2. msgStatus' \in [Msgs -> MessageStatus] /\ obStatus' \in [Msgs -> OutboxStatus]
    BY DEF RepoTypeOK, PersistSend, Covered, Debited, MessageStatus, OutboxStatus
  <1> QED
    BY <1>1, <1>2 DEF RepoTypeOK, PersistSend, Covered, Debited

\* AddBalance keeps the tables typed.
LEMMA AddBalanceType ==
  ASSUME RepoTypeOK, faults' \in Nat, NEW u \in Users, NEW n \in Nat, AddBalance(u, n)
  PROVE  RepoTypeOK'
  BY DEF RepoTypeOK, AddBalance

\* So does the UPDATE of ClaimPendingOutbox.
LEMMA ClaimRowsType ==
  ASSUME RepoTypeOK, faults' \in Nat, NEW S \in SUBSET Msgs, ClaimRows(S)
  PROVE  RepoTypeOK'
  BY DEF RepoTypeOK, ClaimRows, OutboxStatus

\* So do the other statements on outbox rows, the refund included.
LEMMA OutboxStatementsType ==
  ASSUME RepoTypeOK, faults' \in Nat, NEW m \in Msgs,
         MarkOutboxPublished(m) \/ RecordOutboxFailure(m) \/ FinalizeOutboxExhausted(m)
         \/ OutboxClaimAges(m)
  PROVE  RepoTypeOK'
  <1>1. CASE MarkOutboxPublished(m)
    BY <1>1 DEF RepoTypeOK, MarkOutboxPublished, SetOutbox, StillOpen, OutboxStatus,
             tables
  <1>2. CASE RecordOutboxFailure(m)
    BY <1>2 DEF RepoTypeOK, RecordOutboxFailure, SetOutbox, StillOpen, OutboxStatus,
             tables
  <1>3. CASE FinalizeOutboxExhausted(m)
    <2>1. obStatus' \in [Msgs -> OutboxStatus] /\ obAged' \subseteq Msgs
      BY <1>3 DEF RepoTypeOK, FinalizeOutboxExhausted, StillOpen, OpenMessage,
             MessageFailed, OutboxStatus
    <2>2. msgStatus' \in [Msgs -> MessageStatus] /\ msgAged' \subseteq Msgs
      BY <1>3 DEF RepoTypeOK, FinalizeOutboxExhausted, StillOpen, OpenMessage,
             MessageFailed, MessageStatus
    <2>3. balance' \in [Users -> Nat] /\ refunded' \subseteq Msgs
      BY <1>3, OwnerAssumption DEF RepoTypeOK, FinalizeOutboxExhausted, StillOpen, OpenMessage,
             MessageFailed, smsCost
    <2> QED
      BY <1>3, <2>1, <2>2, <2>3 DEF RepoTypeOK, FinalizeOutboxExhausted, StillOpen, OpenMessage,
             MessageFailed
  <1>4. CASE OutboxClaimAges(m)
    BY <1>4 DEF RepoTypeOK, OutboxClaimAges
  <1> QED
    BY <1>1, <1>2, <1>3, <1>4

\* So do the statements on messages.
LEMMA MessageStatementsType ==
  ASSUME RepoTypeOK, faults' \in Nat, NEW m \in Msgs,
         ClaimMessage(m) \/ MarkMessageSent(m) \/ MarkMessageFailed(m) \/ MessageClaimAges(m)
  PROVE  RepoTypeOK'
  BY DEF RepoTypeOK, ClaimMessage, SetMessage, MarkMessageSent,
             MarkMessageFailed, MessageClaimAges, MessageStatus

\* A step that leaves the tables alone keeps them typed.
LEMMA NoStatementType ==
  ASSUME RepoTypeOK, faults' \in Nat, UNCHANGED tables
  PROVE  RepoTypeOK'
  BY DEF RepoTypeOK, tables

\* The fault counter is a number.
LEMMA FaultType ==
  ASSUME faults \in Nat, NoFault \/ \E k \in AllFaultKinds : Fault(k)
  PROVE  faults' \in Nat
  BY DEF NoFault, Fault

-------------------------------------------------------------------------------
(***************************************************************************)
(* Type correctness of the actions                                         *)
(***************************************************************************)

\* The records a worker or a foreign producer may write.
LEMMA RecordTypes == Msgs \subseteq Records /\ Foreign \subseteq Records
  BY DEF Records

\* Appending a record keeps the log typed.
LEMMA AppendType ==
  ASSUME BrokerTypeOK, NEW p \in Partitions, NEW r \in Records,
         log' = [log EXCEPT ![p] = Append(@, r)]
  PROVE  log' \in [Partitions -> Seq(Records)]
  <1>1. log[p] \in Seq(Records)
    BY DEF BrokerTypeOK
  <1>2. Append(log[p], r) \in Seq(Records)
    BY <1>1
  <1> QED
    BY <1>2 DEF BrokerTypeOK

\* The two ways a worker leaves a statement.
LEMMA ContinueType ==
  ASSUME WorkerTypeOK, NEW w \in Instances, cur[w] \in Msgs, Continue(w)
  PROVE  WorkerTypeOK'
  BY DEF Continue, WorkerTypeOK, WorkerPC, NoMsg

\* A worker that moves on within an event stays typed.
LEMMA GotoType ==
  ASSUME WorkerTypeOK, NEW w \in Instances, cur[w] \in Msgs, NEW pc \in WorkerPC, Goto(w, pc)
  PROVE  WorkerTypeOK'
  BY DEF Goto, WorkerTypeOK

\* A step of an outbox worker keeps every variable typed.
LEMMA WorkerStepType ==
  ASSUME TypeOK, NEW w \in Instances, Outbox(w)
  PROVE  TypeOK'
  <1> USE DEF TypeOK
  <1>0. ConsumerTypeOK'
    BY DEF Outbox, ConsumerTypeOK, consumerVars
  <1>c. wpc[w] # "next" => cur[w] \in Msgs
    BY DEF WorkerTypeOK
  <1>1. CASE ClaimPendingOutbox(w)
    <2>1. PICK skipped \in SUBSET LockedByOthers(w) :
             LET S == ClaimedRows(BatchSize, skipped)
             IN  /\ ClaimRows(S)
                 /\ \/ /\ NoFault
                       /\ events' = [events EXCEPT ![w] =
                             [m \in Msgs |-> IF m \in S THEN obAttempts[m] + 1 ELSE 0]]
                    \/ /\ Fault("db")
                       /\ UNCHANGED events
      BY <1>1 DEF ClaimPendingOutbox
    <2> DEFINE S == ClaimedRows(BatchSize, skipped)
    <2>2. S \in SUBSET Msgs
      BY DEF ClaimedRows, Claimable
    <2>3. faults' \in Nat
      BY <2>1 DEF RepoTypeOK, Fault, NoFault
    <2>4. RepoTypeOK'
      BY <2>1, <2>2, <2>3, ClaimRowsType
    <2>5. events' \in [Instances -> [Msgs -> Nat]]
      <3>1. [m \in Msgs |-> IF m \in S THEN obAttempts[m] + 1 ELSE 0] \in [Msgs -> Nat]
        BY DEF RepoTypeOK
      <3> QED
        BY <2>1, <3>1 DEF WorkerTypeOK
    <2> QED
      BY <1>0, <1>1, <2>4, <2>5 DEF ClaimPendingOutbox, BrokerTypeOK, brokerVars, WorkerTypeOK
  <1>2. ASSUME NEW m \in Msgs, PublishEvent(w, m)
        PROVE  TypeOK'
    <2>1. RepoTypeOK'
      BY <1>2 DEF PublishEvent, RepoTypeOK, repoVars
    <2>2. log' \in [Partitions -> Seq(Records)]
      <3>1. UNCHANGED log \/ AppendRecord(m)
        BY <1>2 DEF PublishEvent
      <3>2. PartitionOf[m] \in Partitions /\ m \in Records
        BY PartitionAssumption, RecordTypes
      <3> QED
        BY <3>1, <3>2, AppendType DEF AppendRecord, BrokerTypeOK
    <2>3. WorkerTypeOK'
      <3>1. tries' \in [Msgs -> Nat]
        BY <1>2 DEF PublishEvent, WorkerTypeOK
      <3>2. wpc' \in [Instances -> WorkerPC]
        BY <1>2 DEF PublishEvent, PublishError, WorkerTypeOK, WorkerPC
      <3>3. cur' \in [Instances -> Msgs \cup {NoMsg}] /\ cur'[w] = m /\ UNCHANGED events
        BY <1>2 DEF PublishEvent, WorkerTypeOK
      <3>4. \A v \in Instances : wpc'[v] # "next" => cur'[v] \in Msgs
        BY <1>2, <3>3 DEF PublishEvent, WorkerTypeOK
      <3> QED
        BY <3>1, <3>2, <3>3, <3>4 DEF WorkerTypeOK
    <2> QED
      BY <1>0, <1>2, <2>1, <2>2, <2>3 DEF PublishEvent, BrokerTypeOK
  <1>3. CASE MarkPublished(w)
    <2>1. RepoTypeOK'
      BY <1>3, <1>c, OutboxStatementsType, NoStatementType
         DEF MarkPublished, NoFault, Fault, RepoTypeOK
    <2>2. WorkerTypeOK'
      BY <1>3, <1>c, ContinueType DEF MarkPublished
    <2> QED
      BY <1>0, <1>3, <2>1, <2>2 DEF MarkPublished, BrokerTypeOK, brokerVars
  <1>4. CASE RecordFailure(w)
    <2>1. RepoTypeOK'
      BY <1>4, <1>c, OutboxStatementsType, NoStatementType
         DEF RecordFailure, NoFault, Fault, RepoTypeOK
    <2>2. WorkerTypeOK'
      BY <1>4, <1>c, ContinueType DEF RecordFailure
    <2> QED
      BY <1>0, <1>4, <2>1, <2>2 DEF RecordFailure, BrokerTypeOK, brokerVars
  <1>5. CASE DeadLetter(w)
    <2>1. RepoTypeOK'
      BY <1>5 DEF DeadLetter, RepoTypeOK, repoVars
    <2>2. dlq' \subseteq DLQReasons \X Records
      BY <1>5, <1>c DEF DeadLetter, PublishDLQ, BrokerTypeOK, DLQReasons, Records
    <2>3. WorkerTypeOK'
      BY <1>5, <1>c, GotoType DEF DeadLetter, WorkerPC
    <2> QED
      BY <1>0, <1>5, <2>1, <2>2, <2>3 DEF DeadLetter, BrokerTypeOK
  <1>6. CASE Finalize(w)
    <2>1. RepoTypeOK'
      BY <1>6, <1>c, OutboxStatementsType, NoStatementType
         DEF Finalize, NoFault, Fault, RepoTypeOK
    <2>2. WorkerTypeOK'
      BY <1>6, <1>c, ContinueType, GotoType DEF Finalize, WorkerPC
    <2> QED
      BY <1>0, <1>6, <2>1, <2>2 DEF Finalize, BrokerTypeOK, brokerVars
  <1> QED
    BY <1>1, <1>2, <1>3, <1>4, <1>5, <1>6 DEF Outbox, WorkerStep

\* The two ways a consumer goes on.
LEMMA NextRecordType ==
  ASSUME ConsumerTypeOK, NEW c \in Consumers, NextRecord(c),
         assigned' \in [Consumers -> SUBSET Partitions], rpos' \in [Partitions -> Nat],
         delivered' \subseteq Msgs, calls' \in [Msgs -> Nat]
  PROVE  ConsumerTypeOK'
  <1>1. NoPart \in Partitions /\ BadPayload \in Records /\ "fetch" \notin Sending
    BY PartitionAssumption DEF NoPart, Records, Foreign, Sending
  <1>2. /\ rec' \in [Consumers -> Records] /\ part' \in [Consumers -> Partitions]
        /\ off' \in [Consumers -> Nat] /\ try' \in [Consumers -> 0..MaxProviderAttempts]
    BY <1>1, ConsumerAssumption DEF NextRecord, ConsumerTypeOK
  <1>3. /\ cpc' \in [Consumers -> ConsumerPC]
        /\ \A d \in Consumers : cpc'[d] \in Sending => rec'[d] \in Msgs
    BY <1>1 DEF NextRecord, ConsumerTypeOK, ConsumerPC
  <1> QED
    BY <1>2, <1>3 DEF ConsumerTypeOK

\* A consumer that moves on within a record stays typed.
LEMMA StepType ==
  ASSUME ConsumerTypeOK, NEW c \in Consumers, NEW pc \in ConsumerPC, Step(c, pc),
         pc \in Sending => rec[c] \in Msgs,
         assigned' \in [Consumers -> SUBSET Partitions], rpos' \in [Partitions -> Nat],
         delivered' \subseteq Msgs, calls' \in [Msgs -> Nat]
  PROVE  ConsumerTypeOK'
  BY DEF Step, ConsumerTypeOK

\* A step of a consumer keeps every variable typed.
LEMMA ConsumerStepType ==
  ASSUME TypeOK, NEW c \in Consumers, Consume(c)
  PROVE  TypeOK'
  <1> USE DEF TypeOK
  <1>0. WorkerTypeOK'
    BY DEF Consume, WorkerTypeOK, workerVars
  <1>s. cpc[c] \in Sending => rec[c] \in Msgs
    BY DEF ConsumerTypeOK
  <1>r. /\ assigned \in [Consumers -> SUBSET Partitions] /\ rpos \in [Partitions -> Nat]
        /\ delivered \subseteq Msgs /\ calls \in [Msgs -> Nat]
    BY DEF ConsumerTypeOK
  <1>f. ASSUME NoFault \/ \E k \in AllFaultKinds : Fault(k), UNCHANGED tables
        PROVE  RepoTypeOK'
    BY <1>f, FaultType, NoStatementType DEF RepoTypeOK
  <1>1. ASSUME NEW p \in Partitions, Fetch(c, p)
        PROVE  TypeOK'
    <2>1. RecordAt(p, rpos[p]) \in Records
      <3>1. log[p] \in Seq(Records) /\ rpos[p] \in Nat /\ rpos[p] + 1 \in 1..Len(log[p])
        BY <1>1 DEF Fetch, BrokerTypeOK, ConsumerTypeOK
      <3> QED
        BY <3>1 DEF RecordAt
    <2>2. ConsumerTypeOK'
      BY <1>1, <2>1 DEF Fetch, ConsumerTypeOK, ConsumerPC, Sending
    <2> QED
      BY <1>0, <1>1, <2>2 DEF Fetch, RepoTypeOK, repoVars, BrokerTypeOK, brokerVars
  <1>2. CASE RejectPayload(c)
    <2>1. ConsumerTypeOK'
      BY <1>2, <1>r, StepType DEF RejectPayload, ConsumerPC, Sending, readerVars
    <2>2. BrokerTypeOK'
      BY <1>2 DEF RejectPayload, BrokerTypeOK, PublishDLQ, DLQReasons, Records, Foreign
    <2> QED
      BY <1>0, <1>2, <2>1, <2>2 DEF RejectPayload, RepoTypeOK, repoVars
  <1>3. CASE ClaimForSending(c)
    <2>1. RepoTypeOK'
      BY <1>3, MessageStatementsType, NoStatementType
         DEF ClaimForSending, NoFault, Fault, RepoTypeOK
    <2>2. ConsumerTypeOK'
      <3>1. CASE cpc' = [cpc EXCEPT ![c] = "send"] /\ try' = [try EXCEPT ![c] = 1]
                 /\ UNCHANGED <<rec, part, off>>
        BY <1>3, <3>1, ConsumerAssumption
           DEF ClaimForSending, ConsumerTypeOK, ConsumerPC, readerVars
      <3>2. CASE NextRecord(c)
        BY <1>3, <1>r, <3>2, NextRecordType DEF ClaimForSending, readerVars
      <3> QED
        BY <1>3, <3>1, <3>2 DEF ClaimForSending
    <2> QED
      BY <1>0, <1>3, <2>1, <2>2 DEF ClaimForSending, BrokerTypeOK, brokerVars
  <1>4. CASE ClaimMisses(c)
    <2>1. RepoTypeOK'
      BY <1>4, <1>f DEF ClaimMisses, AllFaultKinds
    <2>2. ConsumerTypeOK'
      BY <1>4, <1>r, StepType, NextRecordType DEF ClaimMisses, ConsumerPC, Sending, readerVars
    <2> QED
      BY <1>0, <1>4, <2>1, <2>2 DEF ClaimMisses, BrokerTypeOK, brokerVars
  <1>5. CASE Lookup(c)
    <2>1. RepoTypeOK'
      BY <1>5, <1>f DEF Lookup, AllFaultKinds
    <2>2. ConsumerTypeOK'
      BY <1>5, <1>r, StepType, NextRecordType DEF Lookup, ConsumerPC, Sending, readerVars
    <2> QED
      BY <1>0, <1>5, <2>1, <2>2 DEF Lookup, BrokerTypeOK, brokerVars
  <1>6. CASE SendWithRetry(c)
    <2>0. rec[c] \in Msgs /\ delivered' \subseteq Msgs /\ calls' \in [Msgs -> Nat]
      BY <1>6, <1>s, <1>r DEF SendWithRetry, LastTry, Sending
    <2>1. RepoTypeOK'
      BY <1>6, <1>f DEF SendWithRetry, LastTry, AllFaultKinds
    <2>2. ConsumerTypeOK'
      <3>1. CASE \E pc \in {"sent", "failed"} : Step(c, pc)
        BY <1>6, <1>r, <2>0, <3>1, StepType DEF SendWithRetry, LastTry, ConsumerPC, readerVars
      <3>2. CASE /\ try[c] # MaxProviderAttempts
                 /\ try' = [try EXCEPT ![c] = @ + 1] /\ UNCHANGED <<cpc, rec, part, off>>
        BY <1>6, <2>0, <3>2, ConsumerAssumption
           DEF SendWithRetry, LastTry, ConsumerTypeOK, readerVars
      <3>3. CASE NextRecord(c)
        BY <1>6, <1>r, <2>0, <3>3, NextRecordType DEF SendWithRetry, LastTry, readerVars
      <3> QED
        BY <1>6, <3>1, <3>2, <3>3 DEF SendWithRetry, LastTry
    <2> QED
      BY <1>0, <1>6, <2>1, <2>2 DEF SendWithRetry, LastTry, BrokerTypeOK, brokerVars
  <1>7. CASE MarkSent(c)
    <2>1. RepoTypeOK'
      BY <1>7, <1>s, MessageStatementsType, NoStatementType
         DEF MarkSent, Sending, NoFault, Fault, RepoTypeOK
    <2>2. ConsumerTypeOK'
      BY <1>7, <1>r, StepType, NextRecordType DEF MarkSent, ConsumerPC, Sending, readerVars
    <2> QED
      BY <1>0, <1>7, <2>1, <2>2 DEF MarkSent, BrokerTypeOK, brokerVars
  <1>8. CASE MarkFailed(c)
    <2>1. RepoTypeOK'
      BY <1>8, <1>s, MessageStatementsType, NoStatementType
         DEF MarkFailed, Sending, NoFault, Fault, RepoTypeOK
    <2>2. ConsumerTypeOK'
      BY <1>8, <1>r, StepType, NextRecordType DEF MarkFailed, ConsumerPC, Sending, readerVars
    <2> QED
      BY <1>0, <1>8, <2>1, <2>2 DEF MarkFailed, BrokerTypeOK, brokerVars
  <1>9. CASE ToDLQ(c)
    <2>1. ConsumerTypeOK'
      BY <1>9, <1>r, StepType DEF ToDLQ, ConsumerPC, Sending, readerVars
    <2>2. BrokerTypeOK'
      BY <1>9 DEF ToDLQ, BrokerTypeOK, PublishDLQ, DLQReasons, ConsumerTypeOK
    <2> QED
      BY <1>0, <1>9, <2>1, <2>2 DEF ToDLQ, RepoTypeOK, repoVars
  <1>10. CASE Commit(c)
    <2>1. RepoTypeOK'
      BY <1>10, <1>f DEF Commit, AllFaultKinds
    <2>2. ConsumerTypeOK'
      BY <1>10, <1>r, NextRecordType DEF Commit, readerVars
    <2>3. BrokerTypeOK'
      BY <1>10 DEF Commit, CommitOffset, BrokerTypeOK, ConsumerTypeOK
    <2> QED
      BY <1>0, <2>1, <2>2, <2>3
  <1> QED
    BY <1>1, <1>2, <1>3, <1>4, <1>5, <1>6, <1>7, <1>8, <1>9, <1>10 DEF Consume, ConsumerStep

\* Every step of the gateway keeps every variable typed.
LEMMA NextType ==
  ASSUME TypeOK, [Next]_vars
  PROVE  TypeOK'
  <1> USE DEF TypeOK
  <1>0. CASE UNCHANGED vars
    BY <1>0 DEF vars, repoVars, brokerVars, workerVars, consumerVars, RepoTypeOK,
             BrokerTypeOK, WorkerTypeOK, ConsumerTypeOK
  <1>1. ASSUME NEW u \in Users, NEW S \in SUBSET Msgs, Accept(u, S)
        PROVE  TypeOK'
    <2>1. RepoTypeOK'
      BY <1>1, PersistSendType DEF Accept, NoFault, RepoTypeOK
    <2> QED
      BY <1>1, <2>1 DEF Accept, BrokerTypeOK, WorkerTypeOK, ConsumerTypeOK, brokerVars,
             workerVars, consumerVars
  <1>2. ASSUME NEW u \in Users, NEW n \in Deposits, TopUp(u, n)
        PROVE  TypeOK'
    <2>1. RepoTypeOK'
      BY <1>2, AddBalanceType, DeliveryAssumption DEF TopUp, NoFault, RepoTypeOK
    <2> QED
      BY <1>2, <2>1 DEF TopUp, BrokerTypeOK, WorkerTypeOK, ConsumerTypeOK, brokerVars,
             workerVars, consumerVars
  <1>3. ASSUME NEW m \in Msgs, OutboxTime(m)
        PROVE  TypeOK'
    <2>1. RepoTypeOK'
      BY <1>3, OutboxStatementsType DEF OutboxTime, AgeOutboxClaim, NoFault, Fault, RepoTypeOK
    <2> QED
      BY <1>3, <2>1 DEF OutboxTime, AgeOutboxClaim, BrokerTypeOK, WorkerTypeOK,
             ConsumerTypeOK, brokerVars, workerVars, consumerVars
  <1>4. ASSUME NEW m \in Msgs, MessageTime(m)
        PROVE  TypeOK'
    <2>1. RepoTypeOK'
      BY <1>4, MessageStatementsType
         DEF MessageTime, AgeMessageClaim, NoFault, Fault, RepoTypeOK
    <2> QED
      BY <1>4, <2>1 DEF MessageTime, AgeMessageClaim, BrokerTypeOK, WorkerTypeOK,
             ConsumerTypeOK, brokerVars, workerVars, consumerVars
  <1>5. ASSUME NEW t \in {"express", "normal"}, Regroup(t)
        PROVE  TypeOK'
    <2>1. RepoTypeOK'
      BY <1>5, NoStatementType DEF Regroup, Rebalance, Fault, RepoTypeOK
    <2>2. assigned' \in [Consumers -> SUBSET Partitions] /\ rpos' \in [Partitions -> Nat]
      BY <1>5 DEF Regroup, Rebalance, Reassign, Assignments, ConsumerTypeOK,
             BrokerTypeOK
    <2> QED
      BY <1>5, <2>1, <2>2 DEF Regroup, Rebalance, BrokerTypeOK, WorkerTypeOK, ConsumerTypeOK,
             brokerVars, workerVars, jobVars
  <1>6. ASSUME NEW p \in Partitions, NEW r \in Foreign, Intrude(p, r)
        PROVE  TypeOK'
    <2>1. RepoTypeOK'
      BY <1>6, NoStatementType DEF Intrude, ForeignRecord, Fault, RepoTypeOK
    <2>2. log' \in [Partitions -> Seq(Records)]
      BY <1>6, RecordTypes, AppendType DEF Intrude, ForeignRecord, AppendForeign
    <2> QED
      BY <1>6, <2>1, <2>2 DEF Intrude, ForeignRecord, BrokerTypeOK, WorkerTypeOK, ConsumerTypeOK,
             workerVars, consumerVars
  <1>7. ASSUME NEW i \in Instances, Crash(i)
        PROVE  TypeOK'
    <2>1. RepoTypeOK'
      BY <1>7, NoStatementType DEF Crash, Fault, RepoTypeOK
    <2>2. WorkerTypeOK'
      BY <1>7 DEF Crash, StopWorker, WorkerTypeOK, WorkerPC, NoEvents, NoMsg
    <2>3. NoPart \in Partitions /\ BadPayload \in Records /\ "fetch" \notin Sending
      BY PartitionAssumption DEF NoPart, Records, Foreign, Sending
    <2>4. /\ rec' \in [Consumers -> Records] /\ part' \in [Consumers -> Partitions]
          /\ off' \in [Consumers -> Nat] /\ try' \in [Consumers -> 0..MaxProviderAttempts]
      BY <1>7, <2>3, ConsumerAssumption DEF Crash, ConsumerTypeOK
    <2>5. /\ cpc' \in [Consumers -> ConsumerPC]
          /\ \A d \in Consumers : cpc'[d] \in Sending => rec'[d] \in Msgs
      BY <1>7, <2>3 DEF Crash, ConsumerTypeOK, ConsumerPC
    <2>6. assigned' \in [Consumers -> SUBSET Partitions] /\ rpos' \in [Partitions -> Nat]
      BY <1>7 DEF Crash, Assignments, BrokerTypeOK
    <2> QED
      BY <1>7, <2>1, <2>2, <2>4, <2>5, <2>6 DEF Crash, BrokerTypeOK, ConsumerTypeOK, brokerVars
  <1> QED
    BY <1>0, <1>1, <1>2, <1>3, <1>4, <1>5, <1>6, <1>7, WorkerStepType, ConsumerStepType DEF Next

\* The initial state is typed.
LEMMA InitType == Init => TypeOK
  <1> SUFFICES ASSUME Init PROVE TypeOK
    OBVIOUS
  <1>1. RepoTypeOK
    BY BalanceAssumption DEF Init, RepoInit, RepoTypeOK, MessageStatus, OutboxStatus
  <1>2. BrokerTypeOK
    BY DEF Init, BrokerInit, BrokerTypeOK
  <1>3. WorkerTypeOK
    BY DEF Init, WorkerInit, WorkerTypeOK, WorkerPC, NoEvents, NoMsg
  <1>4. NoPart \in Partitions /\ BadPayload \in Records
    BY PartitionAssumption DEF NoPart, Records, Foreign
  <1>5. ConsumerTypeOK
    BY <1>4, ConsumerAssumption
       DEF Init, ConsumerInit, ConsumerTypeOK, ConsumerPC, Assignments, Sending
  <1> QED
    BY <1>1, <1>2, <1>3, <1>5 DEF TypeOK

\* Every variable always has its type; no balance is ever negative and no
\* consumer holds a claim on a record that is not a message.
THEOREM TypeCorrect == Spec => []TypeOK
  <1>1. TypeOK /\ [Next]_vars => TypeOK'
    BY NextType
  <1> QED
    BY <1>1, InitType, PTL DEF Spec
===============================================================================
