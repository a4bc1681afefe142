--------------------------- MODULE InvariantProofs ---------------------------
(***************************************************************************)
(* The safety invariants of Delivery.tla, for all values of its constants.  *)
(*                                                                         *)
(* Every step of the gateway does one of the things TableChange lists to    *)
(* the tables (TableChanges), and whatever it does, rows do not disappear,  *)
(* attempts do not shrink and settled messages stay settled (StepMonotone). *)
(* What workers and consumers remember is therefore stable under the steps  *)
(* of everybody else, and the invariants follow statement by statement.     *)
(***************************************************************************)
EXTENDS DeliveryProofs

\* What a step may do to the tables, and what the caller knows then.
TableChange ==
    \/ UNCHANGED tables
    \/ \E u \in Users : \E S \in SUBSET Msgs : PersistSend(u, S)
    \/ \E u \in Users, n \in Deposits : AddBalance(u, n)
    \/ \E S \in SUBSET Claimable : ClaimRows(S)
    \/ \E m \in Msgs :
          \/ OutboxClaimAges(m)
          \/ MessageClaimAges(m)
          \/ RecordOutboxFailure(m)
          \/ MarkOutboxPublished(m) /\ \E w \in Instances : wpc[w] = "mark" /\ cur[w] = m
          \/ FinalizeOutboxExhausted(m)
             /\ \E w \in Instances : wpc[w] = "finalize" /\ cur[w] = m
          \/ ClaimMessage(m) /\ CanClaimMessage(m)
          \/ MarkMessageSent(m) /\ \E c \in Consumers : cpc[c] = "sent" /\ rec[c] = m
          \/ MarkMessageFailed(m) /\ \E c \in Consumers : cpc[c] = "failed" /\ rec[c] = m

\* Every step does one of those things.
LEMMA TableChanges ==
  ASSUME TypeOK, [Next]_vars
  PROVE  TableChange
  <1>w. \A w \in Instances : wpc[w] # "next" => cur[w] \in Msgs
    BY DEF TypeOK, WorkerTypeOK
  <1>c. \A c \in Consumers : cpc[c] \in Sending => rec[c] \in Msgs
    BY DEF TypeOK, ConsumerTypeOK
  <1>0. CASE UNCHANGED vars
    BY <1>0 DEF vars, repoVars, TableChange, tables
  <1>1. ASSUME NEW w \in Instances, Outbox(w)
        PROVE  TableChange
    <2>1. CASE ClaimPendingOutbox(w)
      BY <2>1 DEF ClaimPendingOutbox, ClaimedRows, TableChange
    <2>2. CASE \E m \in Msgs : PublishEvent(w, m)
      BY <2>2 DEF PublishEvent, repoVars, tables, TableChange
    <2>3. CASE MarkPublished(w)
      BY <2>3, <1>w DEF MarkPublished, TableChange
    <2>4. CASE RecordFailure(w)
      BY <2>4, <1>w DEF RecordFailure, TableChange
    <2>5. CASE DeadLetter(w)
      BY <2>5 DEF DeadLetter, repoVars, tables, TableChange
    <2>6. CASE Finalize(w)
      BY <2>6, <1>w DEF Finalize, TableChange
    <2> QED
      BY <1>1, <2>1, <2>2, <2>3, <2>4, <2>5, <2>6 DEF Outbox, WorkerStep
  <1>2. ASSUME NEW c \in Consumers, Consume(c)
        PROVE  TableChange
    <2>1. CASE \/ \E p \in Partitions : Fetch(c, p)
               \/ RejectPayload(c) \/ ToDLQ(c)
      BY <2>1 DEF Fetch, RejectPayload, ToDLQ, repoVars, tables, TableChange
    <2>2. CASE ClaimForSending(c)
      BY <2>2 DEF ClaimForSending, TableChange
    <2>3. CASE ClaimMisses(c) \/ Lookup(c) \/ SendWithRetry(c) \/ Commit(c)
      BY <2>3 DEF ClaimMisses, Lookup, SendWithRetry, LastTry, Commit, TableChange
    <2>4. CASE MarkSent(c)
      BY <2>4, <1>c DEF MarkSent, Sending, TableChange
    <2>5. CASE MarkFailed(c)
      BY <2>5, <1>c DEF MarkFailed, Sending, TableChange
    <2> QED
      BY <1>2, <2>1, <2>2, <2>3, <2>4, <2>5 DEF Consume, ConsumerStep
  <1>3. CASE \/ \E u \in Users : \E S \in SUBSET Msgs : Accept(u, S)
             \/ \E u \in Users, n \in Deposits : TopUp(u, n)
    BY <1>3 DEF Accept, TopUp, TableChange
  <1>4. CASE \E m \in Msgs : OutboxTime(m) \/ MessageTime(m)
    BY <1>4 DEF OutboxTime, MessageTime, AgeOutboxClaim, AgeMessageClaim, TableChange
  <1>5. CASE \/ \E t \in {"express", "normal"} : Regroup(t)
             \/ \E p \in Partitions, r \in Foreign : Intrude(p, r)
             \/ \E i \in Instances : Crash(i)
    BY <1>5 DEF Regroup, Rebalance, Intrude, ForeignRecord, Crash, TableChange
  <1> QED
    BY <1>0, <1>1, <1>2, <1>3, <1>4, <1>5 DEF Next

\* The log only grows at its end: by the records of claimed rows and by those of
\* other producers.
LEMMA LogAppends ==
  ASSUME TypeOK, [Next]_vars
  PROVE  \/ UNCHANGED log
         \/ \E p \in Partitions, r \in Records :
               /\ log' = [log EXCEPT ![p] = Append(@, r)]
               /\ r \in Msgs => \E w \in Instances : events[w][r] > 0
  <1> DEFINE Appends ==
        \E p \in Partitions, r \in Records :
            /\ log' = [log EXCEPT ![p] = Append(@, r)]
            /\ r \in Msgs => \E w \in Instances : events[w][r] > 0
  <1>p. \A m \in Msgs : PartitionOf[m] \in Partitions /\ m \in Records
    BY PartitionAssumption, RecordTypes
  <1>1. ASSUME NEW w \in Instances, Outbox(w)
        PROVE  UNCHANGED log \/ Appends
    <2>1. CASE \E m \in Msgs : PublishEvent(w, m)
      BY <2>1, <1>p DEF PublishEvent, AppendRecord
    <2>2. CASE ~ \E m \in Msgs : PublishEvent(w, m)
      BY <1>1, <2>2 DEF Outbox, WorkerStep, ClaimPendingOutbox, MarkPublished, RecordFailure,
           DeadLetter, Finalize, brokerVars
    <2> QED
      BY <2>1, <2>2
  <1>2. ASSUME NEW c \in Consumers, Consume(c)
        PROVE  UNCHANGED log
    BY <1>2 DEF Consume, ConsumerStep, Fetch, RejectPayload, ClaimForSending,
           ClaimMisses, Lookup, SendWithRetry, LastTry, MarkSent, MarkFailed,
           ToDLQ, Commit, brokerVars
  <1>3. CASE \E p \in Partitions, r \in Foreign : Intrude(p, r)
    <2>1. \A r \in Foreign : r \in Records /\ r \notin Msgs
      BY RecordTypes, MsgsAssumption DEF Foreign, BadPayload, UnknownMessage
    <2> QED
      BY <1>3, <2>1 DEF Intrude, ForeignRecord, AppendForeign
  <1>4. CASE \/ UNCHANGED vars
             \/ \E u \in Users : \E S \in SUBSET Msgs : Accept(u, S)
             \/ \E u \in Users, n \in Deposits : TopUp(u, n)
             \/ \E m \in Msgs : OutboxTime(m) \/ MessageTime(m)
             \/ \E t \in {"express", "normal"} : Regroup(t)
             \/ \E i \in Instances : Crash(i)
    BY <1>4 DEF vars, Accept, TopUp, OutboxTime, MessageTime, AgeOutboxClaim,
           AgeMessageClaim, Regroup, Rebalance, Crash, brokerVars
  <1> QED
    BY <1>1, <1>2, <1>3, <1>4 DEF Next

\* No record gets lost and the provider forgets nothing.
LEMMA LogGrows ==
  ASSUME TypeOK, [Next]_vars
  PROVE  /\ \A m \in Msgs : InLog(m) => InLog(m)'
         /\ delivered \subseteq delivered'
  <1>1. \/ UNCHANGED log
        \/ \E p \in Partitions, r \in Records : log' = [log EXCEPT ![p] = Append(@, r)]
    BY LogAppends
  <1>2. ASSUME NEW m \in Msgs, InLog(m)
        PROVE  InLog(m)'
    <2> DEFINE q == PartitionOf[m]
    <2>1. q \in Partitions /\ log[q] \in Seq(Records)
      BY PartitionAssumption DEF TypeOK, BrokerTypeOK
    <2>2. PICK i \in 1..Len(log[q]) : log[q][i] = m
      BY <1>2 DEF InLog
    <2>3. CASE UNCHANGED log
      BY <1>2, <2>3 DEF InLog
    <2>4. ASSUME NEW p \in Partitions, NEW r \in Records, log' = [log EXCEPT ![p] = Append(@, r)]
          PROVE  InLog(m)'
      <3>1. log' [q] = log[q] \/ log' [q] = Append(log[q], r)
        BY <2>4, <2>1 DEF TypeOK, BrokerTypeOK
      <3>2. i \in 1..Len(log' [q]) /\ log' [q][i] = m
        BY <3>1, <2>1, <2>2
      <3> QED
        BY <3>2 DEF InLog
    <2> QED
      BY <1>1, <2>3, <2>4
  <1>3. delivered \subseteq delivered'
    <2>1. ASSUME NEW c \in Consumers, Consume(c)
          PROVE  delivered \subseteq delivered'
      BY <2>1 DEF Consume, ConsumerStep, Fetch, RejectPayload, ClaimForSending,
             ClaimMisses, Lookup, SendWithRetry, LastTry, MarkSent, MarkFailed,
             ToDLQ, Commit
    <2>2. CASE ~ \E c \in Consumers : Consume(c)
      BY <2>2 DEF Next, vars, Accept, TopUp, Outbox, OutboxTime, MessageTime,
             AgeMessageClaim, Regroup, Rebalance, Intrude, ForeignRecord, Crash,
             consumerVars
    <2> QED
      BY <2>1, <2>2
  <1> QED
    BY <1>2, <1>3

-------------------------------------------------------------------------------
(***************************************************************************)
(* What no step undoes                                                     *)
(***************************************************************************)

\* Rows stay, attempts do not shrink, settled messages and outbox rows stay
\* settled.
Monotone ==
    \A m \in Msgs :
        /\ obStatus[m] # "none" => obStatus'[m] # "none"
        /\ msgStatus[m] # "none" => msgStatus'[m] # "none"
        /\ obAttempts[m] <= obAttempts'[m]
        /\ msgStatus[m] \in Terminal => msgStatus'[m] \in Terminal
        /\ obStatus[m] \in {"published", "failed"} => obStatus'[m] = obStatus[m]

\* Whatever a step does to the tables, it is monotone.
LEMMA StepMonotone ==
  ASSUME TypeOK, RowsTogether, TableChange
  PROVE  Monotone
  <1> USE DEF TypeOK, RepoTypeOK, Terminal
  <1>1. CASE UNCHANGED tables
    BY <1>1 DEF Monotone, tables
  <1>2. CASE \E u \in Users : \E S \in SUBSET Msgs : PersistSend(u, S)
    <2>1. PICK u \in Users, S \in SUBSET Msgs : PersistSend(u, S)
      BY <1>2
    <2>2. \A m \in S : msgStatus[m] = "none" /\ obStatus[m] = "none"
      BY <2>1 DEF PersistSend, Covered, Debited, FreshIds, RowsTogether
    <2> QED
      BY <2>1, <2>2 DEF PersistSend, Covered, Debited, Monotone
  <1>3. CASE \E u \in Users, n \in Deposits : AddBalance(u, n)
    BY <1>3 DEF AddBalance, Monotone
  <1>4. CASE \E S \in SUBSET Claimable : ClaimRows(S)
    BY <1>4 DEF ClaimRows, Claimable, Monotone
  <1>5. ASSUME NEW m \in Msgs, OutboxClaimAges(m) \/ MessageClaimAges(m)
        PROVE  Monotone
    BY <1>5 DEF OutboxClaimAges, MessageClaimAges, Monotone
  <1>6. ASSUME NEW m \in Msgs, RecordOutboxFailure(m)
        PROVE  Monotone
    BY <1>6 DEF RecordOutboxFailure, SetOutbox, StillOpen, Monotone, tables
  <1>7. ASSUME NEW m \in Msgs, MarkOutboxPublished(m)
        PROVE  Monotone
    BY <1>7 DEF MarkOutboxPublished, SetOutbox, StillOpen, Monotone, tables
  <1>8. ASSUME NEW m \in Msgs, FinalizeOutboxExhausted(m)
        PROVE  Monotone
    BY <1>8 DEF FinalizeOutboxExhausted, StillOpen, OpenMessage, MessageFailed,
             Monotone
  <1>9. ASSUME NEW m \in Msgs, ClaimMessage(m), CanClaimMessage(m)
        PROVE  Monotone
    BY <1>9 DEF ClaimMessage, SetMessage, CanClaimMessage, Monotone
  <1>10. ASSUME NEW m \in Msgs, MarkMessageSent(m) \/ MarkMessageFailed(m)
         PROVE  Monotone
    BY <1>10 DEF MarkMessageSent, SetMessage, MarkMessageFailed, Monotone
  <1> QED
    BY <1>1, <1>2, <1>3, <1>4, <1>5, <1>6, <1>7, <1>8, <1>9, <1>10 DEF TableChange

-------------------------------------------------------------------------------
(***************************************************************************)
(* What the processes remember                                             *)
(***************************************************************************)

\* A claim takes rows that exist.
LEMMA ClaimableExist ==
  ASSUME NEW S \in SUBSET Claimable
  PROVE  \A m \in S : m \in Msgs /\ obStatus[m] # "none"
  BY DEF Claimable

\* No step of anybody makes a worker's memory of its batch wrong.
LEMMA WorkersRememberStep ==
  ASSUME IndInv, [Next]_vars
  PROVE  WorkersRemember'
  <1>m. Monotone /\ \A m \in Msgs : InLog(m) => InLog(m)'
    BY TableChanges, StepMonotone, LogGrows DEF IndInv
  <1>t. /\ events \in [Instances -> [Msgs -> Nat]] /\ wpc \in [Instances -> WorkerPC]
        /\ cur \in [Instances -> Msgs \cup {NoMsg}]
        /\ \A w \in Instances : wpc[w] # "next" => cur[w] \in Msgs
        /\ obAttempts \in [Msgs -> Nat] /\ obAttempts' \in [Msgs -> Nat]
    BY NextType DEF IndInv, TypeOK, RepoTypeOK, WorkerTypeOK
  <1> DEFINE Good(v) ==
        /\ \A m \in Msgs : events[v][m] > 0 =>
              obStatus[m] # "none" /\ events[v][m] <= obAttempts[m]
        /\ wpc[v] # "next" => obStatus[cur[v]] # "none"
        /\ wpc[v] = "mark" => InLog(cur[v])
        /\ wpc[v] \in {"dlq", "finalize"} => obAttempts[cur[v]] >= MaxAttempts
  <1>g. \A v \in Instances : Good(v)
    BY DEF IndInv, WorkersRemember
  \* A worker that does not move keeps what it knows.
  <1>k. ASSUME NEW v \in Instances,
               events'[v] = events[v], wpc'[v] = wpc[v], cur'[v] = cur[v]
        PROVE  Good(v)'
    <2>1. \A m \in Msgs : events'[v][m] > 0 =>
              obStatus'[m] # "none" /\ events'[v][m] <= obAttempts'[m]
      BY <1>k, <1>m, <1>t, <1>g DEF Monotone
    <2>2. wpc'[v] # "next" => cur[v] \in Msgs
      BY <1>k, <1>t
    <2>3. wpc'[v] # "next" => obStatus'[cur'[v]] # "none"
      BY <1>k, <1>m, <1>g, <2>2 DEF Monotone
    <2>4. wpc'[v] = "mark" => InLog(cur[v])'
      BY <1>k, <1>m, <1>g, <2>2 DEF InLog
    <2>5. wpc'[v] \in {"dlq", "finalize"} => obAttempts'[cur'[v]] >= MaxAttempts
      BY <1>k, <1>m, <1>t, <1>g, <2>2, OutboxAssumption DEF Monotone
    <2> QED
      BY <2>1, <2>3, <2>4, <2>5
  <1>1. ASSUME NEW w \in Instances, Outbox(w)
        PROVE  WorkersRemember'
    <2>o. \A v \in Instances \ {w} :
             events'[v] = events[v] /\ wpc'[v] = wpc[v] /\ cur'[v] = cur[v]
      BY <1>1, <1>t DEF Outbox, WorkerStep, ClaimPendingOutbox, PublishEvent, MarkPublished,
             RecordFailure, DeadLetter, Finalize, Continue, Goto
    <2>1. CASE ClaimPendingOutbox(w)
      <3>1. wpc'[w] = "next" /\ wpc[w] = "next"
        BY <2>1, <1>t DEF ClaimPendingOutbox
      <3>2. \A m \in Msgs : events'[w][m] > 0 =>
                obStatus'[m] # "none" /\ events'[w][m] <= obAttempts'[m]
        <4>1. PICK S \in SUBSET Claimable :
                  /\ ClaimRows(S)
                  /\ \/ events' = [events EXCEPT ![w] =
                             [m \in Msgs |-> IF m \in S THEN obAttempts[m] + 1 ELSE 0]]
                     \/ UNCHANGED events
          BY <2>1 DEF ClaimPendingOutbox, ClaimedRows
        <4>2. CASE UNCHANGED events
          BY <4>2, <1>t, <1>m, <1>g DEF Monotone
        <4>3. CASE events' = [events EXCEPT ![w] =
                             [m \in Msgs |-> IF m \in S THEN obAttempts[m] + 1 ELSE 0]]
          BY <4>1, <4>3, <1>t DEF ClaimRows
        <4> QED
          BY <4>1, <4>2, <4>3
      <3>3. Good(w)'
        BY <3>1, <3>2
      <3> QED
        BY <1>k, <2>o, <3>3 DEF WorkersRemember
    <2>2. ASSUME NEW m \in Msgs, PublishEvent(w, m)
          PROVE  WorkersRemember'
      <3>1. events' = events /\ cur'[w] = m /\ obStatus' = obStatus /\ obAttempts' = obAttempts
        BY <2>2, <1>t DEF PublishEvent, repoVars
      <3>2. obStatus[m] # "none" /\ events[w][m] <= obAttempts[m]
        BY <2>2, <1>g DEF PublishEvent
      <3>3. wpc'[w] = "mark" => InLog(cur[w])'
        <4>1. ASSUME wpc'[w] = "mark" PROVE AppendRecord(m)
          BY <2>2, <4>1, <1>t DEF PublishEvent, PublishError
        <4>2. PartitionOf[m] \in Partitions /\ log[PartitionOf[m]] \in Seq(Records)
          BY PartitionAssumption DEF IndInv, TypeOK, BrokerTypeOK
        <4>3. ASSUME AppendRecord(m) PROVE InLog(m)'
          <5>1. log'[PartitionOf[m]] = Append(log[PartitionOf[m]], m)
            BY <4>2, <4>3 DEF AppendRecord, IndInv, TypeOK, BrokerTypeOK
          <5>2. Len(log'[PartitionOf[m]]) \in 1..Len(log'[PartitionOf[m]])
            BY <4>2, <5>1
          <5>3. log'[PartitionOf[m]][Len(log'[PartitionOf[m]])] = m
            BY <4>2, <5>1
          <5> QED
            BY <5>2, <5>3 DEF InLog
        <4> QED
          BY <3>1, <4>1, <4>3 DEF InLog
      <3>4. wpc'[w] \in {"dlq", "finalize"} => events[w][m] >= MaxAttempts
        BY <2>2, <1>t, OutboxAssumption DEF PublishEvent, TooMany, LastAttempt, PublishError
      <3>5. wpc'[w] \in {"dlq", "finalize"} => obAttempts'[cur'[w]] >= MaxAttempts
        BY <3>1, <3>2, <3>4, <1>t, OutboxAssumption
      <3>6. Good(w)'
        BY <3>1, <3>2, <3>3, <3>5, <1>g
      <3> QED
        BY <1>k, <2>o, <3>6 DEF WorkersRemember
    \* The batch is as it was, or without the event that is done.
    <2>b. ASSUME Continue(w), wpc[w] # "next"
          PROVE  Good(w)'
      <3>1. wpc'[w] = "next"
        BY <2>b, <1>t DEF Continue
      <3>2. \A m \in Msgs : events'[w][m] = events[w][m] \/ events'[w][m] = 0
        BY <2>b, <1>t DEF Continue
      <3>3. \A m \in Msgs : events'[w][m] > 0 =>
                obStatus'[m] # "none" /\ events'[w][m] <= obAttempts'[m]
        BY <3>2, <1>t, <1>m, <1>g DEF Monotone
      <3> QED
        BY <3>1, <3>3
    <2>3. CASE MarkPublished(w) \/ RecordFailure(w)
      BY <2>3, <2>b, <2>o, <1>k DEF MarkPublished, RecordFailure, WorkersRemember
    <2>d. ASSUME NEW pc \in {"finalize", "fail"}, Goto(w, pc), wpc[w] \in {"dlq", "finalize"}
          PROVE  Good(w)'
      <3>1. wpc'[w] = pc /\ events' = events /\ cur' = cur /\ cur[w] \in Msgs
        BY <2>d, <1>t DEF Goto
      <3>2. obAttempts[cur[w]] >= MaxAttempts /\ obStatus[cur[w]] # "none"
        BY <2>d, <1>g
      <3>3. \A m \in Msgs : events'[w][m] > 0 =>
                obStatus'[m] # "none" /\ events'[w][m] <= obAttempts'[m]
        BY <3>1, <1>t, <1>m, <1>g DEF Monotone
      <3>4. obAttempts'[cur'[w]] >= MaxAttempts /\ obStatus'[cur'[w]] # "none"
        BY <3>1, <3>2, <1>t, <1>m, OutboxAssumption DEF Monotone
      <3> QED
        BY <3>1, <3>3, <3>4
    <2>4. CASE DeadLetter(w)
      BY <2>4, <2>d, <2>o, <1>k DEF DeadLetter, WorkersRemember
    <2>5. CASE Finalize(w)
      BY <2>5, <2>b, <2>d, <2>o, <1>k DEF Finalize, WorkersRemember
    <2> QED
      BY <1>1, <2>1, <2>2, <2>3, <2>4, <2>5 DEF Outbox, WorkerStep
  <1>2. ASSUME NEW i \in Instances, Crash(i)
        PROVE  WorkersRemember'
    <2>1. \A v \in Instances \ {i} :
             events'[v] = events[v] /\ wpc'[v] = wpc[v] /\ cur'[v] = cur[v]
      BY <1>2, <1>t DEF Crash, StopWorker
    <2>2. wpc'[i] = "next" /\ \A m \in Msgs : events'[i][m] = 0
      BY <1>2, <1>t DEF Crash, StopWorker, NoEvents
    <2>3. Good(i)'
      BY <2>2
    <2> QED
      BY <1>k, <2>1, <2>3 DEF WorkersRemember
  <1>3. CASE UNCHANGED workerVars
    BY <1>3, <1>k DEF workerVars, WorkersRemember
  <1>4. (\E w \in Instances : Outbox(w)) \/ (\E i \in Instances : Crash(i)) \/ UNCHANGED workerVars
    BY DEF Next, vars, Accept, TopUp, Consume, OutboxTime, AgeOutboxClaim,
             MessageTime, Regroup, Intrude
  <1> QED
    BY <1>1, <1>2, <1>3, <1>4

\* Nor what a consumer knows about the message it works on.
LEMMA ConsumersRememberStep ==
  ASSUME IndInv, [Next]_vars
  PROVE  ConsumersRemember'
  <1>m. Monotone /\ delivered \subseteq delivered'
    BY TableChanges, StepMonotone, LogGrows DEF IndInv
  <1>t. /\ cpc \in [Consumers -> ConsumerPC] /\ rec \in [Consumers -> Records]
        /\ \A c \in Consumers : cpc[c] \in Sending => rec[c] \in Msgs
        /\ msgStatus \in [Msgs -> MessageStatus]
    BY DEF IndInv, TypeOK, RepoTypeOK, ConsumerTypeOK
  <1> DEFINE Good(d) ==
        /\ cpc[d] \in Sending => msgStatus[rec[d]] # "none"
        /\ cpc[d] = "sent" => rec[d] \in delivered
        /\ cpc[d] = "dlq" => rec[d] \in Msgs /\ msgStatus[rec[d]] \in Terminal
  <1>g. \A d \in Consumers : Good(d)
    BY DEF IndInv, ConsumersRemember
  <1>k. ASSUME NEW d \in Consumers, cpc'[d] = cpc[d], rec'[d] = rec[d]
        PROVE  Good(d)'
    BY <1>k, <1>m, <1>t, <1>g DEF Monotone
  \* Nothing is remembered in these states.
  <1>n. ASSUME NEW d \in Consumers, cpc'[d] \in {"fetch", "process", "lookup", "commit"}
        PROVE  Good(d)'
    BY <1>n DEF Sending
  <1>1. ASSUME NEW c \in Consumers, Consume(c)
        PROVE  ConsumersRemember'
    <2>o. \A d \in Consumers \ {c} : cpc'[d] = cpc[d] /\ rec'[d] = rec[d]
      BY <1>1, <1>t DEF Consume, ConsumerStep, Fetch, RejectPayload, ClaimForSending,
             ClaimMisses, Lookup, SendWithRetry, LastTry, MarkSent, MarkFailed,
             ToDLQ, Commit, Step, NextRecord
    <2>1. CASE \/ \E p \in Partitions : Fetch(c, p)
               \/ RejectPayload(c) \/ ClaimMisses(c) \/ Lookup(c) \/ ToDLQ(c) \/ Commit(c)
      <3>1. cpc'[c] \in {"fetch", "process", "lookup", "commit"}
        BY <2>1, <1>t DEF Fetch, RejectPayload, ClaimMisses, Lookup, ToDLQ, Commit, Step,
             NextRecord
      <3> QED
        BY <3>1, <1>n, <1>k, <2>o DEF ConsumersRemember
    <2>2. CASE ClaimForSending(c)
      <3>1. CASE cpc'[c] = "fetch"
        BY <3>1, <1>n, <1>k, <2>o DEF ConsumersRemember
      <3>2. CASE cpc'[c] = "send"
        <4>1. rec'[c] = rec[c] /\ rec[c] \in Msgs /\ ClaimMessage(rec[c])
          BY <2>2, <3>2, <1>t DEF ClaimForSending, NextRecord
        <4>2. msgStatus'[rec'[c]] # "none"
          BY <4>1, <1>t DEF ClaimMessage, SetMessage
        <4>3. Good(c)'
          BY <3>2, <4>2
        <4> QED
          BY <4>3, <1>k, <2>o DEF ConsumersRemember
      <3> QED
        BY <2>2, <3>1, <3>2, <1>t DEF ClaimForSending, NextRecord
    <2>3. CASE SendWithRetry(c)
      <3>1. CASE cpc'[c] = "fetch"
        BY <3>1, <1>n, <1>k, <2>o DEF ConsumersRemember
      <3>2. CASE cpc'[c] # "fetch"
        <4>1. rec'[c] = rec[c] /\ rec[c] \in Msgs /\ cpc'[c] \in Sending
          BY <2>3, <3>2, <1>t DEF SendWithRetry, LastTry, Step, NextRecord, Sending
        <4>2. cpc'[c] = "sent" => rec[c] \in delivered'
          BY <2>3, <3>2, <1>t DEF SendWithRetry, LastTry, Step, NextRecord
        <4>3. msgStatus'[rec'[c]] # "none"
          BY <2>3, <4>1, <1>m, <1>g DEF SendWithRetry, LastTry, Sending, Monotone
        <4>4. Good(c)'
          BY <4>1, <4>2, <4>3 DEF Sending
        <4> QED
          BY <4>4, <1>k, <2>o DEF ConsumersRemember
      <3> QED
        BY <3>1, <3>2
    <2>4. CASE MarkSent(c)
      <3>1. cpc'[c] \in {"fetch", "process", "lookup", "commit"}
        BY <2>4, <1>t DEF MarkSent, Step, NextRecord
      <3> QED
        BY <3>1, <1>n, <1>k, <2>o DEF ConsumersRemember
    <2>5. CASE MarkFailed(c)
      <3>1. CASE cpc'[c] = "fetch"
        BY <3>1, <1>n, <1>k, <2>o DEF ConsumersRemember
      <3>2. CASE cpc'[c] = "dlq"
        <4>1. rec'[c] = rec[c] /\ rec[c] \in Msgs /\ MarkMessageFailed(rec[c])
          BY <2>5, <3>2, <1>t DEF MarkFailed, Step, NextRecord, Sending
        <4>2. msgStatus'[rec'[c]] \in Terminal
          BY <4>1, <1>t DEF MarkMessageFailed, SetMessage, Terminal
        <4>3. Good(c)'
          BY <3>2, <4>1, <4>2 DEF Sending
        <4> QED
          BY <4>3, <1>k, <2>o DEF ConsumersRemember
      <3> QED
        BY <2>5, <3>1, <3>2, <1>t DEF MarkFailed, Step, NextRecord
    <2> QED
      BY <1>1, <2>1, <2>2, <2>3, <2>4, <2>5 DEF Consume, ConsumerStep
  <1>2. ASSUME NEW i \in Instances, Crash(i)
        PROVE  ConsumersRemember'
    <2>1. \A d \in Consumers : \/ cpc'[d] = "fetch"
                               \/ cpc'[d] = cpc[d] /\ rec'[d] = rec[d]
      BY <1>2 DEF Crash
    <2> QED
      BY <1>k, <1>n, <2>1 DEF ConsumersRemember
  <1>3. CASE UNCHANGED <<cpc, rec>>
    BY <1>3, <1>k DEF ConsumersRemember
  <1>4. (\E c \in Consumers : Consume(c)) \/ (\E i \in Instances : Crash(i)) \/ UNCHANGED <<cpc, rec>>
    BY DEF Next, vars, Accept, TopUp, Outbox, OutboxTime, MessageTime,
             AgeMessageClaim, Regroup, Rebalance, Intrude, ForeignRecord,
             consumerVars, jobVars
  <1> QED
    BY <1>1, <1>2, <1>3, <1>4

-------------------------------------------------------------------------------
(***************************************************************************)
(* The promises                                                            *)
(***************************************************************************)

\* Every statement changes or creates a message and its outbox row so that
\* they exist together.
LEMMA RowsTogetherStep ==
  ASSUME IndInv, TableChange
  PROVE  RowsTogether'
  <1> USE DEF IndInv, TypeOK, RepoTypeOK, RowsTogether
  <1>1. CASE UNCHANGED tables
    BY <1>1 DEF tables
  <1>2. CASE \E u \in Users : \E S \in SUBSET Msgs : PersistSend(u, S)
    BY <1>2 DEF PersistSend, Covered, Debited
  <1>3. CASE \E u \in Users, n \in Deposits : AddBalance(u, n)
    BY <1>3 DEF AddBalance
  <1>4. CASE \E S \in SUBSET Claimable : ClaimRows(S)
    BY <1>4 DEF ClaimRows, Claimable
  <1>5. ASSUME NEW m \in Msgs, OutboxClaimAges(m) \/ MessageClaimAges(m)
        PROVE  RowsTogether'
    BY <1>5 DEF OutboxClaimAges, MessageClaimAges
  <1>6. ASSUME NEW m \in Msgs, RecordOutboxFailure(m) \/ MarkOutboxPublished(m)
        PROVE  RowsTogether'
    BY <1>6 DEF RecordOutboxFailure, SetOutbox, StillOpen, MarkOutboxPublished, tables
  <1>7. ASSUME NEW m \in Msgs, FinalizeOutboxExhausted(m)
        PROVE  RowsTogether'
    BY <1>7 DEF FinalizeOutboxExhausted, StillOpen, OpenMessage, MessageFailed
  <1>8. ASSUME NEW m \in Msgs, ClaimMessage(m), CanClaimMessage(m)
        PROVE  RowsTogether'
    BY <1>8 DEF ClaimMessage, SetMessage, CanClaimMessage
  <1>9. ASSUME NEW m \in Msgs, NEW c \in Consumers, cpc[c] \in Sending, rec[c] = m,
               MarkMessageSent(m) \/ MarkMessageFailed(m)
        PROVE  RowsTogether'
    <2>1. msgStatus[m] # "none"
      BY <1>9 DEF ConsumersRemember
    <2> QED
      BY <1>9, <2>1 DEF MarkMessageSent, SetMessage, MarkMessageFailed
  <1> QED
    BY <1>1, <1>2, <1>3, <1>4, <1>5, <1>6, <1>7, <1>8, <1>9 DEF TableChange, Sending

\* Only a worker that has used up the attempts refunds, and it settles the
\* message in the same transaction.
LEMMA RefundedIsOverStep ==
  ASSUME IndInv, TableChange
  PROVE  RefundedIsOver'
  <1>m. Monotone
    BY StepMonotone DEF IndInv
  <1>t. refunded \subseteq Msgs /\ obAttempts \in [Msgs -> Nat] /\ obAttempts' \in [Msgs -> Nat]
        /\ msgStatus \in [Msgs -> MessageStatus]
    <2>1. obAttempts' \in [Msgs -> Nat]
      BY DEF IndInv, TypeOK, RepoTypeOK, TableChange, tables, PersistSend, Covered,
             Debited, AddBalance, ClaimRows, OutboxClaimAges, MessageClaimAges,
             RecordOutboxFailure, SetOutbox, StillOpen, MarkOutboxPublished,
             FinalizeOutboxExhausted, OpenMessage, MessageFailed, ClaimMessage,
             SetMessage, MarkMessageSent, MarkMessageFailed
    <2> QED
      BY <2>1 DEF IndInv, TypeOK, RepoTypeOK
  <1>1. CASE refunded' = refunded
    BY <1>1, <1>m, <1>t, OutboxAssumption DEF IndInv, RefundedIsOver, Monotone
  <1>2. ASSUME NEW m \in Msgs, FinalizeOutboxExhausted(m),
               NEW w \in Instances, wpc[w] = "finalize", cur[w] = m
        PROVE  RefundedIsOver'
    <2>1. obAttempts[m] >= MaxAttempts
      BY <1>2 DEF IndInv, WorkersRemember
    <2>2. CASE msgStatus[m] \in {"queued", "sending"}
      <3>1. refunded' = refunded \cup {m} /\ msgStatus'[m] = "failed" /\ obAttempts' = obAttempts
        BY <1>2, <2>2, <1>t DEF FinalizeOutboxExhausted, StillOpen, OpenMessage, MessageFailed
      <3> QED
        BY <3>1, <2>1, <1>m, <1>t DEF IndInv, RefundedIsOver, Monotone, Terminal
    <2>3. CASE msgStatus[m] \notin {"queued", "sending"}
      BY <1>1, <1>2, <2>3 DEF FinalizeOutboxExhausted, StillOpen, OpenMessage, MessageFailed
    <2> QED
      BY <2>2, <2>3
  <1> QED
    BY <1>1, <1>2 DEF TableChange, tables, PersistSend, Covered, Debited, AddBalance,
             ClaimRows, OutboxClaimAges, MessageClaimAges, RecordOutboxFailure,
             SetOutbox, StillOpen, MarkOutboxPublished, ClaimMessage, SetMessage,
             MarkMessageSent, MarkMessageFailed

\* The transaction that fails an outbox row settles its message.
LEMMA ExhaustedLeavesNothingOpenStep ==
  ASSUME IndInv, TableChange
  PROVE  ExhaustedLeavesNothingOpen'
  <1>m. Monotone
    BY StepMonotone DEF IndInv
  <1>t. obStatus \in [Msgs -> OutboxStatus] /\ msgStatus \in [Msgs -> MessageStatus]
    BY DEF IndInv, TypeOK, RepoTypeOK
  <1>1. ASSUME NEW m \in Msgs, obStatus'[m] = "failed", obStatus[m] = "failed"
        PROVE  msgStatus'[m] \in Terminal
    BY <1>1, <1>m DEF IndInv, ExhaustedLeavesNothingOpen, Monotone
  <1>2. ASSUME NEW m \in Msgs, obStatus'[m] = "failed", obStatus[m] # "failed"
        PROVE  msgStatus'[m] \in Terminal
    <2>1. FinalizeOutboxExhausted(m)
      <3>1. PICK n \in Msgs : FinalizeOutboxExhausted(n)
        BY <1>2, <1>t DEF TableChange, tables, PersistSend, Covered, Debited, AddBalance,
             ClaimRows, OutboxClaimAges, MessageClaimAges, RecordOutboxFailure,
             SetOutbox, StillOpen, MarkOutboxPublished, ClaimMessage, SetMessage,
             MarkMessageSent, MarkMessageFailed
      <3>2. n = m
        BY <1>2, <3>1, <1>t DEF FinalizeOutboxExhausted, StillOpen, OpenMessage, MessageFailed
      <3> QED
        BY <3>1, <3>2
    <2>2. msgStatus[m] # "none"
      BY <1>2, <2>1, <1>t DEF FinalizeOutboxExhausted, StillOpen, OpenMessage, MessageFailed,
             IndInv, RowsTogether
    <2> QED
      BY <2>1, <2>2, <1>t DEF FinalizeOutboxExhausted, StillOpen, OpenMessage, MessageFailed,
             MessageStatus, Terminal
  <1> QED
    BY <1>1, <1>2 DEF ExhaustedLeavesNothingOpen

\* Only a worker that has written the record marks the row, whoever else
\* holds the row meanwhile.
LEMMA PublishedIsInLogStep ==
  ASSUME IndInv, TableChange, \A m \in Msgs : InLog(m) => InLog(m)'
  PROVE  PublishedIsInLog'
  <1>t. obStatus \in [Msgs -> OutboxStatus]
    BY DEF IndInv, TypeOK, RepoTypeOK
  <1>1. ASSUME NEW m \in Msgs, obStatus'[m] = "published", obStatus[m] = "published"
        PROVE  InLog(m)'
    BY <1>1 DEF IndInv, PublishedIsInLog
  <1>2. ASSUME NEW m \in Msgs, obStatus'[m] = "published", obStatus[m] # "published"
        PROVE  InLog(m)'
    <2>1. PICK n \in Msgs : MarkOutboxPublished(n) /\ \E w \in Instances : wpc[w] = "mark" /\ cur[w] = n
      BY <1>2, <1>t DEF TableChange, tables, PersistSend, Covered, Debited, AddBalance,
             ClaimRows, OutboxClaimAges, MessageClaimAges, RecordOutboxFailure,
             SetOutbox, StillOpen, FinalizeOutboxExhausted, OpenMessage,
             MessageFailed, ClaimMessage, SetMessage, MarkMessageSent,
             MarkMessageFailed
    <2>2. n = m
      BY <1>2, <2>1, <1>t DEF MarkOutboxPublished, SetOutbox, StillOpen, tables
    <2>3. InLog(m)
      BY <2>1, <2>2 DEF IndInv, WorkersRemember
    <2> QED
      BY <2>3
  <1> QED
    BY <1>1, <1>2 DEF PublishedIsInLog

\* Only a consumer with the provider's word marks a message sent.
LEMMA SentWasDeliveredStep ==
  ASSUME IndInv, TableChange, delivered \subseteq delivered'
  PROVE  SentWasDelivered'
  <1>t. msgStatus \in [Msgs -> MessageStatus]
    BY DEF IndInv, TypeOK, RepoTypeOK
  <1>1. ASSUME NEW m \in Msgs, msgStatus'[m] = "sent", msgStatus[m] = "sent"
        PROVE  m \in delivered'
    BY <1>1 DEF IndInv, SentWasDelivered
  <1>2. ASSUME NEW m \in Msgs, msgStatus'[m] = "sent", msgStatus[m] # "sent"
        PROVE  m \in delivered'
    <2>1. PICK n \in Msgs : MarkMessageSent(n) /\ \E c \in Consumers : cpc[c] = "sent" /\ rec[c] = n
      BY <1>2, <1>t DEF TableChange, tables, PersistSend, Covered, Debited, AddBalance,
             ClaimRows, OutboxClaimAges, MessageClaimAges, RecordOutboxFailure,
             SetOutbox, StillOpen, MarkOutboxPublished, FinalizeOutboxExhausted,
             OpenMessage, MessageFailed, ClaimMessage, SetMessage,
             MarkMessageFailed
    <2>2. n = m
      BY <1>2, <2>1, <1>t DEF MarkMessageSent, SetMessage
    <2>3. m \in delivered
      BY <2>1, <2>2 DEF IndInv, ConsumersRemember
    <2> QED
      BY <2>3
  <1> QED
    BY <1>1, <1>2 DEF SentWasDelivered

\* Workers report what has used up its attempts, consumers what is settled, and
\* neither can be undone.
LEMMA DeadLetterIsEarnedStep ==
  ASSUME IndInv, [Next]_vars
  PROVE  DeadLetterIsEarned'
  <1>m. Monotone
    BY TableChanges, StepMonotone DEF IndInv
  <1>t. obAttempts \in [Msgs -> Nat] /\ obAttempts' \in [Msgs -> Nat]
    BY NextType DEF IndInv, TypeOK, RepoTypeOK
  <1>h. \A m \in Msgs :
           /\ obAttempts[m] >= MaxAttempts => obAttempts'[m] >= MaxAttempts
           /\ msgStatus[m] \in Terminal => msgStatus'[m] \in Terminal
    BY <1>m, <1>t, OutboxAssumption DEF Monotone
  <1>p. \A a, b, x, y : <<a, x>> = <<b, y>> => a = b /\ x = y
    OBVIOUS
  <1>q. ASSUME NEW e, dlq' = dlq \/ dlq' = dlq \cup {e}
        PROVE  \A d : d \in dlq' => d \in dlq \/ d = e
    BY <1>q
  <1>d. "outbox_exhausted" # "provider_error" /\ "outbox_exhausted" # "invalid_payload"
        /\ "provider_error" # "invalid_payload"
    OBVIOUS
  <1>1. CASE dlq' = dlq
    BY <1>1, <1>h DEF IndInv, DeadLetterIsEarned
  <1>2. ASSUME NEW w \in Instances, DeadLetter(w)
        PROVE  DeadLetterIsEarned'
    <2>1. obAttempts[cur[w]] >= MaxAttempts /\ cur[w] \in Msgs
      BY <1>2 DEF DeadLetter, IndInv, WorkersRemember, TypeOK, WorkerTypeOK
    <2>2. dlq' = dlq \/ dlq' = dlq \cup {<<"outbox_exhausted", cur[w]>>}
      BY <1>2 DEF DeadLetter, PublishDLQ
    <2>3. \A m \in Msgs :
             /\ <<"outbox_exhausted", m>> \in dlq' => <<"outbox_exhausted", m>> \in dlq \/ m = cur[w]
             /\ <<"provider_error", m>> \in dlq' => <<"provider_error", m>> \in dlq
      BY <2>2, <1>p, <1>q, <1>d
    <2> QED
      BY <2>1, <2>3, <1>h DEF IndInv, DeadLetterIsEarned
  <1>3. ASSUME NEW c \in Consumers, ToDLQ(c)
        PROVE  DeadLetterIsEarned'
    <2>1. msgStatus[rec[c]] \in Terminal /\ rec[c] \in Msgs
      BY <1>3 DEF ToDLQ, IndInv, ConsumersRemember
    <2>2. dlq' = dlq \/ dlq' = dlq \cup {<<"provider_error", rec[c]>>}
      BY <1>3 DEF ToDLQ, PublishDLQ
    <2>3. \A m \in Msgs :
             /\ <<"outbox_exhausted", m>> \in dlq' => <<"outbox_exhausted", m>> \in dlq
             /\ <<"provider_error", m>> \in dlq' => <<"provider_error", m>> \in dlq \/ m = rec[c]
      BY <2>2, <1>p, <1>q, <1>d
    <2> QED
      BY <2>1, <2>3, <1>h DEF IndInv, DeadLetterIsEarned
  <1>4. ASSUME NEW c \in Consumers, RejectPayload(c)
        PROVE  DeadLetterIsEarned'
    <2>1. dlq' = dlq \/ dlq' = dlq \cup {<<"invalid_payload", BadPayload>>}
      BY <1>4 DEF RejectPayload, PublishDLQ
    <2>2. \A m \in Msgs :
             /\ <<"outbox_exhausted", m>> \in dlq' => <<"outbox_exhausted", m>> \in dlq
             /\ <<"provider_error", m>> \in dlq' => <<"provider_error", m>> \in dlq
      BY <2>1, <1>p, <1>q, <1>d
    <2> QED
      BY <2>2, <1>h DEF IndInv, DeadLetterIsEarned
  <1>5. \/ dlq' = dlq
        \/ \E w \in Instances : DeadLetter(w)
        \/ \E c \in Consumers : ToDLQ(c) \/ RejectPayload(c)
    <2>1. ASSUME NEW w \in Instances, Outbox(w), ~DeadLetter(w)
          PROVE  dlq' = dlq
      BY <2>1 DEF Outbox, WorkerStep, ClaimPendingOutbox, PublishEvent, MarkPublished,
             RecordFailure, Finalize, brokerVars
    <2>2. ASSUME NEW c \in Consumers, Consume(c), ~ToDLQ(c), ~RejectPayload(c)
          PROVE  dlq' = dlq
      BY <2>2 DEF Consume, ConsumerStep, Fetch, ClaimForSending, ClaimMisses, Lookup,
             SendWithRetry, LastTry, MarkSent, MarkFailed, Commit, brokerVars
    <2> QED
      BY <2>1, <2>2 DEF Next, vars, Accept, TopUp, OutboxTime, MessageTime, AgeOutboxClaim,
             AgeMessageClaim, Regroup, Rebalance, Intrude, ForeignRecord, Crash,
             brokerVars
  <1> QED
    BY <1>1, <1>2, <1>3, <1>4, <1>5

-------------------------------------------------------------------------------
(***************************************************************************)
(* The theorems                                                            *)
(***************************************************************************)

\* Empty tables, an empty broker and idle processes satisfy everything.
LEMMA InitInd == Init => IndInv
  <1> SUFFICES ASSUME Init PROVE IndInv
    OBVIOUS
  <1>1. TypeOK
    BY InitType
  <1>2. RowsTogether /\ ExhaustedLeavesNothingOpen /\ PublishedIsInLog /\ SentWasDelivered
    BY DEF Init, RepoInit, RowsTogether, ExhaustedLeavesNothingOpen,
             PublishedIsInLog, SentWasDelivered
  <1>3. RefundedIsOver /\ DeadLetterIsEarned
    BY DEF Init, RepoInit, BrokerInit, RefundedIsOver, DeadLetterIsEarned
  <1>4. WorkersRemember
    BY DEF Init, WorkerInit, NoEvents, WorkersRemember
  <1>5. ConsumersRemember
    BY DEF Init, ConsumerInit, ConsumersRemember, Sending
  <1> QED
    BY <1>1, <1>2, <1>3, <1>4, <1>5 DEF IndInv

\* Every step keeps it.
LEMMA NextInd ==
  ASSUME IndInv, [Next]_vars
  PROVE  IndInv'
  <1>1. TableChange
    BY TableChanges DEF IndInv
  <1>2. /\ \A m \in Msgs : InLog(m) => InLog(m)'
        /\ delivered \subseteq delivered'
    BY LogGrows DEF IndInv
  <1>3. TypeOK'
    BY NextType DEF IndInv
  <1>4. WorkersRemember' /\ ConsumersRemember'
    BY WorkersRememberStep, ConsumersRememberStep
  <1>5. RowsTogether' /\ RefundedIsOver' /\ ExhaustedLeavesNothingOpen'
    BY <1>1, RowsTogetherStep, RefundedIsOverStep, ExhaustedLeavesNothingOpenStep
  <1>6. PublishedIsInLog' /\ SentWasDelivered' /\ DeadLetterIsEarned'
    BY <1>1, <1>2, PublishedIsInLogStep, SentWasDeliveredStep, DeadLetterIsEarnedStep
  <1> QED
    BY <1>3, <1>4, <1>5, <1>6 DEF IndInv

\* The inductive invariant holds in every behaviour of the gateway.
THEOREM Invariance == Spec => []IndInv
  <1>1. IndInv /\ [Next]_vars => IndInv'
    BY NextInd
  <1> QED
    BY InitInd, <1>1, PTL DEF Spec

\* A refunded message is over: refunds happen only when the attempts are used
\* up, and no worker takes a refunded message for queued or sending.
THEOREM RefundsAreFinal == Spec => []RefundedIsOver
  <1>1. IndInv => RefundedIsOver
    BY DEF IndInv
  <1> QED
    BY Invariance, <1>1, PTL

\* FinalizeOutboxExhausted leaves no message of a failed row open.
THEOREM NoExhaustedMessageOpen == Spec => []ExhaustedLeavesNothingOpen
  <1>1. IndInv => ExhaustedLeavesNothingOpen
    BY DEF IndInv
  <1> QED
    BY Invariance, <1>1, PTL

\* A row the workers mark published has its record on the topic.
THEOREM PublishedRecordsExist == Spec => []PublishedIsInLog
  <1>1. IndInv => PublishedIsInLog
    BY DEF IndInv
  <1> QED
    BY Invariance, <1>1, PTL

\* A message the consumers mark sent was accepted by the provider.
THEOREM SentMessagesDelivered == Spec => []SentWasDelivered
  <1>1. IndInv => SentWasDelivered
    BY DEF IndInv
  <1> QED
    BY Invariance, <1>1, PTL

\* What deadLetter and toDLQ report on the DLQ topic is true and stays true.
THEOREM DeadLettersEarned == Spec => []DeadLetterIsEarned
  <1>1. IndInv => DeadLetterIsEarned
    BY DEF IndInv
  <1> QED
    BY Invariance, <1>1, PTL

\* No statement reopens a settled message or changes a settled outbox row.
THEOREM SettledStaysSettled == Spec => NeverReopened
  <1>1. ASSUME IndInv, [Next]_vars
        PROVE  [\A m \in Msgs :
                  /\ msgStatus[m] \in Terminal => msgStatus'[m] \in Terminal
                  /\ obStatus[m] \in {"published", "failed"} => obStatus'[m] = obStatus[m]]_vars
    <2>1. Monotone
      BY <1>1, TableChanges, StepMonotone DEF IndInv
    <2> QED
      BY <2>1 DEF Monotone
  <1> QED
    BY Invariance, <1>1, PTL DEF Spec, NeverReopened
===============================================================================
