---------------------------- MODULE ConsumerProofs ----------------------------
(***************************************************************************)
(* What the SMS consumers promise about one message, for any number of      *)
(* consumers, partitions, records and faults.                               *)
(*                                                                         *)
(* Three arguments, each with an invariant of its own on top of IndInv:     *)
(* while no consumer is slow a message being sent is protected by its row,  *)
(* so that one consumer at a time has it; whatever happens, the calls of the *)
(* provider are paid for by claims, and claims beyond the first one by      *)
(* faults; and without crashes, database errors and cancellations the       *)
(* consumers take the records of a partition in order and leave none open   *)
(* behind them.                                                             *)
(***************************************************************************)
EXTENDS OutboxProofs

-------------------------------------------------------------------------------
(***************************************************************************)
(* One sender at a time                                                    *)
(***************************************************************************)

\* The row of a message that is being sent keeps others from claiming it: it
\* was claimed not long ago, or the outbox worker has failed it meanwhile.
HeldIsProtected ==
    \A m \in Msgs : HeldByConsumer(m) =>
        \/ msgStatus[m] = "sending" /\ m \notin msgAged
        \/ msgStatus[m] = "failed"

\* The inductive invariant, together with IndInv.
PromptInv == SingleSender /\ HeldIsProtected

\* A consumer that does not take the step keeps its record.
LEMMA OthersKeepTheirJob ==
  ASSUME TypeOK, NEW c \in Consumers, Consume(c), NEW d \in Consumers, d # c
  PROVE  cpc'[d] = cpc[d] /\ rec'[d] = rec[d] /\ part'[d] = part[d]
         /\ off'[d] = off[d] /\ try'[d] = try[d]
  BY DEF TypeOK, ConsumerTypeOK, Consume, ConsumerStep, Fetch, RejectPayload, ClaimForSending,
     ClaimMisses, Lookup, SendWithRetry, MarkSent, MarkFailed, ToDLQ, Commit, Step, NextRecord

\* A consumer holds a message because it held it before, or because it has just
\* claimed it.
LEMMA NewSender ==
  ASSUME TypeOK, [Next]_vars, NEW c \in Consumers, cpc'[c] \in Sending
  PROVE  /\ rec'[c] = rec[c]
         /\ \/ cpc[c] \in Sending
            \/ /\ Consume(c) /\ cpc[c] = "process" /\ cpc'[c] = "send" /\ rec[c] \in Msgs
               /\ CanClaimMessage(rec[c]) /\ ClaimMessage(rec[c])
  <1>t. /\ cpc \in [Consumers -> ConsumerPC] /\ rec \in [Consumers -> Records]
    BY DEF TypeOK, ConsumerTypeOK
  <1>1. CASE Consume(c)
    <2>1. CASE ClaimForSending(c)
      BY <1>1, <2>1, <1>t DEF ClaimForSending, NextRecord, Sending
    <2>2. CASE SendWithRetry(c)
      BY <2>2, <1>t DEF SendWithRetry, LastTry, NextRecord, Step, Sending
    <2>3. CASE ~ClaimForSending(c) /\ ~SendWithRetry(c)
      <3>1. cpc'[c] \notin Sending
        BY <1>1, <2>3, <1>t DEF Consume, ConsumerStep, Fetch, RejectPayload, ClaimMisses, Lookup,
             MarkSent, MarkFailed, ToDLQ, Commit, Step, NextRecord, Sending
      <3> QED
        BY <3>1
    <2> QED
      BY <2>1, <2>2, <2>3
  <1>2. ASSUME NEW d \in Consumers, Consume(d), d # c
        PROVE  cpc'[c] = cpc[c] /\ rec'[c] = rec[c]
    BY <1>2, OthersKeepTheirJob
  <1>3. CASE ~ \E d \in Consumers : Consume(d)
    <2>1. CASE \E i \in Instances : Crash(i)
      BY <2>1, <1>t DEF Crash, Sending
    <2>2. CASE ~ \E i \in Instances : Crash(i)
      BY <1>3, <2>2 DEF Next, vars, Accept, TopUp, Outbox, OutboxTime, MessageTime,
           AgeMessageClaim, Regroup, Rebalance, Intrude, ForeignRecord, consumerVars, jobVars
    <2> QED
      BY <2>1, <2>2
  <1> QED
    BY <1>1, <1>2, <1>3

\* A message that is claimed has no other holder: its row would be protected.
LEMMA SingleSenderStep ==
  ASSUME IndInv, PromptInv, [Next]_vars
  PROVE  SingleSender'
  <1>1. ASSUME NEW c \in Consumers, NEW d \in Consumers, c # d, cpc'[c] \in Sending,
               cpc'[d] \in Sending, rec'[c] = rec'[d], cpc[c] \notin Sending
        PROVE  FALSE
    <2>1. Consume(c) /\ rec[c] \in Msgs /\ CanClaimMessage(rec[c]) /\ rec'[c] = rec[c]
      BY <1>1, NewSender DEF IndInv
    <2>2. cpc[d] \in Sending /\ rec[d] = rec[c]
      BY <1>1, <2>1, OthersKeepTheirJob DEF IndInv
    <2>3. HeldByConsumer(rec[c])
      BY <2>2 DEF HeldByConsumer
    <2> QED
      BY <2>1, <2>3 DEF PromptInv, HeldIsProtected, CanClaimMessage
  <1> SUFFICES ASSUME NEW c \in Consumers, NEW d \in Consumers, cpc'[c] \in Sending,
                      cpc'[d] \in Sending, rec'[c] = rec'[d], c # d
               PROVE  FALSE
    BY DEF SingleSender
  <1>2. cpc[c] \in Sending /\ cpc[d] \in Sending
    BY <1>1
  <1>3. rec[c] = rec[d]
    BY NewSender DEF IndInv
  <1> QED
    BY <1>2, <1>3 DEF PromptInv, SingleSender

\* Nobody but its holder, and the outbox worker that fails it, touches the row
\* of a message that is being sent; and its claim does not become stale.
LEMMA HeldIsProtectedStep ==
  ASSUME "slow" \notin FaultKinds, IndInv, PromptInv, [Next]_vars
  PROVE  HeldIsProtected'
  <1>t. /\ msgStatus \in [Msgs -> MessageStatus] /\ msgAged \subseteq Msgs
        /\ cpc \in [Consumers -> ConsumerPC] /\ rec \in [Consumers -> Records]
    BY DEF IndInv, TypeOK, RepoTypeOK, ConsumerTypeOK
  <1> DEFINE Safe(s, a, m) == (s[m] = "sending" /\ m \notin a) \/ s[m] = "failed"
  <1> SUFFICES ASSUME NEW m \in Msgs, NEW c \in Consumers, cpc'[c] \in Sending, rec'[c] = m
               PROVE  Safe(msgStatus', msgAged', m)
    BY DEF HeldIsProtected, HeldByConsumer
  <1>1. rec[c] = m
    BY NewSender DEF IndInv
  <1>2. CASE cpc[c] \notin Sending
    <2>1. ClaimMessage(m)
      BY <1>1, <1>2, NewSender DEF IndInv
    <2> QED
      BY <2>1, <1>t DEF ClaimMessage, SetMessage
  <1>3. CASE cpc[c] \in Sending
    <2>h. HeldByConsumer(m)
      BY <1>1, <1>3 DEF HeldByConsumer
    <2>p. Safe(msgStatus, msgAged, m)
      BY <2>h DEF PromptInv, HeldIsProtected
    <2>0. CASE UNCHANGED <<msgStatus, msgAged>>
      BY <2>0, <2>p
    <2>1. ASSUME NEW w \in Instances, Outbox(w)
          PROVE  Safe(msgStatus', msgAged', m)
      <3>1. CASE \E n \in Msgs : FinalizeOutboxExhausted(n)
        BY <3>1, <2>p, <1>t DEF FinalizeOutboxExhausted, OpenMessage, MessageFailed
      <3>2. CASE ~ \E n \in Msgs : FinalizeOutboxExhausted(n)
        <4>1. cur[w] \in Msgs \/ ~Finalize(w)
          BY DEF IndInv, TypeOK, WorkerTypeOK, Finalize
        <4>2. UNCHANGED <<msgStatus, msgAged>>
          BY <2>1, <3>2, <4>1 DEF Outbox, WorkerStep, ClaimPendingOutbox, ClaimRows, PublishEvent,
               MarkPublished, MarkOutboxPublished, RecordFailure, RecordOutboxFailure, SetOutbox,
               DeadLetter, Finalize, tables, repoVars
        <4> QED
          BY <4>2, <2>0
      <3> QED
        BY <3>1, <3>2
    <2>2. CASE Consume(c)
      <3>1. UNCHANGED <<msgStatus, msgAged>>
        BY <2>2, <1>3, <1>t DEF Consume, ConsumerStep, Fetch, RejectPayload, ClaimForSending,
             ClaimMisses, Lookup, SendWithRetry, MarkSent, MarkFailed, ToDLQ, Commit,
             Step, NextRecord, Sending, tables, repoVars
      <3> QED
        BY <3>1, <2>0
    <2>3. ASSUME NEW d \in Consumers, d # c, Consume(d)
          PROVE  Safe(msgStatus', msgAged', m)
      <3>1. cpc[d] \in Sending => rec[d] # m
        BY <2>3, <1>1, <1>3 DEF PromptInv, SingleSender
      <3>2. ~CanClaimMessage(m)
        BY <2>p DEF CanClaimMessage
      <3>3. UNCHANGED <<msgStatus, msgAged>> \/ \E n \in Msgs \ {m}, s \in MessageStatus : SetMessage(n, s)
        BY <2>3, <3>1, <3>2, <1>t DEF Consume, ConsumerStep, Fetch, RejectPayload, ClaimForSending,
             ClaimMisses, Lookup, SendWithRetry, MarkSent, MarkFailed, ToDLQ, Commit, Sending,
             ClaimMessage, MarkMessageSent, MarkMessageFailed, tables, repoVars, MessageStatus,
             IndInv, TypeOK, ConsumerTypeOK
      <3> QED
        BY <3>3, <2>0, <2>p, <1>t DEF SetMessage
    <2>4. ASSUME NEW n \in Msgs, MessageTime(n)
          PROVE  Safe(msgStatus', msgAged', m)
      <3>1. n # m
        BY <2>4, <2>h DEF MessageTime, AgeMessageClaim, Fault
      <3> QED
        BY <2>4, <3>1, <2>p, <1>t DEF MessageTime, AgeMessageClaim, MessageClaimAges
    <2>5. ASSUME NEW u \in Users, NEW S \in SUBSET Msgs, Accept(u, S)
          PROVE  Safe(msgStatus', msgAged', m)
      BY <2>5, <2>p, <1>t DEF Accept, PersistSend, FreshIds
    <2>6. CASE \/ UNCHANGED vars
               \/ \E u \in Users, n \in Deposits : TopUp(u, n)
               \/ \E n \in Msgs : OutboxTime(n)
               \/ \E t \in {"express", "normal"} : Regroup(t)
               \/ \E p \in Partitions, r \in Foreign : Intrude(p, r)
               \/ \E i \in Instances : Crash(i)
      BY <2>6, <2>0 DEF vars, TopUp, AddBalance, OutboxTime, AgeOutboxClaim, OutboxClaimAges,
           Regroup, Rebalance, Intrude, ForeignRecord, Crash, tables, repoVars
    <2> QED
      BY <2>1, <2>2, <2>3, <2>4, <2>5, <2>6 DEF Next
  <1> QED
    BY <1>2, <1>3

\* While no consumer is slow both hold in every behaviour.
LEMMA PromptInvariance ==
  ASSUME "slow" \notin FaultKinds
  PROVE  Spec => [](IndInv /\ PromptInv)
  <1>1. Init => IndInv /\ PromptInv
    <2>1. Init => \A c \in Consumers : cpc[c] \notin Sending
      BY DEF Init, ConsumerInit, Sending
    <2> QED
      BY <2>1, InitInd DEF PromptInv, SingleSender, HeldIsProtected, HeldByConsumer
  <1>2. IndInv /\ PromptInv /\ [Next]_vars => (IndInv /\ PromptInv)'
    BY NextInd, SingleSenderStep, HeldIsProtectedStep DEF PromptInv
  <1> QED
    BY <1>1, <1>2, PTL DEF Spec

\* ClaimMessageForSending lets one consumer at a time send a message, as long
\* as no consumer works on it longer than sendingStaleAfter: crashes, database
\* errors, cancellations and rebalances do not matter.
THEOREM OneSenderAtATime ==
  ASSUME "slow" \notin FaultKinds
  PROVE  Spec => []SingleSender
  <1>1. IndInv /\ PromptInv => SingleSender
    BY DEF PromptInv
  <1> QED
    BY PromptInvariance, <1>1, PTL

\* Under the same condition no statement takes a sent message back.
THEOREM SentStaysSent ==
  ASSUME "slow" \notin FaultKinds
  PROVE  Spec => SentIsFinal
  <1>1. ASSUME IndInv, PromptInv, [Next]_vars
        PROVE  [\A m \in Msgs : msgStatus[m] = "sent" => msgStatus'[m] = "sent"]_vars
    <2>t. msgStatus \in [Msgs -> MessageStatus]
      BY <1>1 DEF IndInv, TypeOK, RepoTypeOK
    <2>c. TableChange
      BY <1>1, TableChanges DEF IndInv
    <2> SUFFICES ASSUME NEW m \in Msgs, msgStatus[m] = "sent"
                 PROVE  msgStatus'[m] = "sent"
      OBVIOUS
    <2>1. ~ \E c \in Consumers : cpc[c] = "failed" /\ rec[c] = m
      BY <1>1 DEF PromptInv, HeldIsProtected, HeldByConsumer, Sending
    <2> QED
      BY <2>1, <2>c, <2>t DEF TableChange, tables, PersistSend, FreshIds, AddBalance,
           ClaimRows, OutboxClaimAges, MessageClaimAges, RecordOutboxFailure, SetOutbox,
           MarkOutboxPublished, FinalizeOutboxExhausted, OpenMessage, MessageFailed,
           ClaimMessage, CanClaimMessage, SetMessage, MarkMessageSent, MarkMessageFailed
  <1> QED
    BY PromptInvariance, <1>1, PTL DEF Spec, SentIsFinal

-------------------------------------------------------------------------------
(***************************************************************************)
(* Calls of the provider                                                   *)
(***************************************************************************)

\* The calls for m that the consumers which have claimed it may still make.
Slots(m) ==
    {s \in Consumers \X (1..MaxProviderAttempts) :
        cpc[s[1]] = "send" /\ rec[s[1]] = m /\ try[s[1]] <= s[2]}

\* A consumer may claim m, now or once time has passed.
MayBeClaimed(m) ==
    \/ msgStatus[m] \in {"none", "queued"}
    \/ msgStatus[m] = "sending" /\ (m \in msgAged \/ ~HeldByConsumer(m))

\* What the next claim of m will cost.
NextClaim(m) == IF MayBeClaimed(m) THEN MaxProviderAttempts ELSE 0

\* Calls made, calls that may still be made and the calls of the next claim stay
\* within one round of attempts, and another one for every fault.
Budgeted(m) ==
    calls[m] + Cardinality(Slots(m)) + NextClaim(m) <= MaxProviderAttempts * (1 + faults)

\* The inductive invariant, together with IndInv.
CallsBudgeted ==
    /\ \A c \in Consumers : cpc[c] = "send" => try[c] >= 1
    /\ \A m \in Msgs : Budgeted(m)

\* What can be counted.
LEMMA SlotNumbers ==
  /\ \A m : IsFiniteSet(Slots(m)) /\ Cardinality(Slots(m)) \in Nat
  /\ \A m : NextClaim(m) \in Nat /\ NextClaim(m) <= MaxProviderAttempts
  <1>1. IsFiniteSet(1..MaxProviderAttempts)
    BY FS_Interval, ConsumerAssumption
  <1>2. IsFiniteSet(Consumers \X (1..MaxProviderAttempts))
    BY <1>1, FS_Product, ConsumerAssumption
  <1>3. ASSUME NEW m PROVE IsFiniteSet(Slots(m)) /\ Cardinality(Slots(m)) \in Nat
    <2>1. Slots(m) \subseteq Consumers \X (1..MaxProviderAttempts)
      BY DEF Slots
    <2> QED
      BY <1>2, <2>1, FS_Subset, FS_CardinalityType
  <1> QED
    BY <1>3, ConsumerAssumption DEF NextClaim

\* Also in the next state.
LEMMA SlotNumbersNext ==
  /\ \A m \in Msgs : IsFiniteSet(Slots(m)') /\ Cardinality(Slots(m)') \in Nat
  /\ \A m \in Msgs : NextClaim(m)' \in Nat /\ NextClaim(m)' <= MaxProviderAttempts
  <1>1. \A m \in Msgs : /\ IsFiniteSet(Slots(m)) /\ Cardinality(Slots(m)) \in Nat
                        /\ NextClaim(m) \in Nat /\ NextClaim(m) <= MaxProviderAttempts
    BY SlotNumbers
  <1>2. (\A m \in Msgs : /\ IsFiniteSet(Slots(m)) /\ Cardinality(Slots(m)) \in Nat
                         /\ NextClaim(m) \in Nat /\ NextClaim(m) <= MaxProviderAttempts)'
    BY <1>1, PTL
  <1> QED
    BY <1>2

\* A fault pays for one more round.
LEMMA OneMoreRound ==
  ASSUME NEW k \in Nat, NEW f \in Nat
  PROVE  k * (1 + f) \in Nat /\ k * (1 + (f + 1)) = k * (1 + f) + k
  OBVIOUS

\* Nothing new may be called, and the row can be claimed only if it could be
\* claimed before, or after a fault.
LEMMA BudgetKept ==
  ASSUME IndInv, CallsBudgeted, NEW m \in Msgs,
         calls'[m] = calls[m], Slots(m)' \subseteq Slots(m),
         \/ faults' = faults + 1
         \/ faults' = faults /\ (MayBeClaimed(m)' => MayBeClaimed(m))
  PROVE  Budgeted(m)'
  <1>t. faults \in Nat /\ calls[m] \in Nat /\ MaxProviderAttempts \in Nat
    BY ConsumerAssumption DEF IndInv, TypeOK, RepoTypeOK, ConsumerTypeOK
  <1>1. Cardinality(Slots(m)') <= Cardinality(Slots(m)) /\ Cardinality(Slots(m)) \in Nat
        /\ Cardinality(Slots(m)') \in Nat
    BY SlotNumbers, SlotNumbersNext, FS_Subset
  <1>2. Budgeted(m)
    BY DEF CallsBudgeted
  <1>n. NextClaim(m) \in Nat /\ NextClaim(m)' \in Nat /\ NextClaim(m)' <= MaxProviderAttempts
    BY SlotNumbers, SlotNumbersNext
  <1>3. CASE faults' = faults + 1
    <2>1. MaxProviderAttempts * (1 + faults') = MaxProviderAttempts * (1 + faults) + MaxProviderAttempts
          /\ MaxProviderAttempts * (1 + faults) \in Nat
      BY <1>t, <1>3, OneMoreRound
    <2> QED
      BY <1>1, <1>2, <1>n, <1>t, <2>1 DEF Budgeted
  <1>4. CASE faults' = faults /\ (MayBeClaimed(m)' => MayBeClaimed(m))
    <2>1. NextClaim(m)' <= NextClaim(m)
      BY <1>4, <1>t DEF NextClaim
    <2>2. MaxProviderAttempts * (1 + faults') = MaxProviderAttempts * (1 + faults)
          /\ MaxProviderAttempts * (1 + faults) \in Nat
      BY <1>t, <1>4, OneMoreRound
    <2> QED
      BY <1>1, <1>2, <1>n, <1>t, <2>1, <2>2 DEF Budgeted
  <1> QED
    BY <1>3, <1>4

\* A consumer has claimed m: the round it may call now was set aside.
LEMMA BudgetClaimed ==
  ASSUME IndInv, CallsBudgeted, NEW m \in Msgs, NEW c \in Consumers,
         calls'[m] = calls[m], faults' = faults, MayBeClaimed(m), ~MayBeClaimed(m)',
         Slots(m)' \subseteq Slots(m) \cup ({c} \X (1..MaxProviderAttempts))
  PROVE  Budgeted(m)'
  <1>t. faults \in Nat /\ calls[m] \in Nat /\ MaxProviderAttempts \in Nat
    BY ConsumerAssumption DEF IndInv, TypeOK, RepoTypeOK, ConsumerTypeOK
  <1> DEFINE Round == {c} \X (1..MaxProviderAttempts)
  <1>1. IsFiniteSet(Round) /\ Cardinality(Round) = MaxProviderAttempts
    <2>1. IsFiniteSet({c}) /\ Cardinality({c}) = 1
      BY FS_Singleton
    <2>2. IsFiniteSet(1..MaxProviderAttempts) /\ Cardinality(1..MaxProviderAttempts) = MaxProviderAttempts
      BY FS_Interval, <1>t
    <2>3. IsFiniteSet(Round) /\ Cardinality(Round) = 1 * Cardinality(1..MaxProviderAttempts)
      BY <2>1, <2>2, FS_Product
    <2> QED
      BY <2>2, <2>3, <1>t
  <1>2. IsFiniteSet(Slots(m)) /\ Cardinality(Slots(m)) \in Nat
    BY SlotNumbers
  <1> HIDE DEF Round
  <1>3. /\ IsFiniteSet(Slots(m) \cup Round)
        /\ Cardinality(Slots(m) \cup Round)
             = Cardinality(Slots(m)) + Cardinality(Round) - Cardinality(Slots(m) \cap Round)
    BY <1>1, <1>2, FS_Union
  <1>4. Cardinality(Slots(m) \cap Round) \in Nat
    BY <1>1, <1>2, FS_Intersection, FS_CardinalityType
  <1>5. Cardinality(Slots(m)') <= Cardinality(Slots(m) \cup Round)
    BY <1>3, FS_Subset DEF Round
  <1>6. Cardinality(Slots(m)') \in Nat
    BY SlotNumbersNext
  <1>7. Cardinality(Slots(m)') <= Cardinality(Slots(m)) + MaxProviderAttempts
    BY <1>1, <1>2, <1>3, <1>4, <1>5, <1>6, <1>t
  <1>8. NextClaim(m) = MaxProviderAttempts /\ NextClaim(m)' = 0
    BY DEF NextClaim
  <1>9. Budgeted(m)
    BY DEF CallsBudgeted
  <1>10. MaxProviderAttempts * (1 + faults') = MaxProviderAttempts * (1 + faults)
         /\ MaxProviderAttempts * (1 + faults) \in Nat
    BY <1>t, OneMoreRound
  <1> QED
    BY <1>2, <1>6, <1>7, <1>8, <1>9, <1>10, <1>t DEF Budgeted

\* A call is one of those that were set aside.
LEMMA BudgetSpent ==
  ASSUME IndInv, CallsBudgeted, NEW m \in Msgs, NEW x \in Slots(m),
         calls'[m] = calls[m] + 1, Slots(m)' \subseteq Slots(m) \ {x},
         \/ faults' = faults + 1
         \/ faults' = faults /\ (MayBeClaimed(m)' => MayBeClaimed(m))
  PROVE  Budgeted(m)'
  <1>t. faults \in Nat /\ calls[m] \in Nat /\ MaxProviderAttempts \in Nat
    BY ConsumerAssumption DEF IndInv, TypeOK, RepoTypeOK, ConsumerTypeOK
  <1>1. Cardinality(Slots(m)') + 1 <= Cardinality(Slots(m)) /\ Cardinality(Slots(m)) \in Nat
        /\ Cardinality(Slots(m)') \in Nat
    BY SlotNumbers, SlotNumbersNext, Larger
  <1>2. Budgeted(m)
    BY DEF CallsBudgeted
  <1>n. NextClaim(m) \in Nat /\ NextClaim(m)' \in Nat /\ NextClaim(m)' <= MaxProviderAttempts
    BY SlotNumbers, SlotNumbersNext
  <1>3. CASE faults' = faults + 1
    <2>1. MaxProviderAttempts * (1 + faults') = MaxProviderAttempts * (1 + faults) + MaxProviderAttempts
          /\ MaxProviderAttempts * (1 + faults) \in Nat
      BY <1>t, <1>3, OneMoreRound
    <2> QED
      BY <1>1, <1>2, <1>n, <1>t, <2>1 DEF Budgeted
  <1>4. CASE faults' = faults /\ (MayBeClaimed(m)' => MayBeClaimed(m))
    <2>1. NextClaim(m)' <= NextClaim(m)
      BY <1>4, <1>t DEF NextClaim
    <2>2. MaxProviderAttempts * (1 + faults') = MaxProviderAttempts * (1 + faults)
          /\ MaxProviderAttempts * (1 + faults) \in Nat
      BY <1>t, <1>4, OneMoreRound
    <2> QED
      BY <1>1, <1>2, <1>n, <1>t, <2>1, <2>2 DEF Budgeted
  <1> QED
    BY <1>3, <1>4

\* A consumer that is not sending m, before and after its step, changes neither
\* the calls that may be made for m nor who holds it.
LEMMA BystanderKeeps ==
  ASSUME IndInv, NEW c \in Consumers, Consume(c), NEW m \in Msgs,
         cpc[c] \in Sending => rec[c] # m, cpc'[c] \in Sending => rec'[c] # m
  PROVE  Slots(m)' \subseteq Slots(m) /\ (HeldByConsumer(m)' <=> HeldByConsumer(m))
  <1>1. \A d \in Consumers \ {c} : cpc'[d] = cpc[d] /\ rec'[d] = rec[d] /\ try'[d] = try[d]
    BY OthersKeepTheirJob DEF IndInv
  <1>2. HeldByConsumer(m)' <=> HeldByConsumer(m)
    BY <1>1 DEF HeldByConsumer
  <1>3. "send" \in Sending
    BY DEF Sending
  <1>4. ASSUME NEW s \in Slots(m)' PROVE s \in Slots(m)
    <2>1. s \in Consumers \X (1..MaxProviderAttempts) /\ s[1] \in Consumers
          /\ cpc'[s[1]] = "send" /\ rec'[s[1]] = m /\ try'[s[1]] <= s[2]
      BY DEF Slots
    <2>2. s[1] # c
      BY <2>1, <1>3
    <2> QED
      BY <2>1, <2>2, <1>1 DEF Slots
  <1> QED
    BY <1>2, <1>4

\* The consumers.
LEMMA ConsumeBudget ==
  ASSUME IndInv, CallsBudgeted, NEW c \in Consumers, Consume(c), NEW m \in Msgs
  PROVE  Budgeted(m)'
  <1>t. /\ cpc \in [Consumers -> ConsumerPC] /\ rec \in [Consumers -> Records]
        /\ try \in [Consumers -> 0..MaxProviderAttempts] /\ faults \in Nat
        /\ msgStatus \in [Msgs -> MessageStatus] /\ msgAged \subseteq Msgs
        /\ calls \in [Msgs -> Nat] /\ \A d \in Consumers : cpc[d] \in Sending => rec[d] \in Msgs
    BY DEF IndInv, TypeOK, RepoTypeOK, ConsumerTypeOK
  <1>o. \A d \in Consumers \ {c} : cpc'[d] = cpc[d] /\ rec'[d] = rec[d] /\ try'[d] = try[d]
    BY OthersKeepTheirJob DEF IndInv
  <1>f. faults' = faults \/ faults' = faults + 1
    BY DEF Consume, ConsumerStep, Fetch, RejectPayload, ClaimForSending, ClaimMisses, Lookup,
       SendWithRetry, MarkSent, MarkFailed, ToDLQ, Commit, repoVars, NoFault, Fault
  <1>1. CASE \/ \E p \in Partitions : Fetch(c, p)
             \/ RejectPayload(c) \/ ClaimMisses(c) \/ Lookup(c) \/ ToDLQ(c) \/ Commit(c)
    <2>1. cpc[c] \notin Sending /\ cpc'[c] \notin Sending
      BY <1>1, <1>t DEF Fetch, RejectPayload, ClaimMisses, Lookup, ToDLQ, Commit, Step,
           NextRecord, Sending
    <2>2. UNCHANGED <<msgStatus, msgAged, calls>>
      BY <1>1 DEF Fetch, RejectPayload, ClaimMisses, Lookup, ToDLQ, Commit, tables, repoVars
    <2>3. Slots(m)' \subseteq Slots(m) /\ (MayBeClaimed(m)' <=> MayBeClaimed(m))
      BY <2>1, <2>2, BystanderKeeps DEF MayBeClaimed
    <2> QED
      BY <1>f, <2>2, <2>3, BudgetKept
  <1>2. CASE ClaimForSending(c)
    <2>0. cpc[c] \notin Sending /\ rec[c] \in Msgs /\ CanClaimMessage(rec[c]) /\ UNCHANGED calls
      BY <1>2 DEF ClaimForSending, Sending
    <2>1. CASE faults' = faults + 1
      <3>1. cpc'[c] \notin Sending
        BY <1>2, <2>1, <1>t DEF ClaimForSending, NoFault, NextRecord, Sending
      <3>2. Slots(m)' \subseteq Slots(m)
        BY <2>0, <3>1, BystanderKeeps
      <3> QED
        BY <2>0, <2>1, <3>2, BudgetKept
    <2>2. CASE faults' = faults
      <3>1. ClaimMessage(rec[c]) /\ cpc'[c] = "send" /\ rec'[c] = rec[c]
        BY <1>2, <2>2, <1>t DEF ClaimForSending, Fault
      <3>2. CASE rec[c] = m
        <4>1. HeldByConsumer(m)'
          BY <3>1, <3>2 DEF HeldByConsumer, Sending
        <4>2. msgStatus'[m] = "sending" /\ m \notin msgAged'
          BY <3>1, <3>2, <1>t DEF ClaimMessage, SetMessage
        <4>3. MayBeClaimed(m) /\ ~MayBeClaimed(m)'
          BY <2>0, <3>2, <4>1, <4>2 DEF CanClaimMessage, MayBeClaimed
        <4>4. Slots(m)' \subseteq Slots(m) \cup ({c} \X (1..MaxProviderAttempts))
          <5>1. ASSUME NEW s \in Slots(m)', s[1] # c PROVE s \in Slots(m)
            <6>1. s \in Consumers \X (1..MaxProviderAttempts) /\ s[1] \in Consumers
                  /\ cpc'[s[1]] = "send" /\ rec'[s[1]] = m /\ try'[s[1]] <= s[2]
              BY DEF Slots
            <6> QED
              BY <6>1, <5>1, <1>o DEF Slots
          <5>2. \A s \in Slots(m)' : s[1] = c => s \in {c} \X (1..MaxProviderAttempts)
            BY DEF Slots
          <5> QED
            BY <5>1, <5>2
        <4> QED
          BY <2>0, <2>2, <4>3, <4>4, BudgetClaimed
      <3>3. CASE rec[c] # m
        <4>1. Slots(m)' \subseteq Slots(m) /\ (HeldByConsumer(m)' <=> HeldByConsumer(m))
          BY <2>0, <3>1, <3>3, BystanderKeeps
        <4>2. msgStatus'[m] = msgStatus[m] /\ (m \in msgAged' <=> m \in msgAged)
          BY <3>1, <3>3, <1>t, <2>0 DEF ClaimMessage, SetMessage
        <4> QED
          BY <2>0, <2>2, <4>1, <4>2, BudgetKept DEF MayBeClaimed
      <3> QED
        BY <3>2, <3>3
    <2> QED
      BY <1>f, <2>1, <2>2
  <1>3. CASE SendWithRetry(c)
    <2>1. UNCHANGED <<msgStatus, msgAged>> /\ cpc[c] = "send" /\ cpc[c] \in Sending /\ rec[c] \in Msgs
      BY <1>3, <1>t DEF SendWithRetry, tables, Sending
    <2>2. faults' = faults => cpc'[c] \in Sending /\ rec'[c] = rec[c]
      BY <1>3, <1>t DEF SendWithRetry, Step, LastTry, Fault, Sending
    <2>3. CASE rec[c] = m
      <3>1. calls'[m] = calls[m] + 1
        BY <1>3, <2>3, <1>t DEF SendWithRetry
      <3>2. try[c] \in 1..MaxProviderAttempts
        BY <2>1, <1>t DEF CallsBudgeted
      <3> DEFINE x == <<c, try[c]>>
      <3>3. x \in Slots(m)
        BY <2>1, <2>3, <3>2 DEF Slots
      <3>4. cpc'[c] = "send" => try'[c] = try[c] + 1
        BY <1>3, <1>t DEF SendWithRetry, Step, LastTry, NextRecord
      <3>5. ASSUME NEW s \in Slots(m)' PROVE s \in Slots(m) /\ s # x
        <4>1. s \in Consumers \X (1..MaxProviderAttempts) /\ s[1] \in Consumers
              /\ s[2] \in 1..MaxProviderAttempts
              /\ cpc'[s[1]] = "send" /\ rec'[s[1]] = m /\ try'[s[1]] <= s[2]
          BY DEF Slots
        <4>2. CASE s[1] # c
          BY <4>1, <4>2, <1>o DEF Slots
        <4>3. CASE s[1] = c
          <5>1. try[c] + 1 <= s[2] /\ try[c] \in Nat /\ s[2] \in Nat
            BY <3>2, <3>4, <4>1, <4>3, ConsumerAssumption
          <5>2. try[c] <= s[2] /\ s[2] # try[c]
            BY <5>1
          <5> QED
            BY <2>1, <2>3, <4>1, <4>3, <5>2 DEF Slots
        <4> QED
          BY <4>2, <4>3
      <3>6. HeldByConsumer(m) /\ (faults' = faults => HeldByConsumer(m)')
        BY <2>1, <2>2, <2>3 DEF HeldByConsumer
      <3> HIDE DEF x
      <3>7. Slots(m)' \subseteq Slots(m) \ {x}
        BY <3>5
      <3> QED
        BY <1>f, <2>1, <3>1, <3>3, <3>6, <3>7, BudgetSpent DEF MayBeClaimed
    <2>4. CASE rec[c] # m
      <3>1. cpc'[c] \in Sending => rec'[c] # m
        BY <1>3, <2>4, <1>t DEF SendWithRetry, Step, LastTry, NextRecord, Sending
      <3>2. calls'[m] = calls[m]
        BY <1>3, <2>4, <1>t DEF SendWithRetry
      <3>3. Slots(m)' \subseteq Slots(m) /\ (HeldByConsumer(m)' <=> HeldByConsumer(m))
        BY <2>4, <3>1, BystanderKeeps
      <3> QED
        BY <1>f, <2>1, <3>2, <3>3, BudgetKept DEF MayBeClaimed
    <2> QED
      BY <2>3, <2>4
  <1>4. CASE MarkSent(c) \/ MarkFailed(c)
    <2>1. cpc[c] \in Sending /\ cpc[c] # "send" /\ cpc'[c] \notin Sending /\ rec[c] \in Msgs
          /\ UNCHANGED calls
      BY <1>4, <1>t DEF MarkSent, MarkFailed, Step, NextRecord, Sending
    <2>2. Slots(m)' \subseteq Slots(m)
      <3>1. ASSUME NEW s \in Slots(m)' PROVE s \in Slots(m)
        <4>1. s \in Consumers \X (1..MaxProviderAttempts) /\ s[1] \in Consumers
              /\ cpc'[s[1]] = "send" /\ rec'[s[1]] = m /\ try'[s[1]] <= s[2]
          BY DEF Slots
        <4>2. s[1] # c
          BY <4>1, <2>1 DEF Sending
        <4> QED
          BY <4>1, <4>2, <1>o DEF Slots
      <3> QED
        BY <3>1
    <2>3. CASE faults' = faults + 1
      BY <2>1, <2>2, <2>3, BudgetKept
    <2>4. CASE faults' = faults
      <3>1. MarkMessageSent(rec[c]) \/ MarkMessageFailed(rec[c])
        BY <1>4, <2>4, <1>t DEF MarkSent, MarkFailed, Fault
      <3>2. CASE rec[c] = m
        <4>1. msgStatus'[m] \in {"sent", "failed"}
          BY <3>1, <3>2, <1>t DEF MarkMessageSent, MarkMessageFailed, SetMessage
        <4>2. ~MayBeClaimed(m)'
          BY <4>1 DEF MayBeClaimed
        <4> QED
          BY <2>1, <2>2, <2>4, <4>2, BudgetKept
      <3>3. CASE rec[c] # m
        <4>1. msgStatus'[m] = msgStatus[m] /\ (m \in msgAged' <=> m \in msgAged)
          BY <3>1, <3>3, <1>t, <2>1 DEF MarkMessageSent, MarkMessageFailed, SetMessage
        <4>2. HeldByConsumer(m)' <=> HeldByConsumer(m)
          BY <2>1, <3>3, BystanderKeeps
        <4> QED
          BY <2>1, <2>2, <2>4, <4>1, <4>2, BudgetKept DEF MayBeClaimed
      <3> QED
        BY <3>2, <3>3
    <2> QED
      BY <1>f, <2>3, <2>4
  <1> QED
    BY <1>1, <1>2, <1>3, <1>4 DEF Consume, ConsumerStep

\* Everybody else.
LEMMA OthersBudget ==
  ASSUME IndInv, CallsBudgeted, [Next]_vars, ~ \E c \in Consumers : Consume(c), NEW m \in Msgs
  PROVE  Budgeted(m)'
  <1>t. /\ cpc \in [Consumers -> ConsumerPC] /\ rec \in [Consumers -> Records]
        /\ try \in [Consumers -> 0..MaxProviderAttempts] /\ faults \in Nat
        /\ msgStatus \in [Msgs -> MessageStatus] /\ msgAged \subseteq Msgs
    BY DEF IndInv, TypeOK, RepoTypeOK, ConsumerTypeOK
  <1>1. ASSUME NEW i \in Instances, Crash(i)
        PROVE  Budgeted(m)'
    <2>1. calls'[m] = calls[m] /\ faults' = faults + 1
      BY <1>1 DEF Crash, Fault
    <2>2. Slots(m)' \subseteq Slots(m)
      <3>1. ASSUME NEW s \in Slots(m)' PROVE s \in Slots(m)
        <4>1. s \in Consumers \X (1..MaxProviderAttempts) /\ s[1] \in Consumers
              /\ cpc'[s[1]] = "send" /\ rec'[s[1]] = m /\ try'[s[1]] <= s[2]
          BY DEF Slots
        <4>2. Home[s[1]] # i
          BY <1>1, <4>1 DEF Crash
        <4>3. cpc[s[1]] = "send" /\ rec[s[1]] = m /\ try[s[1]] <= s[2]
          BY <1>1, <4>1, <4>2 DEF Crash
        <4> QED
          BY <4>1, <4>3 DEF Slots
      <3> QED
        BY <3>1
    <2> QED
      BY <2>1, <2>2, BudgetKept
  <1>2. CASE ~ \E i \in Instances : Crash(i)
    <2>1. UNCHANGED <<cpc, rec, try, calls>>
      BY <1>2 DEF Next, vars, Accept, TopUp, Outbox, OutboxTime, MessageTime,
           AgeMessageClaim, Regroup, Rebalance, Intrude, ForeignRecord, consumerVars, jobVars
    <2>2. Slots(m)' = Slots(m) /\ (HeldByConsumer(m)' <=> HeldByConsumer(m))
      BY <2>1 DEF Slots, HeldByConsumer
    <2>3. faults' = faults \/ faults' = faults + 1
      BY <1>2 DEF Next, vars, Accept, TopUp, Outbox, WorkerStep, ClaimPendingOutbox, PublishEvent,
           MarkPublished, RecordFailure, DeadLetter, Finalize, OutboxTime, AgeOutboxClaim,
           MessageTime, AgeMessageClaim, Regroup, Rebalance, Intrude, ForeignRecord,
           repoVars, NoFault, Fault
    <2>4. MayBeClaimed(m)' => MayBeClaimed(m) \/ faults' = faults + 1
      <3>0. CASE UNCHANGED <<msgStatus, msgAged>>
        BY <3>0, <2>2 DEF MayBeClaimed
      <3>1. ASSUME NEW u \in Users, NEW S \in SUBSET Msgs, Accept(u, S)
            PROVE  MayBeClaimed(m)' => MayBeClaimed(m)
        BY <3>1, <2>2, <1>t DEF Accept, PersistSend, FreshIds, MayBeClaimed
      <3>2. ASSUME NEW w \in Instances, Outbox(w)
            PROVE  MayBeClaimed(m)' => MayBeClaimed(m)
        <4>1. CASE \E n \in Msgs : FinalizeOutboxExhausted(n)
          BY <4>1, <2>2, <1>t DEF FinalizeOutboxExhausted, OpenMessage, MessageFailed, MayBeClaimed
        <4>2. CASE ~ \E n \in Msgs : FinalizeOutboxExhausted(n)
          <5>1. cur[w] \in Msgs \/ ~Finalize(w)
            BY DEF IndInv, TypeOK, WorkerTypeOK, Finalize
          <5>2. UNCHANGED <<msgStatus, msgAged>>
            BY <3>2, <4>2, <5>1 DEF Outbox, WorkerStep, ClaimPendingOutbox, ClaimRows, PublishEvent,
                 MarkPublished, MarkOutboxPublished, RecordFailure, RecordOutboxFailure, SetOutbox,
                 DeadLetter, Finalize, tables, repoVars
          <5> QED
            BY <5>2, <2>2 DEF MayBeClaimed
        <4> QED
          BY <4>1, <4>2
      <3>3. ASSUME NEW n \in Msgs, MessageTime(n)
            PROVE  MayBeClaimed(m)' => MayBeClaimed(m) \/ faults' = faults + 1
        BY <3>3, <2>2, <1>t DEF MessageTime, AgeMessageClaim, MessageClaimAges, Fault, MayBeClaimed
      <3>4. CASE \/ UNCHANGED vars
                 \/ \E u \in Users, n \in Deposits : TopUp(u, n)
                 \/ \E n \in Msgs : OutboxTime(n)
                 \/ \E t \in {"express", "normal"} : Regroup(t)
                 \/ \E p \in Partitions, r \in Foreign : Intrude(p, r)
        BY <3>4, <3>0 DEF vars, TopUp, AddBalance, OutboxTime, AgeOutboxClaim, OutboxClaimAges,
             Regroup, Rebalance, Intrude, ForeignRecord, tables, repoVars
      <3> QED
        BY <1>2, <3>1, <3>2, <3>3, <3>4 DEF Next
    <2> QED
      BY <2>1, <2>2, <2>3, <2>4, BudgetKept
  <1> QED
    BY <1>1, <1>2

\* Every step keeps the budget.
LEMMA BudgetStep ==
  ASSUME IndInv, CallsBudgeted, [Next]_vars
  PROVE  CallsBudgeted'
  <1>t. /\ cpc \in [Consumers -> ConsumerPC] /\ try \in [Consumers -> 0..MaxProviderAttempts]
    BY DEF IndInv, TypeOK, ConsumerTypeOK
  <1>1. ASSUME NEW c \in Consumers, cpc'[c] = "send"
        PROVE  try'[c] >= 1
    <2>1. CASE Consume(c)
      <3>1. CASE ClaimForSending(c) \/ SendWithRetry(c)
        BY <1>1, <3>1, <1>t, ConsumerAssumption DEF ClaimForSending, SendWithRetry, Step, LastTry,
             NextRecord, CallsBudgeted
      <3>2. CASE ~ClaimForSending(c) /\ ~SendWithRetry(c)
        BY <1>1, <2>1, <3>2, <1>t DEF Consume, ConsumerStep, Fetch, RejectPayload, ClaimMisses,
             Lookup, MarkSent, MarkFailed, ToDLQ, Commit, Step, NextRecord
      <3> QED
        BY <3>1, <3>2
    <2>2. ASSUME NEW d \in Consumers, Consume(d), d # c
          PROVE  try'[c] >= 1
      BY <1>1, <2>2, OthersKeepTheirJob DEF IndInv, CallsBudgeted
    <2>3. CASE ~ \E d \in Consumers : Consume(d)
      <3>1. CASE \E i \in Instances : Crash(i)
        BY <1>1, <3>1 DEF Crash, CallsBudgeted
      <3>2. CASE ~ \E i \in Instances : Crash(i)
        <4>1. UNCHANGED <<cpc, try>>
          BY <2>3, <3>2 DEF Next, vars, Accept, TopUp, Outbox, OutboxTime, MessageTime,
               AgeMessageClaim, Regroup, Rebalance, Intrude, ForeignRecord, consumerVars, jobVars
        <4> QED
          BY <1>1, <4>1 DEF CallsBudgeted
      <3> QED
        BY <3>1, <3>2
    <2> QED
      BY <2>1, <2>2, <2>3
  <1>2. \A m \in Msgs : Budgeted(m)'
    BY ConsumeBudget, OthersBudget
  <1> QED
    BY <1>1, <1>2 DEF CallsBudgeted

\* At the start the one round that every message has is set aside.
LEMMA BudgetInit == Init => CallsBudgeted
  <1> SUFFICES ASSUME Init PROVE CallsBudgeted
    OBVIOUS
  <1>1. \A c \in Consumers : cpc[c] # "send"
    BY DEF Init, ConsumerInit
  <1>2. ASSUME NEW m \in Msgs PROVE Budgeted(m)
    <2>1. Slots(m) = {}
      BY <1>1 DEF Slots
    <2>2. Cardinality(Slots(m)) = 0
      BY <2>1, FS_EmptySet
    <2>3. calls[m] = 0 /\ faults = 0
      BY DEF Init, ConsumerInit, RepoInit
    <2>4. NextClaim(m) \in Nat /\ NextClaim(m) <= MaxProviderAttempts
      BY SlotNumbers
    <2> QED
      BY <2>2, <2>3, <2>4, ConsumerAssumption DEF Budgeted
  <1> QED
    BY <1>1, <1>2 DEF CallsBudgeted

\* sendWithRetry calls the provider at most maxProviderAttempts times for a
\* message, and as often again for every fault, whatever crashes, slow consumers
\* and redeliveries do.
THEOREM ProviderCallsAreBounded == Spec => []ProviderCallsBounded
  <1>1. Init => IndInv /\ CallsBudgeted
    BY InitInd, BudgetInit
  <1>2. IndInv /\ CallsBudgeted /\ [Next]_vars => (IndInv /\ CallsBudgeted)'
    BY NextInd, BudgetStep
  <1>3. IndInv /\ CallsBudgeted => ProviderCallsBounded
    <2> SUFFICES ASSUME IndInv, CallsBudgeted, NEW m \in Msgs
                 PROVE  calls[m] <= MaxProviderAttempts * (1 + faults)
      BY DEF ProviderCallsBounded
    <2>1. faults \in Nat /\ calls[m] \in Nat /\ MaxProviderAttempts \in Nat
      BY ConsumerAssumption DEF IndInv, TypeOK, RepoTypeOK, ConsumerTypeOK
    <2>2. Cardinality(Slots(m)) \in Nat /\ NextClaim(m) \in Nat
      BY SlotNumbers
    <2>3. MaxProviderAttempts * (1 + faults) \in Nat
      BY <2>1, OneMoreRound
    <2> QED
      BY <2>1, <2>2, <2>3 DEF CallsBudgeted, Budgeted
  <1> QED
    BY <1>1, <1>2, <1>3, PTL DEF Spec

-------------------------------------------------------------------------------
(***************************************************************************)
(* Records in order                                                        *)
(***************************************************************************)

\* Nothing makes a consumer leave a record behind: no process dies, no
\* statement fails, no provider call is cancelled.  Slow consumers, rebalances,
\* failing commits and foreign records may happen.
Calm == FaultKinds \cap {"crash", "db", "cancel"} = {}

\* Record r is done with, or a consumer is about to be done with it.
Handled(r) == r \in Msgs => msgStatus[r] \in Terminal \/ HeldByConsumer(r)

\* Nobody leaves a message in sending.
SendingIsHeld == \A m \in Msgs : msgStatus[m] = "sending" => HeldByConsumer(m)

\* The records of the outbox are about accepted messages.
LogHasRows ==
    \A p \in Partitions : \A i \in 1..Len(log[p]) :
        log[p][i] \in Msgs => msgStatus[log[p][i]] # "none"

\* A partition has one reader, of its own lane.
GroupsApart ==
    /\ \A c \in Consumers : \A p \in assigned[c] : PartitionTopic[p] = LaneOf[c]
    /\ \A c, d \in Consumers : \A p \in Partitions :
          p \in assigned[c] /\ p \in assigned[d] => c = d

\* Readers and committed offsets stay within the log.
PositionsInLog ==
    \A p \in Partitions : rpos[p] <= Len(log[p]) /\ committed[p] <= Len(log[p])

\* Consumer c has the record at place i of p and has not claimed its message.
Reading(c, p, i) == part[c] = p /\ off[c] = i - 1 /\ cpc[c] \in {"process", "lookup"}

\* What consumer c has is a record of the log, the ones before it are handled, and
\* what it is about to commit is handled too.
Job(c) ==
    cpc[c] # "fetch" =>
        /\ off[c] < Len(log[part[c]]) /\ rec[c] = log[part[c]][off[c] + 1]
        /\ \A i \in 1..off[c] : Handled(log[part[c]][i])
        /\ cpc[c] \in {"dlq", "commit"} => Handled(rec[c])
        /\ cpc[c] = "lookup" /\ rec[c] \in Msgs => msgStatus[rec[c]] # "queued"

\* The records before the position of a reader are handled, except the last one
\* while its consumer reads it.
ReadersInOrder ==
    \A p \in Partitions : \A i \in 1..rpos[p] :
        \/ Handled(log[p][i])
        \/ i = rpos[p] /\ \E c \in Consumers : p \in assigned[c] /\ Reading(c, p, i)

\* The inductive invariant, together with IndInv.
OrderInv ==
    /\ SendingIsHeld
    /\ LogHasRows
    /\ GroupsApart
    /\ PositionsInLog
    /\ \A c \in Consumers : Job(c)
    /\ ReadersInOrder
    /\ CommittedIsHandled

\* What does not happen.
LEMMA CalmSteps ==
  ASSUME Calm
  PROVE  /\ ~Fault("crash") /\ ~Fault("db") /\ ~Fault("cancel")
         /\ \A i \in Instances : ~Crash(i)
  BY DEF Calm, Fault, Crash

\* A consumer gives up a message by settling it.
LEMMA HoldersSettle ==
  ASSUME Calm, IndInv, [Next]_vars, NEW c \in Consumers, cpc[c] \in Sending
  PROVE  \/ cpc'[c] \in Sending /\ rec'[c] = rec[c]
         \/ msgStatus'[rec[c]] \in Terminal
  <1>t. /\ cpc \in [Consumers -> ConsumerPC] /\ rec \in [Consumers -> Records]
        /\ msgStatus \in [Msgs -> MessageStatus] /\ rec[c] \in Msgs
    BY DEF IndInv, TypeOK, RepoTypeOK, ConsumerTypeOK
  <1>1. CASE Consume(c)
    <2>1. CASE SendWithRetry(c)
      BY <2>1, <1>t, CalmSteps DEF SendWithRetry, Step, LastTry, Sending
    <2>2. CASE MarkSent(c) \/ MarkFailed(c)
      BY <2>2, <1>t, CalmSteps DEF MarkSent, MarkFailed, MarkMessageSent, MarkMessageFailed,
           SetMessage, Terminal
    <2> QED
      BY <1>1, <2>1, <2>2 DEF Consume, ConsumerStep, Fetch, RejectPayload, ClaimForSending,
           ClaimMisses, Lookup, ToDLQ, Commit, Sending
  <1>2. ASSUME NEW d \in Consumers, Consume(d), d # c
        PROVE  cpc'[c] = cpc[c] /\ rec'[c] = rec[c]
    BY <1>2, OthersKeepTheirJob DEF IndInv
  <1>3. CASE ~ \E d \in Consumers : Consume(d)
    BY <1>3, CalmSteps DEF Next, vars, Accept, TopUp, Outbox, OutboxTime, MessageTime,
         AgeMessageClaim, Regroup, Rebalance, Intrude, ForeignRecord, consumerVars, jobVars
  <1> QED
    BY <1>1, <1>2, <1>3

\* What is handled stays handled.
LEMMA HandledStable ==
  ASSUME Calm, IndInv, [Next]_vars
  PROVE  \A r : Handled(r) => Handled(r)'
  <1> SUFFICES ASSUME NEW r, Handled(r), r \in Msgs
               PROVE  msgStatus'[r] \in Terminal \/ HeldByConsumer(r)'
    BY DEF Handled
  <1>1. CASE msgStatus[r] \in Terminal
    BY <1>1, TableChanges, StepMonotone DEF IndInv, Monotone
  <1>2. CASE HeldByConsumer(r)
    <2>1. PICK c \in Consumers : cpc[c] \in Sending /\ rec[c] = r
      BY <1>2 DEF HeldByConsumer
    <2> QED
      BY <2>1, HoldersSettle DEF HeldByConsumer
  <1> QED
    BY <1>1, <1>2 DEF Handled

\* A message gets into sending by a claim whose caller goes on.
LEMMA SendingIsHeldStep ==
  ASSUME Calm, IndInv, OrderInv, [Next]_vars
  PROVE  SendingIsHeld'
  <1>t. msgStatus \in [Msgs -> MessageStatus]
    BY DEF IndInv, TypeOK, RepoTypeOK
  <1> SUFFICES ASSUME NEW m \in Msgs, msgStatus'[m] = "sending"
               PROVE  HeldByConsumer(m)'
    BY DEF SendingIsHeld
  <1>1. CASE msgStatus[m] = "sending"
    <2>1. Handled(m)
      BY <1>1 DEF OrderInv, SendingIsHeld, Handled
    <2>2. Handled(m)'
      BY <2>1, HandledStable
    <2> QED
      BY <2>2 DEF Handled, Terminal
  <1>2. CASE msgStatus[m] # "sending"
    <2>1. CASE \E c \in Consumers : Consume(c)
      <3>1. PICK c \in Consumers : Consume(c)
        BY <2>1
      <3>2. ClaimForSending(c) /\ rec[c] = m
        BY <3>1, <1>2, <1>t DEF Consume, ConsumerStep, Fetch, RejectPayload, ClaimForSending,
             ClaimMisses, Lookup, SendWithRetry, MarkSent, MarkFailed, ToDLQ, Commit,
             ClaimMessage, MarkMessageSent, MarkMessageFailed, SetMessage, tables, repoVars
      <3>3. cpc'[c] = "send" /\ rec'[c] = rec[c]
        BY <3>2, CalmSteps DEF ClaimForSending, IndInv, TypeOK, ConsumerTypeOK
      <3> QED
        BY <3>2, <3>3 DEF HeldByConsumer, Sending
    <2>2. CASE ~ \E c \in Consumers : Consume(c)
      BY <2>2, <1>2, <1>t, CalmSteps DEF Next, vars, Accept, PersistSend, TopUp, AddBalance, Outbox,
           WorkerStep, ClaimPendingOutbox, ClaimRows, PublishEvent, MarkPublished,
           MarkOutboxPublished, RecordFailure, RecordOutboxFailure, SetOutbox, DeadLetter,
           Finalize, FinalizeOutboxExhausted, MessageFailed, OutboxTime, AgeOutboxClaim,
           OutboxClaimAges, MessageTime, AgeMessageClaim, MessageClaimAges, Regroup, Rebalance,
           Intrude, ForeignRecord, tables, repoVars
    <2> QED
      BY <2>1, <2>2
  <1> QED
    BY <1>1, <1>2

\* The places of the log do not change.
LEMMA PlacesStay ==
  ASSUME IndInv, [Next]_vars, NEW p \in Partitions
  PROVE  /\ Len(log[p]) \in Nat /\ Len(log'[p]) \in Nat /\ Len(log[p]) <= Len(log'[p])
         /\ \A i \in 1..Len(log[p]) : log'[p][i] = log[p][i]
  <1>t. log \in [Partitions -> Seq(Records)] /\ log[p] \in Seq(Records)
    BY DEF IndInv, TypeOK, BrokerTypeOK
  <1>1. CASE UNCHANGED log
    BY <1>1, <1>t
  <1>2. ASSUME NEW q \in Partitions, NEW r \in Records, log' = [log EXCEPT ![q] = Append(@, r)]
        PROVE  /\ Len(log[p]) \in Nat /\ Len(log'[p]) \in Nat /\ Len(log[p]) <= Len(log'[p])
               /\ \A i \in 1..Len(log[p]) : log'[p][i] = log[p][i]
    <2>1. log'[p] = log[p] \/ log'[p] = Append(log[p], r)
      BY <1>2, <1>t
    <2>2. CASE log'[p] = log[p]
      BY <2>2, <1>t
    <2>3. CASE log'[p] = Append(log[p], r)
      <3>1. Len(Append(log[p], r)) = Len(log[p]) + 1 /\ Len(log[p]) \in Nat
        BY <1>t
      <3>2. \A i \in 1..Len(log[p]) : Append(log[p], r)[i] = log[p][i]
        BY <1>t
      <3> QED
        BY <2>3, <3>1, <3>2
    <2> QED
      BY <2>1, <2>2, <2>3
  <1> QED
    BY <1>1, <1>2, LogAppends DEF IndInv

\* A new record is about a claimed row, and rows stay.
LEMMA LogHasRowsStep ==
  ASSUME IndInv, OrderInv, [Next]_vars
  PROVE  LogHasRows'
  <1>t. log \in [Partitions -> Seq(Records)]
    BY DEF IndInv, TypeOK, BrokerTypeOK
  <1>m. \A m \in Msgs : msgStatus[m] # "none" => msgStatus'[m] # "none"
    BY TableChanges, StepMonotone DEF IndInv, Monotone
  <1>1. CASE UNCHANGED log
    BY <1>1, <1>m DEF OrderInv, LogHasRows
  <1>2. ASSUME NEW q \in Partitions, NEW r \in Records, log' = [log EXCEPT ![q] = Append(@, r)],
               r \in Msgs => \E w \in Instances : events[w][r] > 0
        PROVE  LogHasRows'
    <2>1. r \in Msgs => msgStatus[r] # "none"
      BY <1>2 DEF IndInv, WorkersRemember, RowsTogether
    <2>2. ASSUME NEW p \in Partitions, NEW i \in 1..Len(log'[p]), log'[p][i] \in Msgs
          PROVE  msgStatus'[log'[p][i]] # "none"
      <3>1. log[p] \in Seq(Records) /\ (log'[p] = log[p] \/ log'[p] = Append(log[p], r))
        BY <1>2, <1>t
      <3>2. log'[p][i] = r \/ (i \in 1..Len(log[p]) /\ log'[p][i] = log[p][i])
        BY <3>1
      <3> QED
        BY <2>1, <2>2, <3>2, <1>m DEF OrderInv, LogHasRows
    <2> QED
      BY <2>2 DEF LogHasRows
  <1> QED
    BY <1>1, <1>2, LogAppends DEF IndInv

\* A new generation of a group hands out the partitions of its own topic.
LEMMA GroupsApartStep ==
  ASSUME Calm, IndInv, OrderInv, [Next]_vars
  PROVE  GroupsApart'
  <1>t. assigned \in [Consumers -> SUBSET Partitions]
    BY DEF IndInv, TypeOK, ConsumerTypeOK
  <1>1. CASE UNCHANGED assigned
    BY <1>1 DEF OrderInv, GroupsApart
  <1>2. ASSUME NEW t \in {"express", "normal"}, Regroup(t)
        PROVE  GroupsApart'
    <2>1. PICK f \in Assignments :
             assigned' = [c \in Consumers |-> IF LaneOf[c] = t THEN f[c] ELSE assigned[c]]
      BY <1>2 DEF Regroup, Rebalance, Reassign
    <2>2. /\ f \in [Consumers -> SUBSET Partitions]
          /\ \A c \in Consumers : \A p \in f[c] : PartitionTopic[p] = LaneOf[c]
          /\ \A c, d \in Consumers : c # d => f[c] \cap f[d] = {}
      BY DEF Assignments
    <2>3. \A c \in Consumers : \A p \in assigned'[c] : PartitionTopic[p] = LaneOf[c]
      BY <2>1, <2>2 DEF OrderInv, GroupsApart
    <2>4. \A c, d \in Consumers : \A p \in Partitions :
             p \in assigned'[c] /\ p \in assigned'[d] => c = d
      <3> SUFFICES ASSUME NEW c \in Consumers, NEW d \in Consumers, NEW p \in Partitions,
                          p \in assigned'[c], p \in assigned'[d]
                   PROVE  c = d
        OBVIOUS
      <3>1. LaneOf[c] = LaneOf[d]
        BY <2>3
      <3> QED
        BY <2>1, <2>2, <3>1 DEF OrderInv, GroupsApart
    <2> QED
      BY <2>3, <2>4 DEF GroupsApart
  <1>3. CASE ~ \E t \in {"express", "normal"} : Regroup(t)
    <2>1. UNCHANGED assigned
      BY <1>3, CalmSteps DEF Next, vars, Accept, TopUp, Outbox, OutboxTime, MessageTime,
         AgeMessageClaim, Intrude, ForeignRecord, consumerVars, readerVars, Consume, ConsumerStep, Fetch,
         RejectPayload, ClaimForSending, ClaimMisses, Lookup, SendWithRetry, MarkSent, MarkFailed,
         ToDLQ, Commit
    <2> QED
      BY <1>1, <2>1
  <1> QED
    BY <1>2, <1>3

\* Fetch stops at the end of the log and Commit is about a record of the log.
LEMMA PositionsInLogStep ==
  ASSUME Calm, IndInv, OrderInv, [Next]_vars
  PROVE  PositionsInLog'
  <1>t. /\ log \in [Partitions -> Seq(Records)] /\ rpos \in [Partitions -> Nat]
        /\ committed \in [Partitions -> Nat] /\ part \in [Consumers -> Partitions]
        /\ off \in [Consumers -> Nat]
    BY DEF IndInv, TypeOK, BrokerTypeOK, ConsumerTypeOK
  <1>l. \A p \in Partitions : Len(log[p]) \in Nat /\ Len(log'[p]) \in Nat /\ Len(log[p]) <= Len(log'[p])
    BY PlacesStay
  <1>p. \A p \in Partitions : rpos[p] <= Len(log[p]) /\ committed[p] <= Len(log[p])
    BY DEF OrderInv, PositionsInLog
  <1>1. ASSUME NEW p \in Partitions PROVE rpos'[p] <= Len(log[p])
    <2>1. ASSUME NEW c \in Consumers, NEW q \in Partitions, Fetch(c, q)
          PROVE  rpos'[p] <= Len(log[p])
      BY <2>1, <1>t, <1>l, <1>p DEF Fetch
    <2>2. ASSUME NEW t \in {"express", "normal"}, Regroup(t)
          PROVE  rpos'[p] <= Len(log[p])
      BY <2>2, <1>p DEF Regroup, Rebalance, Reassign
    <2>3. CASE /\ ~ \E t \in {"express", "normal"} : Regroup(t)
               /\ ~ \E c \in Consumers, q \in Partitions : Fetch(c, q)
      <3>1. UNCHANGED rpos
        BY <2>3, CalmSteps DEF Next, vars, Accept, TopUp, Outbox, OutboxTime, MessageTime,
           AgeMessageClaim, Intrude, ForeignRecord, consumerVars, readerVars, Consume, ConsumerStep,
           RejectPayload, ClaimForSending, ClaimMisses, Lookup, SendWithRetry, MarkSent, MarkFailed,
           ToDLQ, Commit
      <3> QED
        BY <3>1, <1>p
    <2> QED
      BY <2>1, <2>2, <2>3
  <1>2. ASSUME NEW p \in Partitions PROVE committed'[p] <= Len(log[p])
    <2>1. ASSUME NEW c \in Consumers, Commit(c)
          PROVE  committed'[p] <= Len(log[p])
      <3>1. off[c] < Len(log[part[c]])
        BY <2>1 DEF Commit, OrderInv, Job
      <3>2. committed'[p] = committed[p] \/ (p = part[c] /\ committed'[p] = off[c] + 1)
        BY <2>1, <1>t DEF Commit, CommitOffset
      <3> QED
        BY <3>1, <3>2, <1>p, <1>l, <1>t
    <2>2. CASE ~ \E c \in Consumers : Commit(c)
      <3>1. UNCHANGED committed
        BY <2>2, CalmSteps DEF Next, vars, Accept, TopUp, Outbox, WorkerStep, ClaimPendingOutbox,
           PublishEvent, MarkPublished, RecordFailure, DeadLetter, Finalize, OutboxTime,
           AgeOutboxClaim, MessageTime, AgeMessageClaim, Regroup, Rebalance, Intrude, ForeignRecord,
           Consume, ConsumerStep, Fetch, RejectPayload, ClaimForSending, ClaimMisses, Lookup,
           SendWithRetry, MarkSent, MarkFailed, ToDLQ, brokerVars
      <3> QED
        BY <3>1, <1>p
    <2> QED
      BY <2>1, <2>2
  <1>3. rpos' \in [Partitions -> Nat] /\ committed' \in [Partitions -> Nat]
    BY NextType DEF IndInv, TypeOK, BrokerTypeOK, ConsumerTypeOK
  <1> QED
    BY <1>1, <1>2, <1>3, <1>l DEF PositionsInLog

\* Who fetches from a partition has done with the records before.
LEMMA FetchInOrder ==
  ASSUME IndInv, OrderInv, NEW c \in Consumers, NEW p \in Partitions, Fetch(c, p)
  PROVE  \A i \in 1..rpos[p] : Handled(log[p][i])
  <1>1. cpc[c] = "fetch" /\ p \in assigned[c]
    BY DEF Fetch
  <1> SUFFICES ASSUME NEW i \in 1..rpos[p], ~Handled(log[p][i])
               PROVE  FALSE
    OBVIOUS
  <1>2. PICK d \in Consumers : p \in assigned[d] /\ Reading(d, p, i)
    BY DEF OrderInv, ReadersInOrder
  <1>3. d = c
    BY <1>1, <1>2 DEF OrderInv, GroupsApart
  <1> QED
    BY <1>1, <1>2, <1>3 DEF Reading

\* An accepted message that is not queued is never queued again.
LEMMA NeverQueuedAgain ==
  ASSUME IndInv, [Next]_vars, NEW m \in Msgs, msgStatus[m] \notin {"none", "queued"}
  PROVE  msgStatus'[m] # "queued"
  <1>1. TableChange /\ msgStatus \in [Msgs -> MessageStatus]
    BY TableChanges DEF IndInv, TypeOK, RepoTypeOK
  <1> QED
    BY <1>1 DEF TableChange, tables, PersistSend, FreshIds, AddBalance,
       ClaimRows, OutboxClaimAges, MessageClaimAges, RecordOutboxFailure, SetOutbox,
       MarkOutboxPublished, FinalizeOutboxExhausted, MessageFailed,
       ClaimMessage, SetMessage, MarkMessageSent, MarkMessageFailed

\* The record of a consumer is in the log, so that its message has been accepted.
LEMMA JobHasRow ==
  ASSUME IndInv, OrderInv, NEW c \in Consumers, cpc[c] # "fetch", rec[c] \in Msgs
  PROVE  msgStatus[rec[c]] # "none"
  <1>1. off[c] < Len(log[part[c]]) /\ rec[c] = log[part[c]][off[c] + 1]
    BY DEF OrderInv, Job
  <1>2. part[c] \in Partitions /\ off[c] \in Nat /\ Len(log[part[c]]) \in Nat
    BY DEF IndInv, TypeOK, BrokerTypeOK, ConsumerTypeOK
  <1>3. off[c] + 1 \in 1..Len(log[part[c]])
    BY <1>1, <1>2
  <1> QED
    BY <1>1, <1>2, <1>3 DEF OrderInv, LogHasRows

\* The part of Job that only the log and the others can disturb.
LEMMA JobPlace ==
  ASSUME Calm, IndInv, OrderInv, [Next]_vars, NEW c \in Consumers, cpc[c] # "fetch",
         part'[c] = part[c], off'[c] = off[c], rec'[c] = rec[c]
  PROVE  /\ off'[c] < Len(log'[part'[c]]) /\ rec'[c] = log'[part'[c]][off'[c] + 1]
         /\ \A i \in 1..off'[c] : (Handled(log[part[c]][i]))'
  <1>1. off[c] < Len(log[part[c]]) /\ rec[c] = log[part[c]][off[c] + 1]
        /\ \A i \in 1..off[c] : Handled(log[part[c]][i])
    BY DEF OrderInv, Job
  <1>2. part[c] \in Partitions /\ off[c] \in Nat
    BY DEF IndInv, TypeOK, ConsumerTypeOK
  <1>3. /\ Len(log[part[c]]) \in Nat /\ Len(log'[part[c]]) \in Nat
        /\ Len(log[part[c]]) <= Len(log'[part[c]])
        /\ \A i \in 1..Len(log[part[c]]) : log'[part[c]][i] = log[part[c]][i]
    BY <1>2, PlacesStay
  <1>4. off[c] + 1 \in 1..Len(log[part[c]]) /\ 1..off[c] \subseteq 1..Len(log[part[c]])
    BY <1>1, <1>2, <1>3
  <1>5. ASSUME NEW i \in 1..off[c] PROVE (Handled(log[part[c]][i]))'
    <2>1. PICK r : r = log[part[c]][i]
      OBVIOUS
    <2>2. Handled(r)'
      BY <1>1, <2>1, HandledStable
    <2>3. r = log'[part'[c]][i]
      BY <1>3, <1>4, <2>1
    <2> QED
      BY <2>2, <2>3 DEF Handled, HeldByConsumer
  <1>6. off'[c] < Len(log'[part'[c]]) /\ rec'[c] = log'[part'[c]][off'[c] + 1]
    BY <1>1, <1>2, <1>3, <1>4
  <1> QED
    BY <1>5, <1>6

\* Each step of a consumer leads from a job in order to a job in order, and no
\* step of the others disturbs it.
LEMMA JobStep ==
  ASSUME Calm, IndInv, OrderInv, [Next]_vars, NEW c \in Consumers
  PROVE  Job(c)'
  <1>t. /\ cpc \in [Consumers -> ConsumerPC] /\ rec \in [Consumers -> Records]
        /\ part \in [Consumers -> Partitions] /\ off \in [Consumers -> Nat]
        /\ msgStatus \in [Msgs -> MessageStatus]
        /\ \A d \in Consumers : cpc[d] \in Sending => rec[d] \in Msgs
    BY DEF IndInv, TypeOK, RepoTypeOK, ConsumerTypeOK
  <1>j. Job(c)
    BY DEF OrderInv
  <1>n. BadPayload \notin Msgs
    BY MsgsAssumption DEF BadPayload
  \* The clauses about the outcome follow from what holds of the record.
  <1>0. ASSUME cpc[c] # "fetch", part'[c] = part[c], off'[c] = off[c], rec'[c] = rec[c],
               cpc'[c] \in {"dlq", "commit"} => Handled(rec[c])',
               cpc'[c] = "lookup" /\ rec[c] \in Msgs => msgStatus'[rec[c]] # "queued"
        PROVE  Job(c)'
    <2>1. /\ off'[c] < Len(log'[part'[c]]) /\ rec'[c] = log'[part'[c]][off'[c] + 1]
          /\ \A i \in 1..off'[c] : (Handled(log[part[c]][i]))'
      BY <1>0, JobPlace
    <2> QED
      BY <1>0, <2>1 DEF Job
  <1>1. CASE cpc'[c] = cpc[c] /\ rec'[c] = rec[c] /\ part'[c] = part[c] /\ off'[c] = off[c]
    <2>1. CASE cpc[c] = "fetch"
      BY <1>1, <2>1 DEF Job
    <2>2. CASE cpc[c] # "fetch"
      <3>1. PICK r : r = rec[c]
        OBVIOUS
      <3>2. cpc[c] \in {"dlq", "commit"} => Handled(r)'
        BY <1>j, <2>2, <3>1, HandledStable DEF Job
      <3>3. cpc'[c] \in {"dlq", "commit"} => Handled(rec[c])'
        BY <1>1, <3>1, <3>2 DEF Handled, HeldByConsumer
      <3>4. cpc[c] = "lookup" /\ rec[c] \in Msgs => msgStatus[rec[c]] \notin {"none", "queued"}
        BY <1>j, <2>2, JobHasRow DEF Job
      <3>5. cpc'[c] = "lookup" /\ rec[c] \in Msgs => msgStatus'[rec[c]] # "queued"
        BY <1>1, <3>4, NeverQueuedAgain
      <3> QED
        BY <1>0, <1>1, <2>2, <3>3, <3>5
    <2> QED
      BY <2>1, <2>2
  <1>2. CASE Consume(c)
    <2>1. ASSUME NEW p \in Partitions, Fetch(c, p)
          PROVE  Job(c)'
      <3>1. /\ cpc'[c] = "process" /\ part'[c] = p /\ off'[c] = rpos[p] /\ UNCHANGED log
            /\ rec'[c] = log[p][rpos[p] + 1] /\ rpos[p] < Len(log[p])
        BY <2>1, <1>t DEF Fetch, RecordAt, brokerVars
      <3>2. ASSUME NEW i \in 1..rpos[p] PROVE (Handled(log[part[c]][i]))'
        <4>1. PICK r : r = log[p][i]
          OBVIOUS
        <4>2. Handled(r)'
          BY <2>1, <4>1, FetchInOrder, HandledStable
        <4>3. r = log'[part'[c]][i]
          BY <3>1, <4>1
        <4> QED
          BY <4>2, <4>3 DEF Handled, HeldByConsumer
      <3> QED
        BY <3>1, <3>2 DEF Job
    <2>2. CASE cpc'[c] = "fetch"
      BY <2>2 DEF Job
    <2>3. CASE RejectPayload(c)
      <3>1. cpc[c] = "process" /\ cpc'[c] = "commit" /\ rec[c] = BadPayload /\ UNCHANGED <<rec, part, off>>
        BY <2>3, <1>t DEF RejectPayload, Step
      <3>2. Handled(rec[c])'
        BY <3>1, <1>n DEF Handled
      <3> QED
        BY <3>1, <3>2, <1>0
    <2>4. CASE ClaimForSending(c) \/ SendWithRetry(c)
      <3>1. /\ cpc[c] # "fetch" /\ cpc'[c] \notin {"dlq", "commit", "lookup"}
            /\ cpc'[c] = "fetch" \/ UNCHANGED <<rec, part, off>>
        BY <2>4, <1>t DEF ClaimForSending, SendWithRetry, Step, LastTry, NextRecord
      <3> QED
        BY <3>1, <2>2, <1>0
    <2>5. CASE ClaimMisses(c)
      <3>1. /\ cpc[c] = "process" /\ rec[c] \in Msgs => msgStatus[rec[c]] # "queued"
            /\ UNCHANGED msgStatus /\ cpc'[c] = "lookup" /\ UNCHANGED <<rec, part, off>>
        BY <2>5, <1>t, CalmSteps DEF ClaimMisses, CanClaimMessage, Step, tables
      <3> QED
        BY <2>5, <3>1, <1>0 DEF ClaimMisses
    <2>6. CASE Lookup(c) /\ cpc'[c] # "fetch"
      <3>1. /\ cpc[c] = "lookup" /\ cpc'[c] = "commit" /\ UNCHANGED <<rec, part, off, msgStatus>>
            /\ Settled(rec[c])
        BY <2>6, <1>t, CalmSteps DEF Lookup, Step, NextRecord, tables
      <3>2. rec[c] \in Msgs => msgStatus[rec[c]] \in Terminal
        BY <3>1, JobHasRow DEF Settled, Terminal
      <3>3. Handled(rec[c])'
        BY <3>1, <3>2 DEF Handled
      <3> QED
        BY <3>1, <3>3, <1>0
    <2>7. CASE MarkSent(c) \/ MarkFailed(c)
      <3>1. /\ cpc[c] # "fetch" /\ cpc'[c] # "lookup" /\ UNCHANGED <<rec, part, off>>
            /\ MarkMessageSent(rec[c]) \/ MarkMessageFailed(rec[c])
        BY <2>7, <1>t, CalmSteps DEF MarkSent, MarkFailed, Step
      <3>2. rec[c] \in Msgs
        BY <2>7, <1>t DEF MarkSent, MarkFailed, Sending
      <3>3. msgStatus'[rec[c]] \in Terminal
        BY <3>1, <3>2, <1>t DEF MarkMessageSent, MarkMessageFailed, SetMessage, Terminal
      <3>4. Handled(rec[c])'
        BY <3>1, <3>3 DEF Handled
      <3> QED
        BY <3>1, <3>4, <1>0
    <2>8. CASE ToDLQ(c)
      <3>1. cpc[c] = "dlq" /\ cpc'[c] = "commit" /\ UNCHANGED <<rec, part, off>>
        BY <2>8, <1>t DEF ToDLQ, Step
      <3>2. PICK r : r = rec[c]
        OBVIOUS
      <3>3. Handled(r)'
        BY <1>j, <3>1, <3>2, HandledStable DEF Job
      <3>4. Handled(rec[c])'
        BY <3>1, <3>2, <3>3 DEF Handled, HeldByConsumer
      <3> QED
        BY <3>1, <3>4, <1>0
    <2>9. CASE Commit(c)
      <3>1. cpc'[c] = "fetch"
        BY <2>9, <1>t DEF Commit, NextRecord
      <3> QED
        BY <3>1, <2>2
    <2> QED
      BY <1>2, <2>1, <2>2, <2>3, <2>4, <2>5, <2>6, <2>7, <2>8, <2>9 DEF Consume, ConsumerStep
  <1>3. ASSUME NEW d \in Consumers, Consume(d), d # c
        PROVE  Job(c)'
    BY <1>3, <1>1, OthersKeepTheirJob DEF IndInv
  <1>4. CASE ~ \E d \in Consumers : Consume(d)
    <2>1. UNCHANGED <<cpc, rec, part, off>>
      BY <1>4, CalmSteps DEF Next, vars, Accept, TopUp, Outbox, OutboxTime, MessageTime,
         AgeMessageClaim, Regroup, Rebalance, Intrude, ForeignRecord, consumerVars, jobVars
    <2> QED
      BY <2>1, <1>1
  <1> QED
    BY <1>2, <1>3, <1>4

\* A commit is about a record that is handled, as are all before it.
LEMMA CommittedIsHandledStep ==
  ASSUME Calm, IndInv, OrderInv, [Next]_vars
  PROVE  CommittedIsHandled'
  <1>t. /\ log \in [Partitions -> Seq(Records)] /\ committed \in [Partitions -> Nat]
        /\ part \in [Consumers -> Partitions] /\ off \in [Consumers -> Nat]
    BY DEF IndInv, TypeOK, BrokerTypeOK, ConsumerTypeOK
  <1>1. ASSUME NEW p \in Partitions, NEW i \in 1..committed'[p]
        PROVE  i \in 1..Len(log[p]) /\ Handled(log[p][i])
    <2>1. CASE i \in 1..committed[p]
      <3>1. i \in 1..Len(log[p])
        BY <2>1, <1>t DEF OrderInv, PositionsInLog
      <3> QED
        BY <2>1, <3>1 DEF OrderInv, CommittedIsHandled, Handled
    <2>2. CASE i \notin 1..committed[p]
      <3>1. PICK c \in Consumers : Commit(c) /\ part[c] = p /\ i \in 1..(off[c] + 1)
        <4>1. CASE UNCHANGED committed
          BY <4>1, <2>2
        <4>2. CASE \E c \in Consumers : Commit(c)
          BY <4>2, <2>2, <1>t DEF Commit, CommitOffset
        <4>3. CASE ~ \E c \in Consumers : Commit(c)
          <5>1. UNCHANGED committed
            BY <4>3, CalmSteps DEF Next, vars, Accept, TopUp, Outbox, WorkerStep, ClaimPendingOutbox,
               PublishEvent, MarkPublished, RecordFailure, DeadLetter, Finalize, OutboxTime,
               AgeOutboxClaim, MessageTime, AgeMessageClaim, Regroup, Rebalance, Intrude, ForeignRecord,
               Consume, ConsumerStep, Fetch, RejectPayload, ClaimForSending, ClaimMisses, Lookup,
               SendWithRetry, MarkSent, MarkFailed, ToDLQ, brokerVars
          <5> QED
            BY <5>1, <4>1
        <4> QED
          BY <4>2, <4>3
      <3>2. /\ off[c] < Len(log[p]) /\ rec[c] = log[p][off[c] + 1]
            /\ \A j \in 1..off[c] : Handled(log[p][j])
            /\ Handled(rec[c])
        BY <3>1 DEF Commit, OrderInv, Job
      <3>3. off[c] \in Nat /\ Len(log[p]) \in Nat
        BY <1>t
      <3>4. i \in 1..Len(log[p]) /\ (i \in 1..off[c] \/ i = off[c] + 1)
        BY <3>1, <3>2, <3>3
      <3> QED
        BY <3>2, <3>4
    <2> QED
      BY <2>1, <2>2
  <1>2. ASSUME NEW p \in Partitions, NEW i \in 1..committed'[p]
        PROVE  (Handled(log[p][i]))'
    <2>1. PICK r : r = log[p][i]
      OBVIOUS
    <2>2. Handled(r)'
      BY <1>1, <2>1, HandledStable
    <2>3. r = log'[p][i]
      BY <1>1, <2>1, PlacesStay
    <2> QED
      BY <2>2, <2>3 DEF Handled, HeldByConsumer
  <1> QED
    BY <1>2 DEF CommittedIsHandled, Handled

\* A consumer that reads a record that is not handled goes on with it: it looks
\* the message up, or it claims it.
LEMMA ReaderGoesOn ==
  ASSUME Calm, IndInv, OrderInv, [Next]_vars, NEW c \in Consumers,
         cpc[c] \in {"process", "lookup"}, ~Handled(rec[c])
  PROVE  \/ /\ cpc'[c] \in {"process", "lookup"}
            /\ part'[c] = part[c] /\ off'[c] = off[c]
         \/ Handled(rec[c])' /\ rec'[c] = rec[c]
  <1>t. /\ cpc \in [Consumers -> ConsumerPC] /\ rec \in [Consumers -> Records]
        /\ part \in [Consumers -> Partitions] /\ off \in [Consumers -> Nat]
        /\ msgStatus \in [Msgs -> MessageStatus]
    BY DEF IndInv, TypeOK, RepoTypeOK, ConsumerTypeOK
  <1>r. rec[c] \in Msgs /\ msgStatus[rec[c]] \notin Terminal /\ ~HeldByConsumer(rec[c])
    BY DEF Handled
  <1>1. CASE Consume(c)
    <2>1. ~RejectPayload(c)
      BY <1>r, MsgsAssumption DEF RejectPayload, BadPayload
    <2>2. ~Lookup(c)
      <3>1. ASSUME cpc[c] = "lookup" PROVE FALSE
        <4>1. msgStatus[rec[c]] \notin {"none", "queued"}
          BY <3>1, <1>r, JobHasRow DEF OrderInv, Job
        <4>2. msgStatus[rec[c]] = "sending"
          BY <4>1, <1>r, <1>t DEF MessageStatus, Terminal
        <4> QED
          BY <4>2, <1>r DEF OrderInv, SendingIsHeld
      <3> QED
        BY <3>1 DEF Lookup
    <2>3. CASE ClaimMisses(c)
      BY <2>3, <1>t, CalmSteps DEF ClaimMisses, Step
    <2>4. CASE ClaimForSending(c)
      <3>1. cpc'[c] = "send" /\ rec'[c] = rec[c]
        BY <2>4, <1>t, CalmSteps DEF ClaimForSending
      <3> QED
        BY <3>1 DEF Handled, HeldByConsumer, Sending
    <2> QED
      BY <1>1, <2>1, <2>2, <2>3, <2>4 DEF Consume, ConsumerStep, Fetch, SendWithRetry, MarkSent,
           MarkFailed, ToDLQ, Commit
  <1>2. ASSUME NEW d \in Consumers, Consume(d), d # c
        PROVE  cpc'[c] = cpc[c] /\ part'[c] = part[c] /\ off'[c] = off[c]
    BY <1>2, OthersKeepTheirJob DEF IndInv
  <1>3. CASE ~ \E d \in Consumers : Consume(d)
    BY <1>3, CalmSteps DEF Next, vars, Accept, TopUp, Outbox, OutboxTime, MessageTime,
       AgeMessageClaim, Regroup, Rebalance, Intrude, ForeignRecord, consumerVars, jobVars
  <1> QED
    BY <1>1, <1>2, <1>3

\* A reader passes a record when it is handled, and a new generation starts at the
\* committed offset.
LEMMA ReadersInOrderStep ==
  ASSUME Calm, IndInv, OrderInv, [Next]_vars
  PROVE  ReadersInOrder'
  <1>t. /\ log \in [Partitions -> Seq(Records)] /\ rpos \in [Partitions -> Nat]
        /\ committed \in [Partitions -> Nat] /\ part \in [Consumers -> Partitions]
        /\ off \in [Consumers -> Nat] /\ cpc \in [Consumers -> ConsumerPC]
        /\ assigned \in [Consumers -> SUBSET Partitions]
    BY DEF IndInv, TypeOK, BrokerTypeOK, ConsumerTypeOK
  <1> SUFFICES ASSUME NEW p \in Partitions, NEW i \in 1..rpos'[p]
               PROVE  \/ (Handled(log[p][i]))'
                      \/ i = rpos'[p] /\ \E c \in Consumers : p \in assigned'[c] /\ Reading(c, p, i)'
    BY DEF ReadersInOrder
  \* What was handled still is.
  <1>h. ASSUME i \in 1..Len(log[p]), Handled(log[p][i])
        PROVE  (Handled(log[p][i]))'
    <2>1. PICK r : r = log[p][i]
      OBVIOUS
    <2>2. Handled(r)'
      BY <1>h, <2>1, HandledStable
    <2>3. r = log'[p][i]
      BY <1>h, <2>1, PlacesStay
    <2> QED
      BY <2>2, <2>3 DEF Handled, HeldByConsumer
  <1>p. rpos[p] \in Nat /\ committed[p] \in Nat /\ Len(log[p]) \in Nat
        /\ rpos[p] <= Len(log[p]) /\ committed[p] <= Len(log[p])
    BY <1>t DEF OrderInv, PositionsInLog
  <1>1. ASSUME NEW c \in Consumers, Fetch(c, p)
        PROVE  \/ (Handled(log[p][i]))'
               \/ i = rpos'[p] /\ p \in assigned'[c] /\ Reading(c, p, i)'
    <2>1. /\ rpos'[p] = rpos[p] + 1 /\ cpc'[c] = "process" /\ part'[c] = p /\ off'[c] = rpos[p]
          /\ p \in assigned'[c]
      BY <1>1, <1>t DEF Fetch
    <2>2. CASE i = rpos[p] + 1
      <3>1. i - 1 = rpos[p]
        BY <2>2, <1>p
      <3> QED
        BY <2>1, <2>2, <3>1 DEF Reading
    <2>3. CASE i # rpos[p] + 1
      <3>1. i \in 1..rpos[p]
        BY <2>1, <2>3, <1>p
      <3>2. i \in 1..Len(log[p])
        BY <3>1, <1>p
      <3> QED
        BY <1>1, <3>1, <3>2, <1>h, FetchInOrder
    <2> QED
      BY <2>2, <2>3
  <1>2. CASE rpos'[p] = committed[p]
    <2>1. i \in 1..committed[p] /\ i \in 1..Len(log[p])
      BY <1>2, <1>p
    <2>2. Handled(log[p][i])
      BY <2>1 DEF OrderInv, CommittedIsHandled, Handled
    <2> QED
      BY <2>1, <2>2, <1>h
  <1>3. CASE /\ rpos'[p] = rpos[p]
             /\ \A c \in Consumers : p \in assigned[c] => p \in assigned'[c]
    <2>1. i \in 1..rpos[p] /\ i \in 1..Len(log[p])
      BY <1>3, <1>p
    <2>2. CASE Handled(log[p][i])
      BY <2>1, <2>2, <1>h
    <2>3. CASE ~Handled(log[p][i])
      <3>1. i = rpos[p] /\ \E c \in Consumers : p \in assigned[c] /\ Reading(c, p, i)
        BY <2>1, <2>3 DEF OrderInv, ReadersInOrder
      <3>2. PICK c \in Consumers : p \in assigned[c] /\ Reading(c, p, i)
        BY <3>1
      <3>3. /\ part[c] = p /\ off[c] = i - 1 /\ cpc[c] \in {"process", "lookup"}
            /\ rec[c] = log[p][off[c] + 1] /\ off[c] + 1 = i
        <4>1. part[c] = p /\ off[c] = i - 1 /\ cpc[c] \in {"process", "lookup"}
          BY <3>2 DEF Reading
        <4>2. off[c] + 1 = i
          BY <4>1, <2>1
        <4> QED
          BY <4>1, <4>2 DEF OrderInv, Job
      <3>4. rec[c] = log[p][i]
        BY <3>3
      <3>5. \/ cpc'[c] \in {"process", "lookup"} /\ part'[c] = part[c] /\ off'[c] = off[c]
            \/ Handled(rec[c])' /\ rec'[c] = rec[c]
        BY <2>3, <3>3, <3>4, ReaderGoesOn
      <3>6. CASE cpc'[c] \in {"process", "lookup"} /\ part'[c] = part[c] /\ off'[c] = off[c]
        BY <1>3, <3>1, <3>2, <3>3, <3>6 DEF Reading
      <3>7. CASE Handled(rec[c])' /\ rec'[c] = rec[c]
        <4>1. rec'[c] = log'[p][i]
          BY <2>1, <3>4, <3>7, PlacesStay
        <4> QED
          BY <3>7, <4>1 DEF Handled, HeldByConsumer
      <3> QED
        BY <3>5, <3>6, <3>7
    <2> QED
      BY <2>2, <2>3
  <1>4. ASSUME NEW t \in {"express", "normal"}, Regroup(t)
        PROVE  \/ rpos'[p] = committed[p]
               \/ /\ rpos'[p] = rpos[p]
                  /\ \A c \in Consumers : p \in assigned[c] => p \in assigned'[c]
    <2>1. CASE PartitionTopic[p] = t
      BY <1>4, <2>1 DEF Regroup, Rebalance, Reassign
    <2>2. CASE PartitionTopic[p] # t
      <3>1. rpos'[p] = rpos[p]
        BY <1>4, <2>2 DEF Regroup, Rebalance, Reassign
      <3>2. \A c \in Consumers : p \in assigned[c] => LaneOf[c] # t
        BY <2>2 DEF OrderInv, GroupsApart
      <3>3. \A c \in Consumers : p \in assigned[c] => p \in assigned'[c]
        BY <1>4, <3>2 DEF Regroup, Rebalance, Reassign
      <3> QED
        BY <3>1, <3>3
    <2> QED
      BY <2>1, <2>2
  <1>5. CASE ~ \E t \in {"express", "normal"} : Regroup(t)
    <2>1. UNCHANGED assigned
      BY <1>5, CalmSteps DEF Next, vars, Accept, TopUp, Outbox, OutboxTime, MessageTime,
         AgeMessageClaim, Intrude, ForeignRecord, consumerVars, readerVars, Consume, ConsumerStep, Fetch,
         RejectPayload, ClaimForSending, ClaimMisses, Lookup, SendWithRetry, MarkSent, MarkFailed,
         ToDLQ, Commit
    <2>2. CASE \E c \in Consumers, q \in Partitions : Fetch(c, q)
      <3>1. PICK c \in Consumers, q \in Partitions : Fetch(c, q)
        BY <2>2
      <3>2. q = p \/ rpos'[p] = rpos[p]
        BY <3>1, <1>t DEF Fetch
      <3>3. CASE q = p
        BY <3>1, <3>3, <1>1
      <3>4. CASE rpos'[p] = rpos[p]
        BY <2>1, <3>4, <1>3
      <3> QED
        BY <3>2, <3>3, <3>4
    <2>3. CASE ~ \E c \in Consumers, q \in Partitions : Fetch(c, q)
      <3>1. UNCHANGED rpos
        BY <1>5, <2>3, CalmSteps DEF Next, vars, Accept, TopUp, Outbox, OutboxTime, MessageTime,
           AgeMessageClaim, Intrude, ForeignRecord, consumerVars, readerVars, Consume, ConsumerStep,
           RejectPayload, ClaimForSending, ClaimMisses, Lookup, SendWithRetry, MarkSent, MarkFailed,
           ToDLQ, Commit
      <3> QED
        BY <2>1, <3>1, <1>3
    <2> QED
      BY <2>2, <2>3
  <1> QED
    BY <1>2, <1>3, <1>4, <1>5

\* At the start there are no records.
LEMMA OrderInit == Init => OrderInv
  <1> SUFFICES ASSUME Init PROVE OrderInv
    OBVIOUS
  <1>1. /\ assigned \in Assignments /\ \A c \in Consumers : cpc[c] = "fetch"
        /\ \A p \in Partitions : log[p] = <<>> /\ rpos[p] = 0 /\ committed[p] = 0
        /\ \A m \in Msgs : msgStatus[m] = "none"
    BY DEF Init, RepoInit, BrokerInit, ConsumerInit
  <1>2. GroupsApart
    BY <1>1 DEF Assignments, GroupsApart
  <1>3. LogHasRows /\ PositionsInLog /\ ReadersInOrder /\ CommittedIsHandled
    BY <1>1 DEF LogHasRows, PositionsInLog, ReadersInOrder, CommittedIsHandled
  <1>4. SendingIsHeld /\ \A c \in Consumers : Job(c)
    BY <1>1 DEF SendingIsHeld, Job
  <1> QED
    BY <1>2, <1>3, <1>4 DEF OrderInv

\* When consumers are not interrupted, runWorker commits no record whose message
\* is still open and in nobody's hands: slow consumers, rebalances, failing
\* commits and offsets that move back do not make it lose one.
THEOREM CommittedRecordsHandled ==
  ASSUME FaultKinds \cap {"crash", "db", "cancel"} = {}
  PROVE  Spec => []CommittedIsHandled
  <1>c. Calm
    BY DEF Calm
  <1>1. Init => IndInv /\ OrderInv
    BY InitInd, OrderInit
  <1>2. ASSUME IndInv, OrderInv, [Next]_vars
        PROVE  IndInv' /\ OrderInv'
    BY <1>c, <1>2, NextInd, SendingIsHeldStep, LogHasRowsStep, GroupsApartStep,
       PositionsInLogStep, JobStep, ReadersInOrderStep, CommittedIsHandledStep DEF OrderInv
  <1>3. IndInv /\ OrderInv => CommittedIsHandled
    BY DEF OrderInv
  <1> QED
    BY <1>1, <1>2, <1>3, PTL DEF Spec
===============================================================================
