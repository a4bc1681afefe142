----------------------------- MODULE LedgerProofs -----------------------------
(***************************************************************************)
(* The money of Delivery.tla, for all values of its constants: it is        *)
(* conserved, and the gateway implements Ledger.tla.                        *)
(*                                                                         *)
(* Both rest on one fact (MoneyChanges): of all the statements only         *)
(* persistSend, AddBalance and a finalize that settles an open message      *)
(* touch the money, and the last one meets a message that was charged and   *)
(* not yet refunded, because a refunded message is over (RefundedIsOver).   *)
(***************************************************************************)
EXTENDS InvariantProofs

\* What a step may do to the money.
MoneyChange ==
    \/ UNCHANGED <<balance, deposited>> /\ Account' = Account
    \/ \E u \in Users : \E S \in SUBSET Msgs : PersistSend(u, S)
    \/ \E u \in Users, n \in Deposits : AddBalance(u, n)
    \/ \E m \in Msgs : /\ FinalizeOutboxExhausted(m)
                       /\ msgStatus[m] \in {"queued", "sending"}

\* A step that neither creates a message nor refunds one leaves every account
\* entry as it is.
LEMMA SameAccount ==
  ASSUME refunded' = refunded,
         \A m \in Msgs : msgStatus'[m] = "none" <=> msgStatus[m] = "none"
  PROVE  Account' = Account
  BY DEF Account

\* Every step does one of those things.
LEMMA MoneyChanges ==
  ASSUME IndInv, TableChange
  PROVE  MoneyChange
  <1>t. msgStatus \in [Msgs -> MessageStatus]
    BY DEF IndInv, TypeOK, RepoTypeOK
  <1>1. CASE UNCHANGED tables
    BY <1>1, SameAccount DEF tables, MoneyChange
  <1>2. ASSUME NEW S \in SUBSET Claimable, ClaimRows(S)
        PROVE  MoneyChange
    BY <1>2, SameAccount DEF ClaimRows, MoneyChange
  <1>3. ASSUME NEW m \in Msgs, OutboxClaimAges(m) \/ MessageClaimAges(m)
        PROVE  MoneyChange
    BY <1>3, SameAccount DEF OutboxClaimAges, MessageClaimAges, MoneyChange
  <1>4. ASSUME NEW m \in Msgs, RecordOutboxFailure(m) \/ MarkOutboxPublished(m)
        PROVE  MoneyChange
    BY <1>4, SameAccount DEF RecordOutboxFailure, SetOutbox, StillOpen, MarkOutboxPublished,
             tables, MoneyChange
  <1>5. ASSUME NEW m \in Msgs, FinalizeOutboxExhausted(m)
        PROVE  MoneyChange
    <2>1. CASE msgStatus[m] \in {"queued", "sending"}
      BY <1>5, <2>1 DEF MoneyChange
    <2>2. CASE msgStatus[m] \notin {"queued", "sending"}
      BY <1>5, <2>2, SameAccount DEF FinalizeOutboxExhausted, StillOpen, OpenMessage, MessageFailed,
             MoneyChange
    <2> QED
      BY <2>1, <2>2
  <1>6. ASSUME NEW m \in Msgs, msgStatus[m] # "none",
               ClaimMessage(m) \/ MarkMessageSent(m) \/ MarkMessageFailed(m)
        PROVE  MoneyChange
    <2>1. refunded' = refunded /\ UNCHANGED <<balance, deposited>>
      BY <1>6 DEF ClaimMessage, SetMessage, MarkMessageSent, MarkMessageFailed
    <2>2. \A n \in Msgs : msgStatus'[n] = "none" <=> msgStatus[n] = "none"
      BY <1>6, <1>t DEF ClaimMessage, SetMessage, MarkMessageSent, MarkMessageFailed
    <2> QED
      BY <2>1, <2>2, SameAccount DEF MoneyChange
  <1>7. ASSUME NEW m \in Msgs, CanClaimMessage(m)
        PROVE  msgStatus[m] # "none"
    BY <1>7 DEF CanClaimMessage
  <1>8. ASSUME NEW c \in Consumers, cpc[c] \in {"sent", "failed"}
        PROVE  msgStatus[rec[c]] # "none"
    BY <1>8 DEF IndInv, ConsumersRemember, Sending
  <1>9. CASE \/ \E u \in Users : \E S \in SUBSET Msgs : PersistSend(u, S)
             \/ \E u \in Users, n \in Deposits : AddBalance(u, n)
    BY <1>9 DEF MoneyChange
  <1> QED
    BY <1>1, <1>2, <1>3, <1>4, <1>5, <1>6, <1>7, <1>8, <1>9 DEF TableChange

\* The messages a user has paid for are finitely many.
LEMMA ChargedFinite ==
  \A u : IsFiniteSet(Charged(u)) /\ Cardinality(Charged(u)) \in Nat /\ Charged(u) \subseteq Msgs
  <1>1. \A u : Charged(u) \in SUBSET Msgs
    BY DEF Charged
  <1> QED
    BY <1>1, FS_Subset, FS_CardinalityType, MsgsAssumption

\* persistSend charges exactly the messages it creates.
LEMMA ChargedByPersistSend ==
  ASSUME IndInv, NEW u \in Users, NEW S \in SUBSET Msgs, PersistSend(u, S)
  PROVE  /\ Cardinality(Charged(u)') = Cardinality(Charged(u)) + Cardinality(S)
         /\ \A v \in Users \ {u} : Charged(v)' = Charged(v)
  <1>1. \A m \in S : Owner[m] = u /\ msgStatus[m] = "none" /\ m \in Msgs
    BY DEF PersistSend, Covered, Debited, FreshIds
  <1>2. \A m \in S : m \notin refunded
    BY <1>1 DEF IndInv, RefundedIsOver, Terminal
  <1>3. Charged(u)' = Charged(u) \cup S /\ Charged(u) \cap S = {}
    BY <1>1, <1>2 DEF Charged, PersistSend, Covered, Debited
  <1>4. \A v \in Users \ {u} : Charged(v)' = Charged(v)
    BY <1>1 DEF Charged, PersistSend, Covered, Debited
  <1>5. IsFiniteSet(S) /\ Cardinality(S) \in Nat
    BY FS_Subset, FS_CardinalityType, MsgsAssumption
  <1>6. Cardinality(Charged(u) \cup S)
          = Cardinality(Charged(u)) + Cardinality(S) - Cardinality(Charged(u) \cap S)
    BY <1>5, ChargedFinite, FS_Union
  <1>7. Cardinality(Charged(u) \cap S) = 0
    BY <1>3, FS_EmptySet
  <1>8. Cardinality(Charged(u)') = Cardinality(Charged(u)) + Cardinality(S)
    <2>1. Cardinality(Charged(u)') = Cardinality(Charged(u) \cup S)
      BY <1>3
    <2>2. Cardinality(Charged(u)) \in Nat
      BY ChargedFinite
    <2> QED
      BY <2>1, <2>2, <1>5, <1>6, <1>7
  <1> QED
    BY <1>4, <1>8

\* A finalize that settles an open message takes that one charge away.
LEMMA ChargedByFinalize ==
  ASSUME IndInv, NEW m \in Msgs, FinalizeOutboxExhausted(m),
         msgStatus[m] \in {"queued", "sending"}
  PROVE  /\ Cardinality(Charged(Owner[m])') = Cardinality(Charged(Owner[m])) - 1
         /\ \A v \in Users \ {Owner[m]} : Charged(v)' = Charged(v)
  <1>t. msgStatus \in [Msgs -> MessageStatus]
    BY DEF IndInv, TypeOK, RepoTypeOK
  <1>1. refunded' = refunded \cup {m} /\ msgStatus' = [msgStatus EXCEPT ![m] = "failed"]
    BY DEF FinalizeOutboxExhausted, StillOpen, OpenMessage, MessageFailed
  <1>2. m \notin refunded
    BY DEF IndInv, RefundedIsOver, Terminal
  <1>3. m \in Charged(Owner[m]) /\ Charged(Owner[m])' = Charged(Owner[m]) \ {m}
    BY <1>1, <1>2, <1>t DEF Charged
  <1>4. \A v \in Users \ {Owner[m]} : Charged(v)' = Charged(v)
    BY <1>1, <1>t DEF Charged
  <1> QED
    BY <1>3, <1>4, ChargedFinite, FS_RemoveElement

\* Every change of the money keeps the books balanced.
LEMMA BalancedStep ==
  ASSUME IndInv, LedgerBalanced, MoneyChange
  PROVE  LedgerBalanced'
  <1>t. /\ balance \in [Users -> Nat] /\ deposited \in [Users -> Nat]
        /\ InitialBalance \in [Users -> Nat]
    BY BalanceAssumption DEF IndInv, TypeOK, RepoTypeOK
  <1>c. \A u : Cost(Charged(u)) = Cardinality(Charged(u)) /\ Cardinality(Charged(u)) \in Nat
    BY ChargedFinite, CostType
  <1>d. \A u : Cost(Charged(u)') = Cardinality(Charged(u)')
    <2>1. \A u : Charged(u)' \in SUBSET Msgs
      BY DEF Charged
    <2> QED
      BY <2>1, CostType
  <1>b. \A u \in Users :
           balance[u] + Cardinality(Charged(u)) = InitialBalance[u] + deposited[u]
    BY <1>c DEF LedgerBalanced
  <1>s. SUFFICES ASSUME NEW v \in Users
                 PROVE  balance'[v] + Cardinality(Charged(v)')
                          = InitialBalance[v] + deposited'[v]
    BY <1>d DEF LedgerBalanced, Cost
  <1>1. CASE UNCHANGED <<balance, deposited>> /\ Account' = Account
    <2>1. \A m \in Msgs : Account[m] = "charged" <=> msgStatus[m] # "none" /\ m \notin refunded
      BY DEF Account
    <2>2. \A m \in Msgs :
             Account'[m] = "charged" <=> msgStatus'[m] # "none" /\ m \notin refunded'
      BY DEF Account
    <2>3. Charged(v)' = Charged(v)
      BY <1>1, <2>1, <2>2 DEF Charged
    <2> QED
      BY <1>1, <2>3, <1>b
  <1>2. ASSUME NEW u \in Users, NEW S \in SUBSET Msgs, PersistSend(u, S)
        PROVE  balance'[v] + Cardinality(Charged(v)') = InitialBalance[v] + deposited'[v]
    <2>1. /\ balance' = [balance EXCEPT ![u] = @ - Cardinality(S)]
          /\ deposited' = deposited
          /\ Cardinality(S) \in Nat
      BY <1>2, CostType DEF PersistSend, Covered, Debited
    <2>2. /\ Cardinality(Charged(u)') = Cardinality(Charged(u)) + Cardinality(S)
          /\ v # u => Charged(v)' = Charged(v)
      BY <1>2, ChargedByPersistSend
    <2>3. CASE v = u
      BY <2>1, <2>2, <2>3, <1>b, <1>t, <1>c
    <2>4. CASE v # u
      BY <2>1, <2>2, <2>4, <1>b, <1>t
    <2> QED
      BY <2>3, <2>4
  <1>3. ASSUME NEW u \in Users, NEW n \in Deposits, AddBalance(u, n)
        PROVE  balance'[v] + Cardinality(Charged(v)') = InitialBalance[v] + deposited'[v]
    <2>1. /\ balance' = [balance EXCEPT ![u] = @ + n]
          /\ deposited' = [deposited EXCEPT ![u] = @ + n]
          /\ n \in Nat
      BY <1>3, DeliveryAssumption DEF AddBalance
    <2>2. Charged(v)' = Charged(v)
      BY <1>3 DEF AddBalance, Charged
    <2> QED
      BY <2>1, <2>2, <1>b, <1>t, <1>c
  <1>4. ASSUME NEW m \in Msgs, FinalizeOutboxExhausted(m), msgStatus[m] \in {"queued", "sending"}
        PROVE  balance'[v] + Cardinality(Charged(v)') = InitialBalance[v] + deposited'[v]
    <2>1. /\ balance' = [balance EXCEPT ![Owner[m]] = @ + 1]
          /\ deposited' = deposited
          /\ Owner[m] \in Users
      BY <1>4, OwnerAssumption DEF FinalizeOutboxExhausted, StillOpen, OpenMessage, MessageFailed,
             smsCost
    <2>2. /\ Cardinality(Charged(Owner[m])') = Cardinality(Charged(Owner[m])) - 1
          /\ v # Owner[m] => Charged(v)' = Charged(v)
      BY <1>4, ChargedByFinalize
    <2>3. CASE v = Owner[m]
      BY <2>1, <2>2, <2>3, <1>b, <1>t, <1>c
    <2>4. CASE v # Owner[m]
      BY <2>1, <2>2, <2>4, <1>b, <1>t
    <2> QED
      BY <2>3, <2>4
  <1> QED
    BY <1>1, <1>2, <1>3, <1>4 DEF MoneyChange

\* No money is made or lost: the balance and the charges of persistSend that
\* FinalizeOutboxExhausted did not give back make up what was paid in.
THEOREM MoneyConserved == Spec => []LedgerBalanced
  <1>1. Init => LedgerBalanced
    <2>1. ASSUME Init, NEW u \in Users
          PROVE  balance[u] + Cost(Charged(u)) = InitialBalance[u] + deposited[u]
      <3>1. Charged(u) = {}
        BY <2>1 DEF Init, RepoInit, Charged
      <3>2. Cost(Charged(u)) = 0
        BY <3>1, FS_EmptySet DEF Cost, smsCost
      <3>3. balance[u] = InitialBalance[u] /\ deposited[u] = 0
        BY <2>1 DEF Init, RepoInit
      <3> QED
        BY <3>2, <3>3, BalanceAssumption
    <2> QED
      BY <2>1 DEF LedgerBalanced
  <1>2. IndInv /\ LedgerBalanced /\ [Next]_vars => LedgerBalanced'
    BY TableChanges, MoneyChanges, BalancedStep DEF IndInv
  <1> QED
    BY Invariance, <1>1, <1>2, PTL DEF Spec

-------------------------------------------------------------------------------
(***************************************************************************)
(* Refinement                                                              *)
(***************************************************************************)

\* Every change of the money is a step of the abstract ledger.
LEMMA LedgerStep ==
  ASSUME IndInv, MoneyChange
  PROVE  [L!LNext]_(L!ledgerVars)
  <1>t. balance \in [Users -> Nat] /\ msgStatus \in [Msgs -> MessageStatus]
    BY DEF IndInv, TypeOK, RepoTypeOK
  <1>1. CASE UNCHANGED <<balance, deposited>> /\ Account' = Account
    BY <1>1 DEF L!ledgerVars
  <1>2. ASSUME NEW u \in Users, NEW S \in SUBSET Msgs, PersistSend(u, S)
        PROVE  L!Charge(u, S)
    <2>1. \A m \in S : Owner[m] = u /\ msgStatus[m] = "none" /\ m \in Msgs
      BY <1>2 DEF PersistSend, Covered, Debited, FreshIds
    <2>2. \A m \in S : m \notin refunded
      BY <2>1 DEF IndInv, RefundedIsOver, Terminal
    <2>3. \A m \in S : Account[m] = "none"
      BY <2>1 DEF Account
    <2>4. Account' = [m \in Msgs |-> IF m \in S THEN "charged" ELSE Account[m]]
      BY <1>2, <2>1, <2>2 DEF Account, PersistSend, Covered, Debited
    <2>5. /\ smsCost * Cardinality(S) <= balance[u]
          /\ balance' = [balance EXCEPT ![u] = @ - smsCost * Cardinality(S)]
      BY <1>2 DEF PersistSend, Covered, Debited, Cost
    <2>6. L!Cardinality(S) = Cardinality(S)
      BY DEF L!Cardinality, Cardinality
    <2> QED
      BY <2>1, <2>3, <2>4, <2>5, <2>6 DEF L!Charge
  <1>3. ASSUME NEW u \in Users, NEW n \in Deposits, AddBalance(u, n)
        PROVE  L!Deposit(u)
    <2>1. balance' = [balance EXCEPT ![u] = @ + n] /\ n \in Nat /\ n > 0
      BY <1>3, DeliveryAssumption DEF AddBalance
    <2>2. Account' = Account
      BY <1>3, SameAccount DEF AddBalance
    <2>3. balance'[u] > balance[u] /\ balance' = [balance EXCEPT ![u] = balance'[u]]
      BY <2>1, <1>t
    <2> QED
      BY <2>2, <2>3 DEF L!Deposit
  <1>4. ASSUME NEW m \in Msgs, FinalizeOutboxExhausted(m), msgStatus[m] \in {"queued", "sending"}
        PROVE  L!Refund(m)
    <2>1. m \notin refunded
      BY <1>4 DEF IndInv, RefundedIsOver, Terminal
    <2>2. /\ refunded' = refunded \cup {m}
          /\ msgStatus' = [msgStatus EXCEPT ![m] = "failed"]
          /\ balance' = [balance EXCEPT ![Owner[m]] = @ + smsCost]
      BY <1>4 DEF FinalizeOutboxExhausted, StillOpen, OpenMessage, MessageFailed
    <2>3. Account[m] = "charged"
      BY <1>4, <2>1 DEF Account
    <2>4. Account' = [Account EXCEPT ![m] = "refunded"]
      BY <2>2, <1>t DEF Account
    <2> QED
      BY <2>2, <2>3, <2>4 DEF L!Refund
  <1> QED
    BY <1>1, <1>2, <1>3, <1>4 DEF MoneyChange, L!LNext

\* Every behaviour of the gateway is, for the money, a behaviour of the
\* abstract ledger: charged once, refunded at most once, never overdrawn.
THEOREM GatewayImplementsLedger == Spec => ImplementsLedger
  <1>1. Init => L!LInit
    BY DEF Init, RepoInit, L!LInit, Account
  <1>2. IndInv /\ [Next]_vars => [L!LNext]_(L!ledgerVars)
    BY TableChanges, MoneyChanges, LedgerStep DEF IndInv
  <1> QED
    BY Invariance, <1>1, <1>2, PTL DEF Spec, ImplementsLedger, L!LSpec
===============================================================================
