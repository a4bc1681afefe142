------------------------------ MODULE SendProofs ------------------------------
(***************************************************************************)
(* UseCase.Send for any number of calls, users, keys and payloads, any      *)
(* balances and any pattern of faults.                                     *)
(*                                                                         *)
(* The row lock is what everything rests on.  Two transactions of one user  *)
(* exclude each other, so that the balance one has read (TxHoldsLock) and   *)
(* the absence of a row it has checked (KeyStillFree) stay true until it    *)
(* commits; a commit therefore adds the only row of its key and debits what *)
(* was planned.  Rows never disappear, so that what Redis, a call about to  *)
(* answer and a call that polls know of the table stays true as well.       *)
(***************************************************************************)
EXTENDS Send, TLAPS

InTx == {"debit", "insert", "commit"}

\* A transaction past GetBalanceForUpdate holds the row and its view of it.
TxHoldsLock ==
    \A c \in Calls :
        pc[c] \in InTx =>
            User[c] \in Users /\ lock[User[c]] = c /\ balance[User[c]] = seen[c]

\* Only those transactions hold a row: a call that returned left no lock.
LockIsTx ==
    \A u \in Users :
        lock[u] # NoCall => pc[lock[u]] \in InTx /\ User[lock[u]] = u

\* What is written is what planSend made of the balance.
PlanIsKept ==
    \A c \in Calls : pc[c] \in {"insert", "commit"} => planned[c] = Plan(c)

\* The INSERT succeeded, and no other row can appear before the Commit.
KeyStillFree == \A c \in Calls : pc[c] = "commit" => ~Taken(c)

\* What a call is about to answer is the committed row of its request.
ResultIsStored ==
    \A c \in Calls : \A r \in result[c] :
        r \in At(requests, c) /\ r.hash = Hash[c]

\* The poll after a unique violation never comes back empty.
NeverPollsAgain == \A c \in Calls : polls[c] = 0

\* A call that runs has not answered.
UnansweredWhileRunning == \A c \in Calls : pc[c] # "done" => answer[c] = NoAnswer

\* The inductive invariant.
IndInv ==
    /\ TypeOK /\ TxHoldsLock /\ LockIsTx /\ PlanIsKept /\ KeyStillFree
    /\ KeyExecutedOnce /\ ResultIsStored /\ CacheCoherent /\ FirstPollSucceeds
    /\ NeverPollsAgain /\ UnansweredWhileRunning

-------------------------------------------------------------------------------
\* A plan is a number of messages that the balance read pays for.
LEMMA PlanAffordable ==
  ASSUME TypeOK, NEW c \in Calls
  PROVE  Plan(c) \in Nat /\ smsCost * Plan(c) <= seen[c]
  <1>1. seen[c] \in Nat /\ Valid[Hash[c]] \in Nat
    BY SendAssumption DEF TypeOK
  <1>2. seen[c] \div smsCost = seen[c]
    BY <1>1 DEF smsCost
  <1> QED
    BY <1>1, <1>2 DEF Plan, smsCost

\* A row of the table makes a well-formed answer.
LEMMA AnswerTypes ==
  ASSUME NEW r \in Rows
  PROVE  Ok(r) \in Answers
  BY DEF Rows, Ok, Answers

\* An error makes one, too.
LEMMA FailureTypes ==
  ASSUME NEW code \in {"conflict", "notfound", "error"}
  PROVE  Failed(code) \in Answers
  BY DEF Failed, Answers

\* A call that returns, its transaction rolled back if it had one, leaves the
\* invariant behind, provided Redis gets nothing the table does not have.
LEMMA ReturnKeeps ==
  ASSUME IndInv, NEW c \in Calls, NEW a \in Answers, Return(c, a),
         UNCHANGED <<balance, requests, credited>>, cache' \subseteq requests
  PROVE  IndInv'
  <1>0. c # NoCall
    BY SendAssumption DEF NoCall
  <1>1. TypeOK'
    BY SendAssumption DEF IndInv, TypeOK, Return, Rollback, Release, Unlocked, PCs
  <1>2. TxHoldsLock'
    BY DEF IndInv, TypeOK, TxHoldsLock, InTx, Return, Rollback, Release,
           Unlocked
  <1>3. LockIsTx'
    BY <1>0 DEF IndInv, TypeOK, LockIsTx, InTx, Return, Rollback, Release,
           Unlocked
  <1>4. PlanIsKept'
    BY DEF IndInv, TypeOK, PlanIsKept, Plan, Return
  <1>5. KeyStillFree' /\ KeyExecutedOnce' /\ CacheCoherent' /\ FirstPollSucceeds'
    BY DEF IndInv, TypeOK, KeyStillFree, Taken, At, KeyExecutedOnce, CacheCoherent,
           FirstPollSucceeds, Return
  <1>6. ResultIsStored'
    BY DEF IndInv, TypeOK, ResultIsStored, At, Return
  <1>7. NeverPollsAgain' /\ UnansweredWhileRunning'
    BY DEF IndInv, TypeOK, NeverPollsAgain, UnansweredWhileRunning, Return
  <1> QED
    BY <1>1, <1>2, <1>3, <1>4, <1>5, <1>6, <1>7 DEF IndInv

\* Before or after its transaction a call may go on to another step outside it,
\* with the row it is about to answer with, if it has one.
LEMMA AdvanceKeeps ==
  ASSUME IndInv, NEW c \in Calls, pc[c] \notin InTx, pc[c] # "done",
         NEW l \in {"find", "lock", "save"}, Goto(c, l),
         NEW R \in SUBSET {r \in At(requests, c) : r.hash = Hash[c]},
         result' = [result EXCEPT ![c] = R],
         UNCHANGED <<dbVars, cache, credited, seen, planned, polls, answer>>
  PROVE  IndInv'
  <1>1. TypeOK'
    BY DEF IndInv, TypeOK, Goto, PCs, dbVars, At
  <1>2. TxHoldsLock' /\ LockIsTx'
    BY DEF IndInv, TypeOK, TxHoldsLock, LockIsTx, InTx, Goto, dbVars
  <1>3. PlanIsKept'
    BY DEF IndInv, TypeOK, PlanIsKept, Plan, Goto, dbVars
  <1>4. KeyStillFree' /\ KeyExecutedOnce' /\ CacheCoherent' /\ FirstPollSucceeds'
    BY DEF IndInv, TypeOK, KeyStillFree, Taken, At, KeyExecutedOnce, CacheCoherent,
           FirstPollSucceeds, Goto, dbVars
  <1>5. ResultIsStored'
    BY DEF IndInv, TypeOK, ResultIsStored, At, dbVars
  <1>6. NeverPollsAgain' /\ UnansweredWhileRunning'
    BY DEF IndInv, TypeOK, NeverPollsAgain, UnansweredWhileRunning, Goto
  <1> QED
    BY <1>1, <1>2, <1>3, <1>4, <1>5, <1>6 DEF IndInv

\* A call inside its transaction takes the next statement.
LEMMA StatementKeeps ==
  ASSUME IndInv, NEW c \in Calls, NEW l \in InTx, Goto(c, l),
         \/ /\ pc[c] = "lock" /\ l = "debit" /\ User[c] \in Users /\ TakeRow(c)
            /\ seen' = [seen EXCEPT ![c] = balance[User[c]]] /\ UNCHANGED planned
         \/ /\ pc[c] = "debit" /\ l = "insert" /\ UNCHANGED <<lock, seen>>
            /\ planned' = [planned EXCEPT ![c] = Plan(c)]
         \/ /\ pc[c] = "insert" /\ l = "commit" /\ ~Taken(c)
            /\ UNCHANGED <<lock, seen, planned>>,
         UNCHANGED <<balance, requests, cache, credited, result, polls, answer>>
  PROVE  IndInv'
  <1>0. \A d \in Calls : d # NoCall
    BY SendAssumption DEF NoCall
  <1>1. TypeOK'
    <2>1. Plan(c) \in Nat
      BY PlanAffordable DEF IndInv
    <2> QED
      BY <2>1 DEF IndInv, TypeOK, Goto, PCs, InTx, TakeRow
  <1>2. TxHoldsLock'
    BY <1>0 DEF IndInv, TypeOK, TxHoldsLock, InTx, Goto, TakeRow, NoCall
  <1>3. LockIsTx'
    BY <1>0 DEF IndInv, TypeOK, LockIsTx, InTx, Goto, TakeRow, NoCall
  <1>4. PlanIsKept'
    BY DEF IndInv, TypeOK, PlanIsKept, Plan, Goto
  <1>5. KeyStillFree' /\ KeyExecutedOnce' /\ CacheCoherent' /\ FirstPollSucceeds'
    BY DEF IndInv, TypeOK, KeyStillFree, Taken, At, KeyExecutedOnce, CacheCoherent,
           FirstPollSucceeds, Goto, InTx
  <1>6. ResultIsStored'
    BY DEF IndInv, ResultIsStored, At
  <1>7. NeverPollsAgain' /\ UnansweredWhileRunning'
    BY DEF IndInv, TypeOK, NeverPollsAgain, UnansweredWhileRunning, Goto
  <1> QED
    BY <1>1, <1>2, <1>3, <1>4, <1>5, <1>6, <1>7 DEF IndInv

\* The transaction is given up for the row that was there first.
LEMMA PollBegins ==
  ASSUME IndInv, NEW c \in Calls, Taken(c), AbandonTx(c), Goto(c, "poll"),
         pc[c] # "done",
         UNCHANGED <<balance, requests, cache, credited, result, polls, answer>>
  PROVE  IndInv'
  <1>0. c # NoCall
    BY SendAssumption DEF NoCall
  <1>1. TypeOK'
    BY DEF IndInv, TypeOK, Goto, PCs, AbandonTx, Release, Unlocked
  <1>2. TxHoldsLock' /\ LockIsTx'
    BY <1>0 DEF IndInv, TypeOK, TxHoldsLock, LockIsTx, InTx, Goto, AbandonTx, Release,
                Unlocked
  <1>3. PlanIsKept'
    BY DEF IndInv, TypeOK, PlanIsKept, Plan, Goto, AbandonTx
  <1>4. KeyStillFree' /\ KeyExecutedOnce' /\ CacheCoherent' /\ FirstPollSucceeds'
    BY DEF IndInv, TypeOK, KeyStillFree, Taken, At, KeyExecutedOnce, CacheCoherent,
           FirstPollSucceeds, Goto
  <1>5. ResultIsStored'
    BY DEF IndInv, ResultIsStored, At
  <1>6. NeverPollsAgain' /\ UnansweredWhileRunning'
    BY DEF IndInv, TypeOK, NeverPollsAgain, UnansweredWhileRunning, Goto
  <1> QED
    BY <1>1, <1>2, <1>3, <1>4, <1>5, <1>6 DEF IndInv

\* Commit, whether the caller hears of it or not.
LEMMA CommitKeeps ==
  ASSUME IndInv, NEW c \in Calls, pc[c] = "commit", Apply(c),
         Succeed(c) \/ CommitError(c), UNCHANGED <<cache, credited>>
  PROVE  IndInv'
  <1>0. c # NoCall
    BY SendAssumption DEF NoCall
  <1>1. /\ User[c] \in Users /\ lock[User[c]] = c
        /\ planned[c] \in Nat /\ TotalCost(c) = planned[c]
        /\ planned[c] <= balance[User[c]] /\ At(requests, c) = {}
    BY PlanAffordable DEF IndInv, TypeOK, TxHoldsLock, InTx, PlanIsKept, KeyStillFree,
                          Taken, TotalCost, smsCost
  <1>2. /\ NewRow(c) \in Rows /\ NewRow(c).user = User[c] /\ NewRow(c).key = Key[c]
        /\ NewRow(c).hash = Hash[c]
    BY <1>1 DEF NewRow, Rows, Hashes
  <1>3. requests' = requests \cup {NewRow(c)}
    BY DEF Apply
  <1>l. lock' = Unlocked(c)
    BY DEF Succeed, CommitError, Return, Rollback, Release
  <1>a. \A d \in Calls : d # c => pc'[d] = pc[d] /\ result'[d] = result[d]
                                  /\ seen'[d] = seen[d] /\ planned'[d] = planned[d]
    BY DEF IndInv, TypeOK, Succeed, Goto, CommitError, Return
  <1>b. pc'[c] \in {"save", "done"} /\ result'[c] \subseteq {NewRow(c)}
    BY DEF IndInv, TypeOK, Succeed, Goto, CommitError, Return
  <1>c. \A d \in Calls : d # c /\ pc[d] \in InTx => User[d] # User[c]
    BY <1>1 DEF IndInv, TxHoldsLock
  <1>4. TypeOK'
    <2>1. balance' \in [Users -> Nat]
      BY <1>1 DEF IndInv, TypeOK, Apply
    <2>2. requests' \subseteq Rows /\ cache' \subseteq Rows
      BY <1>2, <1>3 DEF IndInv, TypeOK
    <2>3. lock' \in [Users -> Calls \cup {NoCall}]
      BY <1>l DEF IndInv, TypeOK, Unlocked
    <2>4. CASE Succeed(c)
      BY <2>1, <2>2, <2>3, <2>4, <1>2 DEF IndInv, TypeOK, Succeed, Goto, PCs
    <2>5. CASE CommitError(c)
      BY <2>1, <2>2, <2>3, <2>5, FailureTypes, SendAssumption
      DEF IndInv, TypeOK, CommitError, Return, PCs
    <2> QED
      BY <2>4, <2>5
  <1>5. TxHoldsLock'
    BY <1>a, <1>b, <1>c, <1>l DEF IndInv, TypeOK, TxHoldsLock, InTx, Unlocked, Apply
  <1>6. LockIsTx'
    BY <1>0, <1>1, <1>a, <1>l DEF IndInv, TypeOK, LockIsTx, InTx, Unlocked
  <1>7. PlanIsKept'
    BY <1>a, <1>b DEF IndInv, PlanIsKept, Plan
  <1>8. KeyStillFree'
    BY <1>2, <1>3, <1>a, <1>b, <1>c DEF IndInv, KeyStillFree, Taken, At, InTx
  <1>9. KeyExecutedOnce'
    BY <1>1, <1>2, <1>3 DEF IndInv, KeyExecutedOnce, At
  <1>10. ResultIsStored'
    BY <1>2, <1>3, <1>a, <1>b DEF IndInv, ResultIsStored, At
  <1>11. CacheCoherent' /\ FirstPollSucceeds'
    BY <1>3, <1>a, <1>b DEF IndInv, CacheCoherent, FirstPollSucceeds, At
  <1>12. NeverPollsAgain' /\ UnansweredWhileRunning'
    BY DEF IndInv, TypeOK, NeverPollsAgain, UnansweredWhileRunning, Succeed, Goto,
           CommitError, Return
  <1> QED
    BY <1>4, <1>5, <1>6, <1>7, <1>8, <1>9, <1>10, <1>11, <1>12 DEF IndInv

\* A row found in the database: a conflict, or the answer.
LEMMA LoadRowKeeps ==
  ASSUME IndInv, NEW c \in Calls, pc[c] \in {"find", "poll"}, LoadRow(c),
         UNCHANGED <<balance, requests, cache, credited>>
  PROVE  IndInv'
  <1>1. PICK r \in At(requests, c) :
            \/ r.hash # Hash[c] /\ Return(c, Failed("conflict"))
            \/ /\ r.hash = Hash[c]
               /\ result' = [result EXCEPT ![c] = {r}]
               /\ Goto(c, "save")
               /\ UNCHANGED <<lock, seen, planned, polls, answer>>
    BY DEF LoadRow
  <1>2. CASE r.hash # Hash[c] /\ Return(c, Failed("conflict"))
    BY <1>2, FailureTypes, ReturnKeeps DEF IndInv, CacheCoherent
  <1>3. CASE /\ r.hash = Hash[c]
             /\ result' = [result EXCEPT ![c] = {r}]
             /\ Goto(c, "save")
             /\ UNCHANGED <<lock, seen, planned, polls, answer>>
    <2>1. {r} \in SUBSET {s \in At(requests, c) : s.hash = Hash[c]}
      BY <1>3
    <2>2. pc[c] \notin InTx /\ pc[c] # "done"
      BY DEF InTx
    <2> QED
      BY <1>3, <2>1, <2>2, AdvanceKeeps DEF dbVars
  <1> QED
    BY <1>1, <1>2, <1>3

-------------------------------------------------------------------------------
\* One step of a call preserves the invariant.
LEMMA CallStepKeeps ==
  ASSUME IndInv, NEW c \in Calls, CallStep(c)
  PROVE  IndInv'
  <1>r. cache \subseteq requests /\ cache \subseteq Rows /\ requests \subseteq Rows
    BY DEF IndInv, TypeOK, CacheCoherent
  <1>s. result = [result EXCEPT ![c] = result[c]]
        /\ result[c] \in SUBSET {r \in At(requests, c) : r.hash = Hash[c]}
    BY DEF IndInv, TypeOK, ResultIsStored
  <1>1. CASE LookInCache(c)
    <2>1. pc[c] \notin InTx /\ pc[c] # "done"
      BY <1>1 DEF LookInCache, InTx
    <2>2. CASE \E r \in CacheHit(c) : Return(c, Ok(r))
      <3>1. PICK r \in Rows : Return(c, Ok(r))
        BY <2>2, <1>r DEF CacheHit, At
      <3> QED
        BY <3>1, <1>1, <1>r, AnswerTypes, ReturnKeeps DEF LookInCache
    <2>3. CASE Proceed(c, "find")
      <3>1. result' = [result EXCEPT ![c] = result[c]]
        BY <2>3, <1>s DEF Proceed
      <3> QED
        BY <3>1, <2>3, <1>s, <1>1, <2>1, AdvanceKeeps DEF LookInCache, Proceed, dbVars
    <2> QED
      BY <1>1, <2>2, <2>3 DEF LookInCache
  <1>2. CASE FindRequest(c)
    <2>1. pc[c] \notin InTx /\ pc[c] # "done"
      BY <1>2 DEF FindRequest, InTx
    <2>2. CASE LoadRow(c)
      BY <2>2, <1>2, LoadRowKeeps DEF FindRequest
    <2>3. CASE Proceed(c, "lock")
      <3>1. result' = [result EXCEPT ![c] = result[c]]
        BY <2>3, <1>s DEF Proceed
      <3> QED
        BY <3>1, <2>3, <1>s, <1>2, <2>1, AdvanceKeeps DEF FindRequest, Proceed, dbVars
    <2>4. CASE Return(c, Failed("error"))
      BY <2>4, <1>2, <1>r, FailureTypes, ReturnKeeps DEF FindRequest
    <2> QED
      BY <1>2, <2>2, <2>3, <2>4 DEF FindRequest
  <1>3. CASE GetBalanceForUpdate(c)
    <2>1. pc[c] = "lock"
      BY <1>3 DEF GetBalanceForUpdate
    <2>2. CASE User[c] \in Users /\ TakeRow(c) /\ Goto(c, "debit")
               /\ seen' = [seen EXCEPT ![c] = balance[User[c]]]
               /\ UNCHANGED <<planned, result, polls, answer>>
      BY <2>2, <2>1, <1>3, StatementKeeps DEF GetBalanceForUpdate, InTx
    <2>3. CASE Return(c, Failed("notfound"))
      BY <2>3, <1>3, <1>r, FailureTypes, ReturnKeeps DEF GetBalanceForUpdate
    <2>4. CASE Return(c, Failed("error"))
      BY <2>4, <1>3, <1>r, FailureTypes, ReturnKeeps DEF GetBalanceForUpdate
    <2> QED
      BY <1>3, <2>2, <2>3, <2>4 DEF GetBalanceForUpdate
  <1>4. CASE DebitBalance(c)
    <2>1. /\ pc[c] = "debit" /\ smsCost * Plan(c) <= balance[User[c]]
          /\ User[c] \in Users /\ lock[User[c]] = c
      BY <1>4, PlanAffordable DEF DebitBalance, IndInv, TxHoldsLock, InTx
    <2>2. CASE /\ lock' = [lock EXCEPT ![User[c]] = c]
               /\ planned' = [planned EXCEPT ![c] = Plan(c)]
               /\ Goto(c, "insert")
               /\ UNCHANGED <<seen, result, polls, answer>>
      <3>1. UNCHANGED lock
        BY <2>1, <2>2 DEF IndInv, TypeOK
      <3> QED
        BY <3>1, <2>1, <2>2, <1>4, StatementKeeps DEF DebitBalance, InTx
    <2>3. CASE Return(c, Failed("error"))
      BY <2>3, <1>4, <1>r, FailureTypes, ReturnKeeps DEF DebitBalance
    <2>4. ~(smsCost * Plan(c) > balance[User[c]])
      BY <2>1, PlanAffordable DEF IndInv, TypeOK, smsCost
    <2> QED
      BY <1>4, <2>2, <2>3, <2>4 DEF DebitBalance
  <1>5. CASE CreateRequest(c)
    <2>1. CASE ~Taken(c) /\ Proceed(c, "commit")
      BY <2>1, <1>5, StatementKeeps DEF CreateRequest, Proceed, InTx
    <2>2. CASE UniqueViolation(c) /\ AbandonTx(c) /\ Goto(c, "poll")
               /\ UNCHANGED <<result, polls, answer>>
      BY <2>2, <1>5, PollBegins DEF CreateRequest, UniqueViolation
    <2>3. CASE Return(c, Failed("error"))
      BY <2>3, <1>5, <1>r, FailureTypes, ReturnKeeps DEF CreateRequest
    <2> QED
      BY <1>5, <2>1, <2>2, <2>3 DEF CreateRequest
  <1>6. CASE CommitSend(c)
    <2>1. CASE Apply(c)
      BY <2>1, <1>6, CommitKeeps DEF CommitSend
    <2>2. CASE UNCHANGED <<requests, balance>> /\ CommitError(c)
      BY <2>2, <1>6, <1>r, FailureTypes, ReturnKeeps DEF CommitSend, CommitError
    <2> QED
      BY <1>6, <2>1, <2>2 DEF CommitSend
  <1>7. CASE SaveIdempotentResult(c)
    <2>1. UNCHANGED <<balance, requests, credited>>
      BY <1>7 DEF SaveIdempotentResult
    <2>2. cache' \subseteq requests
      BY <1>7, <1>r, <1>s DEF SaveIdempotentResult, At
    <2>3. PICK r \in Rows : Return(c, Ok(r))
      BY <1>7 DEF SaveIdempotentResult, IndInv, TypeOK
    <2> QED
      BY <2>1, <2>2, <2>3, AnswerTypes, ReturnKeeps
  <1>8. CASE WaitIdempotent(c)
    <2>1. /\ pc[c] = "poll" /\ At(requests, c) # {} /\ polls[c] # PollAttempts
      BY <1>8, SendAssumption
      DEF WaitIdempotent, IndInv, FirstPollSucceeds, NeverPollsAgain
    <2>2. CASE LoadRow(c)
      BY <2>1, <2>2, <1>8, LoadRowKeeps DEF WaitIdempotent
    <2>3. CASE Return(c, Failed("error"))
      BY <2>3, <1>8, <1>r, FailureTypes, ReturnKeeps DEF WaitIdempotent
    <2> QED
      BY <1>8, <2>1, <2>2, <2>3 DEF WaitIdempotent
  <1> QED
    BY <1>1, <1>2, <1>3, <1>4, <1>5, <1>6, <1>7, <1>8 DEF CallStep

\* Money from outside waits for the row lock, so no transaction sees it arrive.
LEMMA CreditKeeps ==
  ASSUME IndInv, NEW u \in Users, NEW n \in Credits, Credit(u, n)
  PROVE  IndInv'
  <1>0. n \in Nat /\ \A d \in Calls : d # NoCall
    BY SendAssumption DEF NoCall
  <1>1. TypeOK'
    BY <1>0 DEF IndInv, TypeOK, Credit, callVars
  <1>2. TxHoldsLock'
    BY <1>0 DEF IndInv, TypeOK, TxHoldsLock, Credit, callVars
  <1>3. LockIsTx' /\ PlanIsKept' /\ KeyStillFree' /\ KeyExecutedOnce' /\ CacheCoherent'
    BY DEF IndInv, LockIsTx, PlanIsKept, Plan, KeyStillFree, Taken, At, KeyExecutedOnce,
           CacheCoherent, Credit, callVars
  <1>4. /\ ResultIsStored' /\ FirstPollSucceeds' /\ NeverPollsAgain'
        /\ UnansweredWhileRunning'
    BY DEF IndInv, ResultIsStored, At, FirstPollSucceeds, NeverPollsAgain,
           UnansweredWhileRunning, Credit, callVars
  <1> QED
    BY <1>1, <1>2, <1>3, <1>4 DEF IndInv

\* Losing a Redis entry, or nothing at all, happens.
LEMMA CacheShrinks ==
  ASSUME IndInv, cache' \subseteq cache, UNCHANGED <<dbVars, callVars, credited>>
  PROVE  IndInv'
  <1>1. TypeOK' /\ TxHoldsLock' /\ LockIsTx' /\ PlanIsKept'
    BY DEF IndInv, TypeOK, TxHoldsLock, LockIsTx, PlanIsKept, Plan, dbVars, callVars
  <1>2. KeyStillFree' /\ KeyExecutedOnce' /\ CacheCoherent' /\ ResultIsStored'
    BY DEF IndInv, KeyStillFree, Taken, At, KeyExecutedOnce, CacheCoherent,
           ResultIsStored, dbVars, callVars
  <1>3. FirstPollSucceeds' /\ NeverPollsAgain' /\ UnansweredWhileRunning'
    BY DEF IndInv, At, FirstPollSucceeds, NeverPollsAgain, UnansweredWhileRunning,
           dbVars, callVars
  <1> QED
    BY <1>1, <1>2, <1>3 DEF IndInv

\* The invariant holds before the first call.
LEMMA InitHolds ==
  ASSUME Init
  PROVE  IndInv
  <1>1. TypeOK
    BY SendAssumption DEF Init, TypeOK, PCs, NoAnswer, Answers
  <1>2. TxHoldsLock /\ LockIsTx /\ PlanIsKept /\ KeyStillFree /\ KeyExecutedOnce
    BY DEF Init, TxHoldsLock, LockIsTx, PlanIsKept, KeyStillFree, KeyExecutedOnce, InTx
  <1>3. /\ ResultIsStored /\ CacheCoherent /\ FirstPollSucceeds /\ NeverPollsAgain
        /\ UnansweredWhileRunning
    BY DEF Init, ResultIsStored, CacheCoherent, FirstPollSucceeds, NeverPollsAgain,
           UnansweredWhileRunning, NoAnswer
  <1> QED
    BY <1>1, <1>2, <1>3 DEF IndInv

\* No step of anybody breaks it.
LEMMA StepKeeps ==
  ASSUME IndInv, [Next]_vars
  PROVE  IndInv'
  <1>1. ASSUME NEW c \in Calls, Cancel(c)
        PROVE  IndInv'
    BY <1>1, FailureTypes, ReturnKeeps DEF Cancel, IndInv, CacheCoherent
  <1>2. CASE \E r \in cache : Evict(r)
    BY <1>2, CacheShrinks DEF Evict
  <1>3. CASE UNCHANGED vars
    BY <1>3, CacheShrinks DEF vars, dbVars, callVars
  <1> QED
    BY <1>1, <1>2, <1>3, CallStepKeeps, CreditKeeps DEF Next

-------------------------------------------------------------------------------
\* The inductive invariant is an invariant of Send.
THEOREM SendInvariance == Spec => []IndInv
  BY InitHolds, StepKeeps, PTL DEF Spec

\* Every variable of Send has its type; in particular no account is overdrawn
\* by a debit, whatever number of calls compete for it.
THEOREM SendTypeCorrect == Spec => []TypeOK
  <1>1. IndInv => TypeOK
    BY DEF IndInv
  <1> QED
    BY <1>1, SendInvariance, PTL

\* One row per user and idempotency key, for any number of concurrent calls
\* with any payloads, through lost answers, failed commits and evictions.
THEOREM KeysExecutedOnce == Spec => []KeyExecutedOnce
  <1>1. IndInv => KeyExecutedOnce
    BY DEF IndInv
  <1> QED
    BY <1>1, SendInvariance, PTL

\* Redis only holds results that were committed.
THEOREM CacheIsCoherent == Spec => []CacheCoherent
  <1>1. IndInv => CacheCoherent
    BY DEF IndInv
  <1> QED
    BY <1>1, SendInvariance, PTL

\* The balance a transaction read is the balance until it ends, because it
\* holds the row lock all that time.
THEOREM PlansAreCurrent == Spec => []PlanIsCurrent
  <1>1. IndInv => PlanIsCurrent
    BY DEF IndInv, TxHoldsLock, PlanIsCurrent, InTx
  <1> QED
    BY <1>1, SendInvariance, PTL

\* A call that lost the race for its key finds the winner's row at once.
THEOREM FirstPollsSucceed == Spec => []FirstPollSucceeds
  <1>1. IndInv => FirstPollSucceeds
    BY DEF IndInv
  <1> QED
    BY <1>1, SendInvariance, PTL

-------------------------------------------------------------------------------
\* A call that returns an error, or the answer to a decided key, does what the
\* contract allows.
LEMMA FailureIsGiveUp ==
  ASSUME IndInv, NEW c \in Calls, pc[c] # "done", Return(c, Failed("error")),
         UNCHANGED <<balance, requests>>
  PROVE  Idem!INext
  <1>1. Idem!GiveUp(c)
    BY DEF Idem!GiveUp, Idem!NoAnswer, Idem!Failed, IndInv, UnansweredWhileRunning,
           NoAnswer, Failed, Return
  <1> QED
    BY <1>1 DEF Idem!INext

\* Loading a row is an answer of the contract, or the call goes on.
LEMMA LoadRowIsRespond ==
  ASSUME IndInv, NEW c \in Calls, pc[c] # "done", LoadRow(c),
         UNCHANGED <<balance, requests>>
  PROVE  Idem!INext \/ UNCHANGED Idem!idemVars
  <1>1. CASE UNCHANGED answer
    BY <1>1 DEF Idem!idemVars
  <1>2. CASE ~UNCHANGED answer
    <2>1. PICK r \in At(requests, c) : r.hash # Hash[c] /\ Return(c, Failed("conflict"))
      BY <1>2 DEF LoadRow
    <2>2. Idem!Respond(c)
      BY <2>1 DEF Idem!Respond, Idem!Decided, Idem!NoAnswer, Idem!Failed, At, IndInv,
                  UnansweredWhileRunning, NoAnswer, Failed, Return
    <2> QED
      BY <2>2 DEF Idem!INext
  <1> QED
    BY <1>1, <1>2

\* A row of the call's own request is the contract's answer to it.
LEMMA AnswerIsRespond ==
  ASSUME IndInv, NEW c \in Calls, pc[c] # "done", NEW r \in At(requests, c),
         r.hash = Hash[c], Return(c, Ok(r)), UNCHANGED <<balance, requests>>
  PROVE  Idem!INext
  <1>1. Idem!Respond(c)
    BY DEF Idem!Respond, Idem!Decided, Idem!NoAnswer, Idem!Ok, At, IndInv,
           UnansweredWhileRunning, NoAnswer, Ok, Return
  <1> QED
    BY <1>1 DEF Idem!INext

\* Commit is the decision of the key: the plan is what the balance at this
\* moment pays for, and the key is undecided.
LEMMA CommitIsExecute ==
  ASSUME IndInv, NEW c \in Calls, pc[c] = "commit", Apply(c),
         Succeed(c) \/ CommitError(c)
  PROVE  Idem!INext
  <1>1. /\ User[c] \in DOMAIN balance /\ Idem!Decided(c) = {}
        /\ answer[c] = Idem!NoAnswer
    BY DEF IndInv, TypeOK, TxHoldsLock, InTx, KeyStillFree, Taken, At, Idem!Decided,
           UnansweredWhileRunning, NoAnswer, Idem!NoAnswer
  <1>2. planned[c] = Idem!Accepted(c)
    BY DEF IndInv, TxHoldsLock, InTx, PlanIsKept, Plan, Idem!Accepted
  <1>3. answer' \in {answer, [answer EXCEPT ![c] = Idem!Failed("error")]}
    BY DEF Succeed, CommitError, Return, Failed, Idem!Failed
  <1>4. Idem!Execute(c)
    BY <1>1, <1>2, <1>3 DEF Idem!Execute, Apply, NewRow, TotalCost
  <1> QED
    BY <1>4 DEF Idem!INext

\* Every step of a call is a step of the contract, or none.
LEMMA CallStepImplements ==
  ASSUME IndInv, NEW c \in Calls, CallStep(c)
  PROVE  Idem!INext \/ UNCHANGED Idem!idemVars
  <1>1. CASE LookInCache(c)
    <2>1. \A r \in CacheHit(c) : r \in At(requests, c) /\ r.hash = Hash[c]
      BY DEF IndInv, CacheCoherent, CacheHit, At
    <2> QED
      BY <1>1, <2>1, AnswerIsRespond DEF LookInCache, Proceed, Idem!idemVars
  <1>2. CASE FindRequest(c)
    BY <1>2, LoadRowIsRespond, FailureIsGiveUp DEF FindRequest, Proceed, Idem!idemVars
  <1>3. CASE GetBalanceForUpdate(c)
    <2>1. CASE User[c] \notin Users /\ Return(c, Failed("notfound"))
      <3>1. Idem!GiveUp(c)
        BY <2>1, <1>3
        DEF GetBalanceForUpdate, Idem!GiveUp, Idem!NoAnswer, Idem!Failed, IndInv, TypeOK,
            UnansweredWhileRunning, NoAnswer, Failed, Return
      <3> QED
        BY <3>1 DEF Idem!INext
    <2> QED
      BY <1>3, <2>1, FailureIsGiveUp DEF GetBalanceForUpdate, Idem!idemVars
  <1>4. CASE DebitBalance(c)
    <2>1. ~(smsCost * Plan(c) > balance[User[c]])
      BY <1>4, PlanAffordable
      DEF DebitBalance, IndInv, TypeOK, TxHoldsLock, InTx, smsCost
    <2> QED
      BY <1>4, <2>1, FailureIsGiveUp DEF DebitBalance, Idem!idemVars
  <1>5. CASE CreateRequest(c)
    BY <1>5, FailureIsGiveUp DEF CreateRequest, Proceed, Idem!idemVars
  <1>6. CASE CommitSend(c)
    <2>1. CASE Apply(c)
      BY <1>6, <2>1, CommitIsExecute DEF CommitSend
    <2>2. CASE UNCHANGED <<requests, balance>> /\ CommitError(c)
      BY <1>6, <2>2, FailureIsGiveUp DEF CommitSend, CommitError
    <2> QED
      BY <1>6, <2>1, <2>2 DEF CommitSend
  <1>7. CASE SaveIdempotentResult(c)
    BY <1>7, AnswerIsRespond DEF SaveIdempotentResult, IndInv, ResultIsStored
  <1>8. CASE WaitIdempotent(c)
    <2>1. At(requests, c) # {} /\ polls[c] # PollAttempts
      BY <1>8, SendAssumption
      DEF WaitIdempotent, IndInv, FirstPollSucceeds, NeverPollsAgain
    <2> QED
      BY <1>8, <2>1, LoadRowIsRespond, FailureIsGiveUp DEF WaitIdempotent
  <1> QED
    BY <1>1, <1>2, <1>3, <1>4, <1>5, <1>6, <1>7, <1>8 DEF CallStep

\* The same of every step of the system.
LEMMA StepImplements ==
  ASSUME IndInv, [Next]_vars
  PROVE  Idem!INext \/ UNCHANGED Idem!idemVars
  <1>1. ASSUME NEW c \in Calls, Cancel(c)
        PROVE  Idem!INext
    BY <1>1, FailureIsGiveUp DEF Cancel
  <1>2. ASSUME NEW u \in Users, NEW n \in Credits, Credit(u, n)
        PROVE  Idem!INext
    <2>1. Idem!Income(u) /\ u \in DOMAIN balance
      BY <1>2, SendAssumption DEF Credit, Idem!Income, IndInv, TypeOK, callVars
    <2> QED
      BY <2>1 DEF Idem!INext
  <1>3. CASE \E r \in cache : Evict(r)
    BY <1>3 DEF Evict, dbVars, callVars, Idem!idemVars
  <1>4. CASE UNCHANGED vars
    BY <1>4 DEF vars, Idem!idemVars
  <1> QED
    BY <1>1, <1>2, <1>3, <1>4, CallStepImplements DEF Next

\* Send with its cache, its transaction and its polling implements the contract
\* of IdempotentSend: the first execution of a key decides and is paid for
\* once, and every successful answer to the key is its result.
THEOREM SendImplementsContract == Spec => ImplementsIdempotentSend
  <1>1. Init => Idem!IInit
    BY DEF Init, Idem!IInit, NoAnswer, Idem!NoAnswer
  <1>2. IndInv /\ [Next]_vars => [Idem!INext]_Idem!idemVars
    BY StepImplements
  <1> QED
    BY <1>1, <1>2, SendInvariance, PTL DEF Spec, ImplementsIdempotentSend, Idem!ISpec
===============================================================================
