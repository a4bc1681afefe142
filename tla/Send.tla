--------------------------------- MODULE Send ---------------------------------
(***************************************************************************)
(* usecase.go and redis_store.go: UseCase.Send, called concurrently by any  *)
(* number of HTTP requests in any number of instances.                      *)
(*                                                                         *)
(* A call is a sequence of Redis commands and SQL statements, each a step   *)
(* of its own.  The transaction of persistSend holds the row lock on users  *)
(* (SELECT ... FOR UPDATE) from GetBalanceForUpdate to the end; what it     *)
(* writes is kept in the call (planned) until Commit.  A payload is reduced *)
(* to its hash, which is what the code compares, and to the number of its   *)
(* valid recipients; PlanSend.tla has the planning loop itself.             *)
(***************************************************************************)
EXTENDS Integers, FiniteSets

CONSTANTS
    Calls,          \* calls of Send; positive numbers, also used as request ids
    Users,          \* rows of users
    User,           \* User[c], Key[c]: user_id and idempotency key of call c
    Key,
    Hash,           \* Hash[c]: payloadHash of call c
    Valid,          \* Valid[h]: recipients of payload h with a valid number
    InitialBalance,
    Credits,        \* amounts that reach an account while calls run
    MaxCredit,      \* bound on their sum, per account
    PollAttempts,   \* idempotencyPollAttempts
    FaultKinds,     \* subset of {"redis", "db", "cancel", "evict"}
    MaxFaults

ASSUME SendAssumption ==
    /\ Calls \subseteq Nat \ {0} /\ IsFiniteSet(Calls)
    /\ Valid \in [{Hash[c] : c \in Calls} -> Nat]
    /\ InitialBalance \in [Users -> Nat]
    /\ Credits \subseteq Nat \ {0} /\ MaxCredit \in Nat
    /\ PollAttempts \in Nat \ {0} /\ MaxFaults \in Nat

VARIABLES
    balance,    \* users.balance
    lock,       \* lock[u]: call whose transaction holds the row of u (0: none)
    requests,   \* committed rows of requests
    cache,      \* Redis entries, at most one per user and key
    pc,         \* pc[c]: where call c is
    seen,       \* seen[c]: balance read by GetBalanceForUpdate
    planned,    \* planned[c]: messages the transaction of c accepts
    result,     \* result[c]: the request c is about to answer with
    polls,      \* polls[c]: iterations of waitIdempotentFromDB
    answer,     \* answer[c]: what the caller got
    credited,   \* history: what reached the account from outside
    faults

dbVars == <<balance, lock, requests>>
callVars == <<pc, seen, planned, result, polls, answer>>
vars == <<balance, lock, requests, cache, pc, seen, planned, result, polls,
          answer, credited, faults>>

smsCost == 1
NoCall == 0
NoAnswer == [code |-> "none", id |-> 0, accepted |-> 0]
Failed(code) == [code |-> code, id |-> 0, accepted |-> 0]
Ok(r) == [code |-> "ok", id |-> r.id, accepted |-> r.accepted]

PCs == {"cache", "find", "lock", "debit", "insert", "commit", "save", "poll", "done"}
Hashes == {Hash[c] : c \in Calls}
Rows == [user : Users, key : {Key[c] : c \in Calls}, hash : Hashes,
         id : Calls, accepted : Nat]
Answers == [code : {"none", "ok", "conflict", "notfound", "insufficient", "error"},
            id : Calls \cup {0}, accepted : Nat]

\* Every variable has its type; in particular no account is overdrawn.
TypeOK ==
    /\ balance \in [Users -> Nat]
    /\ lock \in [Users -> Calls \cup {NoCall}]
    /\ requests \subseteq Rows /\ cache \subseteq Rows
    /\ pc \in [Calls -> PCs]
    /\ seen \in [Calls -> Nat]
    /\ planned \in [Calls -> Nat]
    /\ result \in [Calls -> SUBSET Rows]
    /\ polls \in [Calls -> 0..PollAttempts]
    /\ answer \in [Calls -> Answers]
    /\ credited \in [Users -> Nat]

Init ==
    /\ balance = InitialBalance
    /\ lock = [u \in Users |-> NoCall]
    /\ requests = {} /\ cache = {}
    /\ pc = [c \in Calls |-> "cache"]
    /\ seen = [c \in Calls |-> 0]
    /\ planned = [c \in Calls |-> 0]
    /\ result = [c \in Calls |-> {}]
    /\ polls = [c \in Calls |-> 0]
    /\ answer = [c \in Calls |-> NoAnswer]
    /\ credited = [u \in Users |-> 0]
    /\ faults = 0

Fault(k) ==
    /\ k \in FaultKinds
    /\ faults < MaxFaults
    /\ faults' = faults + 1
NoFault == UNCHANGED faults

\* Rows of a table, or of the cache, under the user and key of call c.
At(table, c) == {r \in table : r.user = User[c] /\ r.key = Key[c]}

Goto(c, label) == pc' = [pc EXCEPT ![c] = label]

Unlocked(c) == [u \in Users |-> IF lock[u] = c THEN NoCall ELSE lock[u]]

\* The transaction of c ends and gives its row lock up.
Release(c) == lock' = Unlocked(c)

\* Mutant: no deferred Rollback, so that an error leaves the transaction open.
NoRollback(c) == UNCHANGED lock
\* defer tx.Rollback(); nothing when the call has no transaction (any more).
Rollback(c) == Release(c)

\* The call goes on to another step, inside or outside its transaction.
Proceed(c, label) ==
    /\ Goto(c, label)
    /\ UNCHANGED <<lock, seen, planned, result, polls, answer>>

\* The call returns and runs its deferred Rollback.
Return(c, a) ==
    /\ Rollback(c)
    /\ pc' = [pc EXCEPT ![c] = "done"]
    /\ answer' = [answer EXCEPT ![c] = a]
    /\ seen' = [seen EXCEPT ![c] = 0]
    /\ planned' = [planned EXCEPT ![c] = 0]
    /\ result' = [result EXCEPT ![c] = {}]
    /\ polls' = [polls EXCEPT ![c] = 0]

-------------------------------------------------------------------------------
\* Mutant: the cached hash is not compared.
CacheHitAnyHash(c) == At(cache, c)
\* GetIdempotentResult: an entry with another hash is a miss.
CacheHit(c) == {r \in At(cache, c) : r.hash = Hash[c]}

\* ACTION: the Redis lookup of resolveIdempotent; an error is a miss.
LookInCache(c) ==
    /\ pc[c] = "cache"
    /\ \/ /\ NoFault
          /\ \E r \in CacheHit(c) : Return(c, Ok(r))
       \/ /\ CacheHit(c) = {} /\ NoFault
          /\ Proceed(c, "find")
       \/ Fault("redis") /\ Proceed(c, "find")
    /\ UNCHANGED <<balance, requests, cache, credited>>

\* loadIdempotentFromDB finds a row: a conflict, or the stored response, which
\* is written to Redis before it is returned.  Every row has a hash and a
\* response, because payloadHash is never empty and CreateRequest and
\* UpdateRequestResponse commit together; so the exemption of rows without a
\* hash and the branch for rows without a response are not taken.
LoadRow(c) ==
    \E r \in At(requests, c) :
        \/ r.hash # Hash[c] /\ Return(c, Failed("conflict"))
        \/ /\ r.hash = Hash[c]
           /\ result' = [result EXCEPT ![c] = {r}]
           /\ Goto(c, "save")
           /\ UNCHANGED <<lock, seen, planned, polls, answer>>

\* ACTION: the SELECT of resolveIdempotent.
FindRequest(c) ==
    /\ pc[c] = "find"
    /\ \/ NoFault /\ LoadRow(c)
       \/ /\ At(requests, c) = {} /\ NoFault
          /\ Proceed(c, "lock")
       \/ Fault("db") /\ Return(c, Failed("error"))
    /\ UNCHANGED <<balance, requests, cache, credited>>

\* Mutant: SELECT balance without FOR UPDATE.
TakeNoRow(c) == UNCHANGED lock
\* FOR UPDATE: waits for the row lock and holds it until the transaction ends.
TakeRow(c) ==
    /\ lock[User[c]] = NoCall
    /\ lock' = [lock EXCEPT ![User[c]] = c]

\* ACTION: Begin and GetBalanceForUpdate.
GetBalanceForUpdate(c) ==
    /\ pc[c] = "lock"
    /\ \/ /\ User[c] \in Users /\ TakeRow(c)
          /\ seen' = [seen EXCEPT ![c] = balance[User[c]]]
          /\ NoFault
          /\ Goto(c, "debit")
          /\ UNCHANGED <<planned, result, polls, answer>>
       \/ /\ User[c] \notin Users
          /\ NoFault /\ Return(c, Failed("notfound"))
       \/ Fault("db") /\ Return(c, Failed("error"))
    /\ UNCHANGED <<balance, requests, cache, credited>>

\* planSend: how many recipients the balance that was read pays for.
Plan(c) ==
    LET affordable == seen[c] \div smsCost
    IN  IF Valid[Hash[c]] < affordable THEN Valid[Hash[c]] ELSE affordable

\* ACTION: planSend and DebitBalance.  The UPDATE takes the row lock if the
\* transaction does not have it, and matches only if the balance suffices.
DebitBalance(c) ==
    /\ pc[c] = "debit"
    /\ lock[User[c]] \in {NoCall, c}
    /\ \/ /\ smsCost * Plan(c) <= balance[User[c]]
          /\ NoFault
          /\ lock' = [lock EXCEPT ![User[c]] = c]
          /\ planned' = [planned EXCEPT ![c] = Plan(c)]
          /\ Goto(c, "insert")
          /\ UNCHANGED <<seen, result, polls, answer>>
       \/ /\ smsCost * Plan(c) > balance[User[c]]
          /\ NoFault
          /\ Return(c, Failed("insufficient"))
       \/ Fault("db") /\ Return(c, Failed("error"))
    /\ UNCHANGED <<balance, requests, cache, credited>>

\* Mutant: INSERT without the unique constraint on (user_id, key).
TakenNever(c) == FALSE
\* UNIQUE (user_id, idempotency_key) is violated.
Taken(c) == At(requests, c) # {}

\* Mutant: every error of the INSERT is taken for a unique violation.
AnyErrorIsUnique(c) == (Taken(c) /\ NoFault) \/ Fault("db")
\* isUniqueViolation.
UniqueViolation(c) == Taken(c) /\ NoFault

\* The tx.Rollback before the wait.
AbandonTx(c) ==
    /\ Release(c)
    /\ planned' = [planned EXCEPT ![c] = 0]
    /\ seen' = [seen EXCEPT ![c] = 0]

\* ACTION: CreateRequest.  A unique violation rolls back and waits for the
\* response of the request that got there first.
CreateRequest(c) ==
    /\ pc[c] = "insert"
    /\ \/ ~Taken(c) /\ NoFault /\ Proceed(c, "commit")
       \/ /\ UniqueViolation(c)
          /\ AbandonTx(c)
          /\ Goto(c, "poll")
          /\ UNCHANGED <<result, polls, answer>>
       \/ Fault("db") /\ Return(c, Failed("error"))
    /\ UNCHANGED <<balance, requests, cache, credited>>

\* The request row as UpdateRequestResponse leaves it.
NewRow(c) == [user |-> User[c], key |-> Key[c], hash |-> Hash[c],
              id |-> c, accepted |-> planned[c]]

\* Mutant: the debit is applied twice.
TotalCostTwice(c) == 2 * smsCost * planned[c]
\* totalCost.
TotalCost(c) == smsCost * planned[c]

\* What Commit makes visible.
Apply(c) ==
    /\ requests' = requests \cup {NewRow(c)}
    /\ balance' = [balance EXCEPT ![User[c]] = @ - TotalCost(c)]

\* Commit ends the transaction; the result is cached and returned.
Succeed(c) ==
    /\ Release(c)
    /\ result' = [result EXCEPT ![c] = {NewRow(c)}]
    /\ Goto(c, "save")
    /\ UNCHANGED <<seen, planned, polls, answer>>

\* Mutant: an error of Commit is ignored.
CommitErrorIgnored(c) == Succeed(c)
CommitError(c) == Return(c, Failed("error"))

\* ACTION: the inserts of messages and outbox rows, UpdateRequestResponse and
\* Commit.  An error may hide a transaction that was committed.
CommitSend(c) ==
    /\ pc[c] = "commit"
    /\ \/ Apply(c) /\ NoFault /\ Succeed(c)
       \/ /\ Apply(c) \/ UNCHANGED <<requests, balance>>
          /\ Fault("db")
          /\ CommitError(c)
    /\ UNCHANGED <<cache, credited>>

\* ACTION: SaveIdempotentResult, whose error is ignored, and the answer.  (A
\* result found by waitIdempotentFromDB is saved twice with the same value.)
SaveIdempotentResult(c) ==
    /\ pc[c] = "save"
    /\ \/ NoFault /\ cache' = (cache \ At(cache, c)) \cup result[c]
       \/ Fault("redis") /\ UNCHANGED cache
    /\ \E r \in result[c] : Return(c, Ok(r))
    /\ UNCHANGED <<balance, requests, credited>>

\* ACTION: one iteration of waitIdempotentFromDB.
WaitIdempotent(c) ==
    /\ pc[c] = "poll"
    /\ \/ polls[c] = PollAttempts /\ NoFault /\ Return(c, Failed("conflict"))
       \/ polls[c] < PollAttempts /\ NoFault /\ LoadRow(c)
       \/ /\ polls[c] < PollAttempts /\ At(requests, c) = {} /\ NoFault
          /\ polls' = [polls EXCEPT ![c] = @ + 1]
          /\ UNCHANGED <<lock, pc, seen, planned, result, answer>>
       \/ Fault("db") /\ Return(c, Failed("error"))
    /\ UNCHANGED <<balance, requests, cache, credited>>

\* ACTION: the caller goes away or its process dies: the statement in progress
\* fails and the transaction is rolled back.
Cancel(c) ==
    /\ pc[c] # "done"
    /\ Fault("cancel")
    /\ Return(c, Failed("error"))
    /\ UNCHANGED <<balance, requests, cache, credited>>

\* ACTION: AddBalance, or a refund of FinalizeOutboxExhausted: an UPDATE of the
\* users row, which waits for the row lock.
Credit(u, n) ==
    /\ lock[u] = NoCall
    /\ credited[u] + n <= MaxCredit
    /\ balance' = [balance EXCEPT ![u] = @ + n]
    /\ credited' = [credited EXCEPT ![u] = @ + n]
    /\ UNCHANGED <<lock, requests, cache, callVars, faults>>

\* ACTION: a Redis entry expires (idempotencyTTL) or is evicted.
Evict(r) ==
    /\ Fault("evict")
    /\ cache' = cache \ {r}
    /\ UNCHANGED <<dbVars, callVars, credited>>

CallStep(c) ==
    \/ LookInCache(c)
    \/ FindRequest(c)
    \/ GetBalanceForUpdate(c)
    \/ DebitBalance(c)
    \/ CreateRequest(c)
    \/ CommitSend(c)
    \/ SaveIdempotentResult(c)
    \/ WaitIdempotent(c)

Next ==
    \/ \E c \in Calls : CallStep(c) \/ Cancel(c)
    \/ \E u \in Users, n \in Credits : Credit(u, n)
    \/ \E r \in cache : Evict(r)

Spec == Init /\ [][Next]_vars

\* A call runs until it returns.
FairSpec == Spec /\ \A c \in Calls : WF_vars(CallStep(c))

-------------------------------------------------------------------------------
\* One request row per user and idempotency key, however the calls interleave:
\* the key is executed, and paid for, once.
KeyExecutedOnce ==
    \A r, s \in requests : r.user = s.user /\ r.key = s.key => r = s

\* Redis never knows more than the database: a cached result is a committed
\* one, through failed commits, lost answers and evictions.
CacheCoherent == cache \subseteq requests

\* A transaction that waits for nobody holds the lock: between two statements
\* of persistSend only the call itself may touch the balance it read.
PlanIsCurrent ==
    \A c \in Calls :
        pc[c] \in {"debit", "insert", "commit"} =>
            lock[User[c]] = c /\ balance[User[c]] = seen[c]

\* waitIdempotentFromDB finds the response in its first iteration: the unique
\* violation is only seen after the other request has committed.
FirstPollSucceeds == \A c \in Calls : pc[c] = "poll" => At(requests, c) # {}

\* Every call returns: nobody waits for ever for a row lock that another call
\* has taken, whatever statement that call fails at.
EveryCallReturns == \A c \in Calls : <>(pc[c] = "done")

Idem == INSTANCE IdempotentSend
            WITH Price <- smsCost, Opening <- InitialBalance

\* Send implements the abstract contract: the first execution of a key decides,
\* every successful answer to the key is its result, a conflict is only
\* reported for another payload.
ImplementsIdempotentSend == Idem!ISpec

\* Postman collection, "Send - insufficient balance": a send that the balance
\* does not cover is refused with 402; what is accepted is accepted in full.
LowBalanceIsRefused ==
    \A c \in Calls : answer[c].code = "ok" => answer[c].accepted = Valid[Hash[c]]
===============================================================================
