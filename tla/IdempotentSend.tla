---------------------------- MODULE IdempotentSend ----------------------------
(***************************************************************************)
(* What POST /messages/send/* promises, with no cache, transaction or lock:  *)
(* the first execution of a (user, idempotency key) decides, is paid for    *)
(* once, and every successful answer to that key is its result.  A call may *)
(* always end in an error, before or after the decision.                   *)
(***************************************************************************)
EXTENDS Integers, FiniteSets

CONSTANTS
    Calls,      \* calls of Send; positive numbers, also used as request ids
    User,       \* User[c], Key[c], Hash[c]: what call c asks for
    Key,
    Hash,
    Valid,      \* Valid[h]: recipients of payload h with a valid number
    Price,
    Opening     \* Opening[u]: balance of u before anything happens

VARIABLES
    balance,    \* balance[u]
    requests,   \* decided requests
    answer      \* answer[c]

idemVars == <<balance, requests, answer>>

NoAnswer == [code |-> "none", id |-> 0, accepted |-> 0]
Failed(code) == [code |-> code, id |-> 0, accepted |-> 0]
Ok(r) == [code |-> "ok", id |-> r.id, accepted |-> r.accepted]

\* The decided request of call c's user and key, as a set of at most one row.
Decided(c) == {r \in requests : r.user = User[c] /\ r.key = Key[c]}

IInit ==
    /\ balance = Opening
    /\ requests = {}
    /\ answer = [c \in Calls |-> NoAnswer]

\* As many recipients as the balance covers.
Accepted(c) ==
    LET affordable == balance[User[c]] \div Price
    IN  IF Valid[Hash[c]] < affordable THEN Valid[Hash[c]] ELSE affordable

\* Call c decides its key.  Its caller may be told of a failure all the same.
Execute(c) ==
    /\ User[c] \in DOMAIN balance
    /\ answer[c] = NoAnswer /\ Decided(c) = {}
    /\ requests' = requests \cup
          {[user |-> User[c], key |-> Key[c], hash |-> Hash[c],
            id |-> c, accepted |-> Accepted(c)]}
    /\ balance' = [balance EXCEPT ![User[c]] = @ - Price * Accepted(c)]
    /\ answer' \in {answer, [answer EXCEPT ![c] = Failed("error")]}

\* A decided key is answered: with its result, or with a conflict when the
\* payload is another one.
Respond(c) ==
    /\ answer[c] = NoAnswer
    /\ \E r \in Decided(c) :
          answer' = [answer EXCEPT ![c] =
                        IF r.hash = Hash[c] THEN Ok(r) ELSE Failed("conflict")]
    /\ UNCHANGED <<balance, requests>>

\* The call ends in an error, or its user does not exist.
GiveUp(c) ==
    /\ answer[c] = NoAnswer
    /\ \/ answer' = [answer EXCEPT ![c] = Failed("error")]
       \/ User[c] \notin DOMAIN balance /\ answer' = [answer EXCEPT ![c] = Failed("notfound")]
    /\ UNCHANGED <<balance, requests>>

\* Money arrives: AddBalance, or the refund of an earlier message.
Income(u) ==
    /\ balance'[u] > balance[u]
    /\ balance' = [balance EXCEPT ![u] = balance'[u]]
    /\ UNCHANGED <<requests, answer>>

INext ==
    \/ \E c \in Calls : Execute(c) \/ Respond(c) \/ GiveUp(c)
    \/ \E u \in DOMAIN balance : Income(u)

ISpec == IInit /\ [][INext]_idemVars
===============================================================================
