------------------------------- MODULE Handlers -------------------------------
(***************************************************************************)
(* handler.go and dto.go of internal/messaging and internal/user,           *)
(* utils/response: what a handler does with one HTTP request, from the      *)
(* bytes to the bodies it writes.                                          *)
(*                                                                         *)
(* A request is reduced to what the handlers ask of it.  The use case       *)
(* behind a handler is reduced to its result (Send.tla looks inside Send).  *)
(* Everything before the call of the use case is local to the handler and   *)
(* is one step.                                                            *)
(***************************************************************************)
EXTENDS Integers, Sequences

CONSTANT Reqs       \* identities of HTTP requests

VARIABLES
    req,        \* req[r]: what the client sent
    hpc,        \* hpc[r]: where the handler of r is
    outcome,    \* outcome[r]: what the use case returned
    bodies,     \* bodies[r]: status of every body written for r, in order
    executed,   \* requests whose effect is in the database
    open        \* what main has opened and not closed

handlerVars == <<req, hpc, outcome, bodies, executed>>

\* SendOTP and SendText differ only in the names of their fields.
Routes == {"send", "list", "get", "addBalance"}

\* id: does PathID accept the path parameter?  bound: does c.Bind succeed?
\* fields: do the fields that were bound pass validate()?  A JSON value of the
\* wrong type makes Bind fail and leaves the other fields bound, so that
\* `fields' may hold when `bound' does not (with the one field of addBalance only
\* if the body repeats its key and one of the values is ill-typed).  Only
\* /users/:id has a path parameter, and GET /users/:id has nothing else.
RequestKinds ==
    {k \in [route : Routes, id : BOOLEAN, bound : BOOLEAN, fields : BOOLEAN] :
        /\ k.route \in {"send", "list"} => k.id
        /\ k.route = "get" => k.bound /\ k.fields}

NoRequest == [route |-> "get", id |-> TRUE, bound |-> TRUE, fields |-> TRUE]
Outcomes == {"none", "ok", "notfound", "conflict", "insufficient", "error"}
Statuses == {200, 400, 402, 404, 409, 500}

HandlersTypeOK ==
    /\ req \in [Reqs -> RequestKinds]
    /\ hpc \in [Reqs -> {"idle", "exec", "reply", "done"}]
    /\ outcome \in [Reqs -> Outcomes]
    /\ bodies \in [Reqs -> Seq(Statuses)]
    /\ executed \subseteq Reqs

HandlersInit ==
    /\ req = [r \in Reqs |-> NoRequest]
    /\ hpc = [r \in Reqs |-> "idle"]
    /\ outcome = [r \in Reqs |-> "none"]
    /\ bodies = [r \in Reqs |-> <<>>]
    /\ executed = {}

-------------------------------------------------------------------------------
\* What PathID, Bind and validate with FromError write.  PathID and Bind return
\* the result of writing the 400, which is nil: their caller goes on, PathID's
\* with id 0.
PathID(k) == IF k.id THEN <<>> ELSE <<400>>
Bind(k) == IF k.bound THEN <<>> ELSE <<400>>
Validate(k) == IF k.fields THEN <<>> ELSE <<400>>

\* ListMessages calls c.Bind itself and returns after writing the 400.
BindReturns(k) == k.route = "list" /\ ~k.bound

\* Mutant: no return after the answer to a failed validation.
CallsUseCaseAnyway(k) == ~BindReturns(k)
\* Does the handler get as far as the use case?
CallsUseCase(k) == ~BindReturns(k) /\ k.fields

\* The bodies written before the use case is called.
Written(k) ==
    PathID(k) \o Bind(k) \o (IF BindReturns(k) THEN <<>> ELSE Validate(k))

\* ACTION: a request of kind k reaches its handler.
Receive(r, k) ==
    /\ hpc[r] = "idle"
    /\ req' = [req EXCEPT ![r] = k]
    /\ bodies' = [bodies EXCEPT ![r] = Written(k)]
    /\ hpc' = [hpc EXCEPT ![r] = IF CallsUseCase(k) THEN "exec" ELSE "done"]
    /\ UNCHANGED <<outcome, executed>>

Writes(k) == k.route \in {"send", "addBalance"}

\* What the use cases return, errors of the database apart.  No user has id 0.
ListMessages == {"ok"}
SendResults == {"ok", "notfound", "conflict", "insufficient"}
UserResults(k) == {"notfound"} \cup {o \in {"ok"} : k.id}

UseCaseResults(k) ==
    CASE k.route = "list" -> ListMessages
      [] k.route = "send" -> SendResults
      [] OTHER -> UserResults(k)

\* After sqlDB.Close every statement fails.
Results(k) == {"error"} \cup (IF "db" \in open THEN UseCaseResults(k) ELSE {})

\* ACTION: the use case.  An error does not say whether the statement or the
\* commit took effect.
Execute(r) ==
    /\ hpc[r] = "exec"
    /\ \E o \in Results(req[r]) :
          /\ outcome' = [outcome EXCEPT ![r] = o]
          /\ \/ /\ Writes(req[r]) /\ req[r].id /\ "db" \in open
                /\ o \in {"ok", "error"}
                /\ executed' = executed \cup {r}
             \/ /\ ~(Writes(req[r]) /\ o = "ok")
                /\ UNCHANGED executed
    /\ hpc' = [hpc EXCEPT ![r] = "reply"]
    /\ UNCHANGED <<req, bodies>>

\* OK and FromError.
FromError(o) ==
    CASE o = "ok" -> 200 [] o = "notfound" -> 404 [] o = "conflict" -> 409
      [] o = "insufficient" -> 402 [] OTHER -> 500

\* ACTION: the handler answers.  Once a body is written the status line is out:
\* a second body is added to the first.
Reply(r) ==
    /\ hpc[r] = "reply"
    /\ bodies' = [bodies EXCEPT ![r] = Append(@, FromError(outcome[r]))]
    /\ hpc' = [hpc EXCEPT ![r] = "done"]
    /\ UNCHANGED <<req, outcome, executed>>

InFlight(r) == hpc[r] \in {"exec", "reply"}

-------------------------------------------------------------------------------
\* A request whose path and body could be read is answered once at most, and
\* truthfully: success only for what is in the database, a client error only
\* for what is not, also while the process is being shut down.
OneTrueAnswer ==
    \A r \in Reqs :
        req[r].id /\ req[r].bound /\ bodies[r] # <<>> =>
            /\ Len(bodies[r]) = 1
            /\ bodies[r][1] = 200 /\ Writes(req[r]) => r \in executed
            /\ bodies[r][1] \in 400..499 => r \notin executed

\* response.go: a request that was answered with 400 is not carried out.
RejectedIsNotExecuted ==
    \A r \in Reqs : bodies[r] # <<>> /\ bodies[r][1] = 400 => r \notin executed
===============================================================================
