----------------------------- MODULE OutboxWorker -----------------------------
(***************************************************************************)
(* worker.go: the outbox worker that every gateway instance runs.           *)
(*                                                                         *)
(* ProcessOnce claims a batch of outbox rows in one transaction and then    *)
(* handles the events one by one; every statement and every call to Kafka   *)
(* is a step of its own, so that the workers of other instances, the SMS    *)
(* consumers and the clock run in between.  events[w][m] is the attempts    *)
(* value the claim returned for row m (0: m is not in the batch of w).      *)
(***************************************************************************)
EXTENDS Broker

CONSTANTS
    Instances,      \* gateway processes; each has one outbox worker
    BatchSize,      \* LIMIT of a claim
    MaxAttempts     \* OUTBOX_MAX_ATTEMPTS

ASSUME OutboxAssumption ==
    /\ BatchSize \in Nat \ {0}
    /\ MaxAttempts \in Nat \ {0}

NoMsg == 0

VARIABLES
    wpc,        \* wpc[w]: where the worker is in ProcessOnce
    events,     \* events[w]: the part of the claimed batch still to be handled
    cur,        \* cur[w]: the event being handled
    tries       \* history: tries[m] calls of Publish for the event of m

workerVars == <<wpc, events, cur, tries>>

WorkerPC == {"next", "mark", "fail", "dlq", "finalize"}

WorkerTypeOK ==
    /\ wpc \in [Instances -> WorkerPC]
    /\ events \in [Instances -> [Msgs -> Nat]]
    /\ cur \in [Instances -> Msgs \cup {NoMsg}]
    /\ tries \in [Msgs -> Nat]
    /\ \A w \in Instances : wpc[w] # "next" => cur[w] \in Msgs

NoEvents == [m \in Msgs |-> 0]

WorkerInit ==
    /\ wpc = [w \in Instances |-> "next"]
    /\ events = [w \in Instances |-> NoEvents]
    /\ cur = [w \in Instances |-> NoMsg]
    /\ tries = [m \in Msgs |-> 0]

\* Is row m in the batch of a running worker?
HeldByWorker(m) == \E w \in Instances : events[w][m] > 0

\* Rows an UPDATE of another worker may have locked while w claims.
LockedByOthers(w) ==
    {m \in Msgs : \E v \in Instances \ {w} :
                     cur[v] = m /\ wpc[v] \in {"mark", "fail", "finalize"}}

\* The loop goes on with the next event of the batch.
Continue(w) ==
    /\ wpc' = [wpc EXCEPT ![w] = "next"]
    /\ events' = [events EXCEPT ![w] = [@ EXCEPT ![cur[w]] = 0]]
    /\ cur' = [cur EXCEPT ![w] = NoMsg]
    /\ UNCHANGED tries

Goto(w, pc) ==
    /\ wpc' = [wpc EXCEPT ![w] = pc]
    /\ UNCHANGED <<events, cur, tries>>

-------------------------------------------------------------------------------
\* ACTION: ProcessOnce claims a batch.  The second alternative is a failing
\* Commit that was applied: the rows are claimed and nobody handles them.
ClaimPendingOutbox(w) ==
    /\ wpc[w] = "next" /\ events[w] = NoEvents
    /\ \E skipped \in SUBSET LockedByOthers(w) :
          LET S == ClaimedRows(BatchSize, skipped)
          IN  /\ S # {}
              /\ ClaimRows(S)
              /\ \/ /\ NoFault
                    /\ events' = [events EXCEPT ![w] =
                          [m \in Msgs |-> IF m \in S THEN obAttempts[m] + 1 ELSE 0]]
                 \/ /\ Fault("db")
                    /\ UNCHANGED events
    /\ UNCHANGED <<wpc, cur, tries, brokerVars>>

\* Mutant: the comparison with maxAttempts is off by one.
TooManyLate(a) == a > MaxAttempts + 1
\* Where ProcessOnce dead-letters an event without publishing it.
TooMany(a) == a > MaxAttempts

\* Mutant: the last attempt is given away.
LastAttemptEarly(a) == a >= MaxAttempts - 1
\* Where a failed Publish is the last one.
LastAttempt(a) == a >= MaxAttempts

\* Mutant: the error of Publish is not looked at.
PublishErrorIgnored(a) == "mark"
\* Where an error of Publish leads.
PublishError(a) == IF LastAttempt(a) THEN "dlq" ELSE "fail"

\* ACTION: the next event of the batch, in whatever order RETURNING listed the
\* rows.  Publish may fail after the leader has the record (RequiredAcks, a
\* timeout): the error branch appends or does not.
PublishEvent(w, m) ==
    /\ wpc[w] = "next" /\ events[w][m] > 0
    /\ cur' = [cur EXCEPT ![w] = m]
    /\ \/ /\ TooMany(events[w][m])
          /\ wpc' = [wpc EXCEPT ![w] = "dlq"]
          /\ UNCHANGED <<log, tries>>
       \/ /\ ~TooMany(events[w][m])
          /\ tries' = [tries EXCEPT ![m] = @ + 1]
          /\ \/ /\ AppendRecord(m)
                /\ wpc' = [wpc EXCEPT ![w] = "mark"]
             \/ /\ AppendRecord(m) \/ UNCHANGED log
                /\ wpc' = [wpc EXCEPT ![w] = PublishError(events[w][m])]
    /\ UNCHANGED <<repoVars, committed, dlq, events>>

\* ACTION: MarkOutboxPublished after a successful Publish.  An error is logged
\* and the row stays as it is until its claim is stale.
MarkPublished(w) ==
    /\ wpc[w] = "mark"
    /\ \/ MarkOutboxPublished(cur[w]) /\ NoFault
       \/ UNCHANGED tables /\ Fault("db")
    /\ Continue(w)
    /\ UNCHANGED brokerVars

\* ACTION: RecordOutboxFailure; its error is ignored.
RecordFailure(w) ==
    /\ wpc[w] = "fail"
    /\ \/ RecordOutboxFailure(cur[w]) /\ NoFault
       \/ UNCHANGED tables /\ Fault("db")
    /\ Continue(w)
    /\ UNCHANGED brokerVars

\* ACTION: deadLetter, first half.  PublishDLQ goes to the same Kafka; its
\* error is only logged.
DeadLetter(w) ==
    /\ wpc[w] = "dlq"
    /\ PublishDLQ("outbox_exhausted", cur[w]) \/ UNCHANGED dlq
    /\ Goto(w, "finalize")
    /\ UNCHANGED <<repoVars, log, committed>>

\* ACTION: deadLetter, second half.  When the transaction reports an error
\* (applied or not) the row is put back by RecordOutboxFailure.
Finalize(w) ==
    /\ wpc[w] = "finalize"
    /\ \/ FinalizeOutboxExhausted(cur[w]) /\ NoFault /\ Continue(w)
       \/ /\ FinalizeOutboxExhausted(cur[w]) \/ UNCHANGED tables
          /\ Fault("db")
          /\ Goto(w, "fail")
    /\ UNCHANGED brokerVars

WorkerStep(w) ==
    \/ ClaimPendingOutbox(w)
    \/ \E m \in Msgs : PublishEvent(w, m)
    \/ MarkPublished(w)
    \/ RecordFailure(w)
    \/ DeadLetter(w)
    \/ Finalize(w)

\* The process of w dies; what it had in memory is gone.
StopWorker(w) ==
    /\ wpc' = [wpc EXCEPT ![w] = "next"]
    /\ events' = [events EXCEPT ![w] = NoEvents]
    /\ cur' = [cur EXCEPT ![w] = NoMsg]
    /\ UNCHANGED tries

\* Time makes an outbox claim stale: of itself when nobody works on the row
\* any more, and as a fault (a slow batch) while somebody does.
AgeOutboxClaim(m) ==
    /\ OutboxClaimAges(m)
    /\ IF HeldByWorker(m) THEN Fault("stall") ELSE NoFault
    /\ UNCHANGED <<brokerVars, workerVars>>
===============================================================================
