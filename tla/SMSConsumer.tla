------------------------------ MODULE SMSConsumer ------------------------------
(***************************************************************************)
(* consumer.go: the SMS consumers of the express and the normal lane, and   *)
(* MessageProcessor.Process.                                               *)
(*                                                                         *)
(* A consumer (one runWorker goroutine with a reader of its own) fetches a  *)
(* record, claims its message, calls the provider up to                     *)
(* maxProviderAttempts times, records the outcome and commits the offset.   *)
(* When Process returns an error the loop goes on with the NEXT record of   *)
(* the reader: the position rpos only moves back when the group rebalances. *)
(***************************************************************************)
EXTENDS Broker

CONSTANTS
    Consumers,              \* runWorker goroutines of all instances
    LaneOf,                 \* LaneOf[c]: the topic c reads
    MaxProviderAttempts     \* maxProviderAttempts

ASSUME ConsumerAssumption ==
    /\ IsFiniteSet(Consumers)
    /\ LaneOf \in [Consumers -> {"express", "normal"}]
    /\ MaxProviderAttempts \in Nat \ {0}

VARIABLES
    assigned,   \* assigned[c]: the partitions c reads in this generation
    rpos,       \* rpos[p]: offset the reader of p fetches next
    cpc,        \* cpc[c]: where c is in runWorker / Process
    rec,        \* rec[c]: message id in the record being processed
    part,       \* part[c], off[c]: where that record came from
    off,
    try,        \* try[c]: attempt number of sendWithRetry
    delivered,  \* messages the provider has accepted
    calls       \* history: calls[m] provider calls for message m

readerVars == <<assigned, rpos>>
jobVars == <<cpc, rec, part, off, try>>
consumerVars == <<assigned, rpos, cpc, rec, part, off, try, delivered, calls>>

ConsumerPC ==
    {"fetch", "process", "lookup", "send", "sent", "failed", "dlq", "commit"}

\* Partition assignments the group coordinator can make: a partition goes to
\* one member of the group of its topic, if the group has members at all.
Assignments ==
    {f \in [Consumers -> SUBSET Partitions] :
        /\ \A c \in Consumers : \A p \in f[c] : PartitionTopic[p] = LaneOf[c]
        /\ \A c, d \in Consumers : c # d => f[c] \cap f[d] = {}
        /\ \A c \in Consumers : \A p \in Partitions :
              LaneOf[c] = PartitionTopic[p] => \E d \in Consumers : p \in f[d]}

\* Where c has claimed the message and not yet recorded the outcome.
Sending == {"send", "sent", "failed"}

ConsumerTypeOK ==
    /\ assigned \in [Consumers -> SUBSET Partitions]
    /\ rpos \in [Partitions -> Nat]
    /\ cpc \in [Consumers -> ConsumerPC]
    /\ rec \in [Consumers -> Records]
    /\ part \in [Consumers -> Partitions]
    /\ off \in [Consumers -> Nat]
    /\ try \in [Consumers -> 0..MaxProviderAttempts]
    /\ delivered \subseteq Msgs
    /\ calls \in [Msgs -> Nat]
    /\ \A c \in Consumers : cpc[c] \in Sending => rec[c] \in Msgs

\* part[c] while c has no record.
NoPart == CHOOSE p \in Partitions : TRUE

ConsumerInit ==
    /\ assigned \in Assignments
    /\ rpos = [p \in Partitions |-> 0]
    /\ cpc = [c \in Consumers |-> "fetch"]
    /\ rec = [c \in Consumers |-> BadPayload]
    /\ part = [c \in Consumers |-> NoPart]
    /\ off = [c \in Consumers |-> 0]
    /\ try = [c \in Consumers |-> 0]
    /\ delivered = {}
    /\ calls = [m \in Msgs |-> 0]

\* Is a running consumer between claiming message m and recording the outcome?
HeldByConsumer(m) == \E c \in Consumers : cpc[c] \in Sending /\ rec[c] = m

\* runWorker goes on with the next record: the current one is forgotten,
\* whether or not it was committed.
NextRecord(c) ==
    /\ cpc' = [cpc EXCEPT ![c] = "fetch"]
    /\ rec' = [rec EXCEPT ![c] = BadPayload]
    /\ part' = [part EXCEPT ![c] = NoPart]
    /\ off' = [off EXCEPT ![c] = 0]
    /\ try' = [try EXCEPT ![c] = 0]

Step(c, pc) ==
    /\ cpc' = [cpc EXCEPT ![c] = pc]
    /\ UNCHANGED <<rec, part, off, try>>

-------------------------------------------------------------------------------
\* ACTION: Fetch hands out the next record of a partition assigned to c.  (A
\* Fetch error changes nothing: runWorker sleeps and fetches again.)
Fetch(c, p) ==
    /\ cpc[c] = "fetch" /\ p \in assigned[c]
    /\ rpos[p] < Len(log[p])
    /\ rpos' = [rpos EXCEPT ![p] = @ + 1]
    /\ cpc' = [cpc EXCEPT ![c] = "process"]
    /\ rec' = [rec EXCEPT ![c] = RecordAt(p, rpos[p])]
    /\ part' = [part EXCEPT ![c] = p]
    /\ off' = [off EXCEPT ![c] = rpos[p]]
    /\ UNCHANGED <<repoVars, brokerVars, assigned, try, delivered, calls>>

\* ACTION: Process rejects a payload it cannot read; toDLQ swallows its error.
RejectPayload(c) ==
    /\ cpc[c] = "process" /\ rec[c] = BadPayload
    /\ PublishDLQ("invalid_payload", BadPayload) \/ UNCHANGED dlq
    /\ Step(c, "commit")
    /\ UNCHANGED <<repoVars, log, committed, readerVars, delivered, calls>>

\* ACTION: the UPDATE of ClaimMessageForSending matches.  In the second
\* alternative the caller gets an error, and the row may have been claimed.
ClaimForSending(c) ==
    /\ cpc[c] = "process" /\ rec[c] \in Msgs
    /\ CanClaimMessage(rec[c])
    /\ \/ /\ ClaimMessage(rec[c]) /\ NoFault
          /\ cpc' = [cpc EXCEPT ![c] = "send"]
          /\ try' = [try EXCEPT ![c] = 1]
          /\ UNCHANGED <<rec, part, off>>
       \/ /\ ClaimMessage(rec[c]) \/ UNCHANGED tables
          /\ Fault("db")
          /\ NextRecord(c)
    /\ UNCHANGED <<brokerVars, readerVars, delivered, calls>>

\* ACTION: the UPDATE matches no row; the status is read by another statement.
ClaimMisses(c) ==
    /\ cpc[c] = "process" /\ rec[c] # BadPayload
    /\ rec[c] \in Msgs => ~CanClaimMessage(rec[c])
    /\ \/ NoFault /\ Step(c, "lookup")
       \/ Fault("db") /\ NextRecord(c)
    /\ UNCHANGED <<tables, brokerVars, readerVars, delivered, calls>>

\* What the SELECT after a miss sees: already sent, already failed or no row
\* (commit), anything else is in flight (do not commit).
Settled(r) == r \in Msgs => msgStatus[r] \in {"none", "sent", "failed"}

\* ACTION: the outcome of ClaimMessageForSending when it did not acquire.
Lookup(c) ==
    /\ cpc[c] = "lookup"
    /\ \/ Settled(rec[c]) /\ NoFault /\ Step(c, "commit")
       \/ ~Settled(rec[c]) /\ NoFault /\ NextRecord(c)
       \/ Fault("db") /\ NextRecord(c)
    /\ UNCHANGED <<tables, brokerVars, readerVars, delivered, calls>>

\* Mutants: the error of the last attempt counts as success; it is not
\* recorded; it is left for later, like a cancellation.
LastTrySent == "sent"
LastTryCommits == "commit"
LastTryForgets == "fetch"
\* Where the error of the last attempt leads.
LastTry == "failed"

\* ACTION: one provider call of sendWithRetry.  An error does not tell whether
\* the provider accepted the message; Canceled and DeadlineExceeded end the
\* retries and leave the message as it is (errRetryLater).
SendWithRetry(c) ==
    /\ cpc[c] = "send"
    /\ calls' = [calls EXCEPT ![rec[c]] = @ + 1]
    /\ \/ /\ delivered' = delivered \cup {rec[c]}
          /\ NoFault
          /\ Step(c, "sent")
       \/ /\ delivered' \in {delivered, delivered \cup {rec[c]}}
          /\ NoFault
          /\ IF try[c] = MaxProviderAttempts
             THEN Step(c, LastTry)
             ELSE /\ try' = [try EXCEPT ![c] = @ + 1]
                  /\ UNCHANGED <<cpc, rec, part, off>>
       \/ /\ delivered' \in {delivered, delivered \cup {rec[c]}}
          /\ Fault("cancel")
          /\ NextRecord(c)
    /\ UNCHANGED <<tables, brokerVars, readerVars>>

\* ACTION: the provider accepted; MarkMessageSent.
MarkSent(c) ==
    /\ cpc[c] = "sent"
    /\ \/ MarkMessageSent(rec[c]) /\ NoFault /\ Step(c, "commit")
       \/ /\ MarkMessageSent(rec[c]) \/ UNCHANGED tables
          /\ Fault("db")
          /\ NextRecord(c)
    /\ UNCHANGED <<brokerVars, readerVars, delivered, calls>>

\* ACTION: all attempts failed; MarkMessageFailed.
MarkFailed(c) ==
    /\ cpc[c] = "failed"
    /\ \/ MarkMessageFailed(rec[c]) /\ NoFault /\ Step(c, "dlq")
       \/ /\ MarkMessageFailed(rec[c]) \/ UNCHANGED tables
          /\ Fault("db")
          /\ NextRecord(c)
    /\ UNCHANGED <<brokerVars, readerVars, delivered, calls>>

\* ACTION: toDLQ after a provider failure; its error is only logged.
ToDLQ(c) ==
    /\ cpc[c] = "dlq"
    /\ PublishDLQ("provider_error", rec[c]) \/ UNCHANGED dlq
    /\ Step(c, "commit")
    /\ UNCHANGED <<repoVars, log, committed, readerVars, delivered, calls>>

\* ACTION: Commit of the record; an error is only logged.
Commit(c) ==
    /\ cpc[c] = "commit"
    /\ \/ CommitOffset(part[c], off[c]) /\ NoFault
       \/ UNCHANGED committed /\ Fault("kafka")
    /\ NextRecord(c)
    /\ UNCHANGED <<tables, log, dlq, readerVars, delivered, calls>>

ConsumerStep(c) ==
    \/ \E p \in Partitions : Fetch(c, p)
    \/ RejectPayload(c)
    \/ ClaimForSending(c)
    \/ ClaimMisses(c)
    \/ Lookup(c)
    \/ SendWithRetry(c)
    \/ MarkSent(c)
    \/ MarkFailed(c)
    \/ ToDLQ(c)
    \/ Commit(c)

\* A new generation of the group of lane t: any assignment of its partitions,
\* and the readers start again from the committed offsets.
Reassign(t) ==
    /\ \E f \in Assignments :
          assigned' = [c \in Consumers |-> IF LaneOf[c] = t THEN f[c] ELSE assigned[c]]
    /\ rpos' = [p \in Partitions |-> IF PartitionTopic[p] = t THEN committed[p] ELSE rpos[p]]

\* ACTION: the group of lane t rebalances while its members go on working.
Rebalance(t) ==
    /\ Fault("rebalance")
    /\ Reassign(t)
    /\ UNCHANGED <<tables, brokerVars, jobVars, delivered, calls>>

\* ACTION: some other producer writes a record to partition p.
ForeignRecord(p, r) ==
    /\ Fault("foreign")
    /\ AppendForeign(p, r)
    /\ UNCHANGED <<tables, committed, dlq, consumerVars>>

\* Time makes a sending claim stale: of itself when nobody works on the
\* message any more, and as a fault (a slow provider) while somebody does.
AgeMessageClaim(m) ==
    /\ MessageClaimAges(m)
    /\ IF HeldByConsumer(m) THEN Fault("slow") ELSE NoFault
    /\ UNCHANGED <<brokerVars, consumerVars>>
===============================================================================
