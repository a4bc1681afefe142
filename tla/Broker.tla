-------------------------------- MODULE Broker --------------------------------
(***************************************************************************)
(* Kafka as the gateway uses it (utils/kafka): partitions that only grow,   *)
(* one committed offset per partition and consumer group, and the DLQ       *)
(* topic.  The broker itself is external; its producers and readers are     *)
(* OutboxWorker.tla and SMSConsumer.tla.                                    *)
(***************************************************************************)
EXTENDS Repo, Sequences

CONSTANTS
    Partitions,     \* partitions of both topics
    PartitionTopic, \* PartitionTopic[p]: the topic p belongs to
    PartitionOf     \* PartitionOf[m]: where the Hash balancer puts m's recipient

ASSUME PartitionAssumption ==
    /\ Partitions # {}
    /\ PartitionTopic \in [Partitions -> {"express", "normal"}]
    /\ PartitionOf \in [Msgs -> Partitions]
    /\ \A m \in Msgs : PartitionTopic[PartitionOf[m]] = Topic[m]

\* Records some other producer writes: a payload Process rejects (bad JSON or
\* messageId 0), and one whose messageId has no row.
BadPayload == 0
UnknownMessage == -1
Foreign == {BadPayload, UnknownMessage}
Records == Msgs \cup Foreign

DLQReasons == {"outbox_exhausted", "provider_error", "invalid_payload"}

VARIABLES
    log,        \* log[p]: the records of partition p, oldest first
    committed,  \* committed[p]: offset of the first record not committed
    dlq         \* <<reason, id>> pairs on the DLQ topic

brokerVars == <<log, committed, dlq>>

BrokerTypeOK ==
    /\ log \in [Partitions -> Seq(Records)]
    /\ committed \in [Partitions -> Nat]
    /\ dlq \subseteq DLQReasons \X Records

BrokerInit ==
    /\ log = [p \in Partitions |-> <<>>]
    /\ committed = [p \in Partitions |-> 0]
    /\ dlq = {}

\* The record of message m reaches the leader of its partition.  A Publish
\* writes it once: copies made by retries inside the Kafka client are not told
\* apart from the first one.
AppendRecord(m) == log' = [log EXCEPT ![PartitionOf[m]] = Append(@, m)]

AppendForeign(p, r) == log' = [log EXCEPT ![p] = Append(@, r)]

\* OffsetCommit for the record at offset `off' (0-based): the broker stores
\* what it is told, also when that is lower than what it had.
CommitOffset(p, off) == committed' = [committed EXCEPT ![p] = off + 1]

\* PublishDLQ: the record is on the DLQ topic.
PublishDLQ(reason, id) == dlq' = dlq \cup {<<reason, id>>}

\* The record at 0-based offset `off'.
RecordAt(p, off) == log[p][off + 1]
InLog(m) == \E i \in 1..Len(log[PartitionOf[m]]) : log[PartitionOf[m]][i] = m
===============================================================================
