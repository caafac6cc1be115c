-------------------------- MODULE StreamReceivers --------------------------
(***************************************************************************)
(* The event receivers that start workflows and transactions for messages  *)
(* of a broker: the Kafka consumer (kafka/kafka.ts, dbos-kafkajs) and the  *)
(* SQS receiver (dbos-sqs).  The brokers are external: Kafka hands out a   *)
(* partition in order and again from the committed offset after a failure  *)
(* or a restart; SQS hides a message while it is being handled, shows it   *)
(* again when it was not deleted in time, and may deliver it twice.        *)
(***************************************************************************)
EXTENDS Naturals, FiniteSets

CONSTANTS LastOffset,     \* the messages of one Kafka partition
          Method,         \* what consumes them: "workflow" or "transaction"
          Poison,         \* the offsets on which the transaction throws
          MaxRetries,     \* attempts to subscribe
          Messages,       \* the messages of an SQS queue
          WFKey,          \* [Messages -> workflow UUID]: getWFKey or MessageId
          MaxStreamFaults

ASSUME StreamAssumption ==
    /\ LastOffset \in Nat /\ Poison \subseteq 1..LastOffset
    /\ MaxRetries \in Nat /\ MaxStreamFaults \in Nat

Offsets == 1..LastOffset

VARIABLES
    kafka,       \* [st, tries, at]: the consumer and the offset in its hands
    committed,   \* the offset Kafka hands out next
    topicExists,
    ran,         \* the workflow UUIDs the executor has on record
    sqs,         \* [st, msg, down]: the listener's loop
    queue,       \* the SQS messages not deleted
    hidden,      \* those of them in someone's hands
    streamFaults

streamVars == <<kafka, committed, topicExists, ran, sqs, queue, hidden, streamFaults>>

StreamInit ==
    /\ kafka = [st |-> "connect", tries |-> 0, at |-> 0]
    /\ committed = 1
    /\ topicExists \in BOOLEAN
    /\ ran = {}
    /\ sqs = [st |-> "validate", msg |-> {}, down |-> FALSE]
    /\ queue = Messages /\ hidden = {}
    /\ streamFaults = MaxStreamFaults

sqsVars == <<sqs, queue, hidden>>

-----------------------------------------------------------------------------
(* Kafka: consumer.subscribe, retried while the topic is not known. *)
Subscribe ==
    /\ kafka.st = "connect" /\ kafka.tries < MaxRetries
    /\ kafka' = IF topicExists THEN [kafka EXCEPT !.st = "run"]
                ELSE IF kafka.tries + 1 < MaxRetries THEN [kafka EXCEPT !.tries = @ + 1]
                ELSE [kafka EXCEPT !.st = "failed"]
    /\ UNCHANGED <<committed, topicExists, ran, sqsVars, streamFaults>>

TopicCreated ==
    /\ ~topicExists /\ topicExists' = TRUE
    /\ UNCHANGED <<kafka, committed, ran, sqsVars, streamFaults>>

(* The broker delivers the partition's next message. *)
Fetch ==
    /\ kafka.st = "run" /\ kafka.at = 0 /\ committed \in Offsets
    /\ kafka' = [kafka EXCEPT !.at = committed]
    /\ UNCHANGED <<committed, topicExists, ran, sqsVars, streamFaults>>

KafkaUUID(o) == <<"kafka-unique-id", o>>

(* eachMessage: a workflow is started, a transaction is run to its end; an  *)
(* error of the transaction, recorded under the UUID, comes back from       *)
(* eachMessage and the broker will deliver the message again.               *)
EachMessage ==
    /\ kafka.st = "run" /\ kafka.at # 0
    /\ ran' = ran \cup {KafkaUUID(kafka.at)}
    /\ kafka' = [kafka EXCEPT !.st = IF Method = "transaction" /\ kafka.at \in Poison
                                     THEN "run" ELSE "commit",
                              !.at = IF Method = "transaction" /\ kafka.at \in Poison THEN 0 ELSE @]
    /\ UNCHANGED <<committed, topicExists, sqsVars, streamFaults>>

(* The broker's client commits the offset once eachMessage has resolved. *)
CommitOffset ==
    /\ kafka.st = "commit"
    /\ committed' = kafka.at + 1
    /\ kafka' = [kafka EXCEPT !.st = "run", !.at = 0]
    /\ UNCHANGED <<topicExists, ran, sqsVars, streamFaults>>

(* The process restarts, or the group is rebalanced with work in hand. *)
KafkaRestart ==
    /\ streamFaults > 0 /\ kafka.st \in {"run", "commit", "failed"}
    /\ kafka' = [st |-> "connect", tries |-> 0, at |-> 0]
    /\ streamFaults' = streamFaults - 1
    /\ UNCHANGED <<committed, topicExists, ran, sqsVars>>

Disconnect ==
    /\ kafka.st = "run" /\ kafka.at = 0 /\ sqs.down
    /\ kafka' = [kafka EXCEPT !.st = "closed"]
    /\ UNCHANGED <<committed, topicExists, ran, sqsVars, streamFaults>>

-----------------------------------------------------------------------------
kafkaVars == <<kafka, committed, topicExists>>

(* SQS: initialize checks the queue once; a queue that cannot be reached     *)
(* fails the start of the executor.                                          *)
ValidateConnection ==
    /\ sqs.st = "validate"
    /\ \/ sqs' = [sqs EXCEPT !.st = "poll"] /\ UNCHANGED streamFaults
       \/ /\ streamFaults > 0 /\ streamFaults' = streamFaults - 1
          /\ sqs' = [sqs EXCEPT !.st = "failed"]
    /\ UNCHANGED <<kafkaVars, ran, queue, hidden>>

(* A long poll for one message at a time. *)
Poll ==
    /\ sqs.st = "poll"
    /\ IF sqs.down THEN sqs' = [sqs EXCEPT !.st = "closed"] /\ UNCHANGED hidden
       ELSE \E m \in queue \ hidden :
              /\ sqs' = [sqs EXCEPT !.st = "start", !.msg = {m}]
              /\ hidden' = hidden \cup {m}
    /\ UNCHANGED <<kafkaVars, ran, queue, streamFaults>>

StartForMessage ==
    /\ sqs.st = "start"
    /\ ran' = ran \cup {<<"sqs", WFKey[m]>> : m \in sqs.msg}
    /\ sqs' = [sqs EXCEPT !.st = "delete"]
    /\ UNCHANGED <<kafkaVars, queue, hidden, streamFaults>>

(* Mutant of DeleteMessage: deleted before the workflow is started. *)
DeleteFirst ==
    /\ sqs.st \in {"start", "delete"}
    /\ queue' = queue \ sqs.msg
    /\ hidden' = hidden \ sqs.msg
    /\ sqs' = IF sqs.st = "start" THEN sqs ELSE [sqs EXCEPT !.st = "poll", !.msg = {}]
    /\ UNCHANGED <<kafkaVars, ran, streamFaults>>

DeleteMessage ==
    /\ sqs.st = "delete"
    /\ queue' = queue \ sqs.msg
    /\ hidden' = hidden \ sqs.msg
    /\ sqs' = [sqs EXCEPT !.st = "poll", !.msg = {}]
    /\ UNCHANGED <<kafkaVars, ran, streamFaults>>

(* Mutant of ListenerFails: the error is not caught inside the loop. *)
ListenerDies ==
    /\ streamFaults > 0 /\ sqs.st \in {"start", "delete"}
    /\ sqs' = [sqs EXCEPT !.st = "dead", !.msg = {}]
    /\ streamFaults' = streamFaults - 1
    /\ UNCHANGED <<kafkaVars, ran, queue, hidden>>

(* Any call of the loop fails: it is logged and the loop goes on; a crash    *)
(* comes to the same, the message being the broker's again.                  *)
ListenerFails ==
    /\ streamFaults > 0 /\ sqs.st \in {"start", "delete"}
    /\ sqs' = [sqs EXCEPT !.st = "poll", !.msg = {}]
    /\ streamFaults' = streamFaults - 1
    /\ UNCHANGED <<kafkaVars, ran, queue, hidden>>

(* The visibility timeout of a message, in our hands or not, is over. *)
Reappear ==
    \E m \in hidden :
        /\ m \notin sqs.msg \/ streamFaults > 0
        /\ hidden' = hidden \ {m}
        /\ streamFaults' = IF m \in sqs.msg THEN streamFaults - 1 ELSE streamFaults
        /\ UNCHANGED <<kafkaVars, ran, sqs, queue>>

(* destroy: the flag is set, and the listener is awaited. *)
destroyReceivers ==
    /\ ~sqs.down
    /\ sqs' = [sqs EXCEPT !.down = TRUE]
    /\ UNCHANGED <<kafkaVars, ran, queue, hidden, streamFaults>>

KafkaStep == Subscribe \/ Fetch \/ EachMessage \/ CommitOffset \/ Disconnect
SqsStep == ValidateConnection \/ Poll \/ StartForMessage \/ DeleteMessage \/ Reappear

StreamNext ==
    \/ KafkaStep \/ SqsStep \/ TopicCreated
    \/ KafkaRestart \/ ListenerFails \/ destroyReceivers

StreamSpec == StreamInit /\ [][StreamNext]_streamVars

-----------------------------------------------------------------------------
(* No message is lost: one that the broker will not deliver again (its       *)
(* offset committed, or deleted from the queue) has its workflow or          *)
(* transaction on record, whatever failed between starting it and            *)
(* acknowledging the message.                                                *)
NoMessageLost ==
    /\ \A o \in Offsets : o < committed => KafkaUUID(o) \in ran
    /\ \A m \in Messages \ queue : <<"sqs", WFKey[m]>> \in ran

Blocked(o) == Method = "transaction" /\ \E b \in Poison : b < o

(* Every message is handled in the end, unless the receivers are shut down,  *)
(* the topic never appeared, or an earlier message of the partition is a     *)
(* transaction that throws each time it is delivered.                        *)
Handled ==
    /\ \A o \in Offsets : Blocked(o) \/ KafkaUUID(o) \in ran \/ sqs.down \/ kafka.st = "failed"
    /\ \A m \in Messages : <<"sqs", WFKey[m]>> \in ran \/ sqs.down \/ sqs.st = "failed"
=============================================================================
