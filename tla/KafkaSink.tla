------------------------------ MODULE KafkaSink ------------------------------
(* The Kafka sink: a lease is one message, or with a partition key one message *)
(* per key.  All messages are handed to the producer before the first delivery *)
(* is awaited, and the worst outcome decides for the whole lease.              *)
EXTENDS LeaseFeed

CONSTANT KeyValues  \* Distinct values of the partition key in a lease.

ASSUME KafkaAssumption == KeyValues \in Nat \ {0}

VARIABLES
    keyed,        \* partition_key is configured.
    phase,        \* "idle", "enqueue" or "await".
    queued,       \* Slices in the producer whose delivery is not yet reported.
    cursor,       \* Slice the loop of the current phase is at.
    failure       \* The worst failure so far, or "none".

kafkaVars == <<keyed, phase, queued, cursor, failure>>

KafkaTypeOK ==
    /\ keyed \in BOOLEAN
    /\ phase \in {"idle", "enqueue", "await"}
    /\ queued \subseteq 1..KeyValues
    /\ cursor \in 1..(KeyValues + 1)
    /\ failure \in {"none", "Transient", "Rejected", "Fatal"}

KafkaInit ==
    /\ keyed \in BOOLEAN
    /\ phase = "idle"
    /\ queued = {}
    /\ cursor = 1
    /\ failure = "none"

KafkaLease == CHOOSE l \in held : TRUE

\* prepare_kafka_slices and extract_partition_slices: the slices of a lease.
SliceCount == IF keyed THEN KeyValues ELSE 1

-----------------------------------------------------------------------------
\* classify_kafka_error, by the kind of error code.
ClassifyKafka(err) ==
    CASE err \in {"queueFull", "timedOut", "brokerDown"} -> "Transient"
      [] err \in {"tooLarge", "unknownTopic"} -> "Rejected"
      [] err \in {"authentication", "fenced"} -> "Fatal"

KafkaErrors == {"timedOut", "tooLarge", "authentication"}

Severity(class) ==
    CASE class = "none" -> 0 [] class = "Transient" -> 1
      [] class = "Rejected" -> 2 [] class = "Fatal" -> 3

\* merge_failure_class.
Merge(current, class) ==
    IF Severity(current) >= Severity(class) THEN current ELSE class

SameLease == UNCHANGED <<configured, workload, arrived, done, quarantined, held, nacked, loop, restarts>>

\* The broker takes the message of slice p of the held lease.
Delivered(p) == Visible(KafkaLease.first, KafkaLease.last, p)

\* The delivery of the slice at the cursor fails; a message that timed out may
\* have been stored by the broker.
DeliveryFails ==
    \E err \in KafkaErrors :
        /\ failure' = Merge(failure, ClassifyKafka(err))
        /\ UNCHANGED stored \/ (err = "timedOut" /\ Delivered(cursor))

-----------------------------------------------------------------------------
(* run and send_prepared_slices                                               *)

StartSlices(l) ==
    /\ phase = "idle" /\ held = {}
    /\ Take(l)
    /\ ~(Seqs(l) \subseteq Empty)
    /\ Seqs(l) \cap Malformed = {}
    /\ phase' = "enqueue" /\ cursor' = 1 /\ failure' = "none"
    /\ UNCHANGED <<configured, workload, arrived, done, quarantined, loop, faults, restarts, stored, keyed, queued>>

RejectSlices(l) ==
    /\ phase = "idle"
    /\ RejectUnprepared(l)
    /\ UNCHANGED kafkaVars

SkipEmptySlices(l) ==
    /\ phase = "idle"
    /\ AckEmpty(l)
    /\ UNCHANGED kafkaVars

\* The producer takes the message, is full (then this message alone is sent and
\* awaited), or refuses it.
EnqueueSlice ==
    /\ phase = "enqueue" /\ cursor <= SliceCount
    /\ cursor' = cursor + 1
    /\ \/ /\ SliceCount > 1
          /\ queued' = queued \cup {cursor}
          /\ UNCHANGED <<failure, stored, faults>>
       \/ /\ IF SliceCount > 1 THEN Fault ELSE UNCHANGED faults
          /\ Delivered(cursor)
          /\ UNCHANGED <<queued, failure>>
       \/ /\ Fault
          /\ DeliveryFails
          /\ UNCHANGED queued
    /\ SameLease /\ UNCHANGED <<keyed, phase>>

\* The deliveries are awaited in the order of the slices.
BeginAwait ==
    /\ phase = "enqueue" /\ cursor > SliceCount
    /\ phase' = "await" /\ cursor' = 1
    /\ SameLease /\ UNCHANGED <<keyed, queued, failure, stored, faults>>

\* Mutant: a failed delivery report is only logged.
AwaitIgnoresFailure ==
    /\ phase = "await" /\ cursor <= SliceCount
    /\ cursor' = cursor + 1
    /\ queued' = queued \ {cursor}
    /\ \/ cursor \notin queued /\ UNCHANGED <<faults, stored>>
       \/ cursor \in queued /\ Delivered(cursor) /\ UNCHANGED faults
       \/ cursor \in queued /\ Fault /\ UNCHANGED stored
    /\ UNCHANGED failure
    /\ SameLease /\ UNCHANGED <<keyed, phase>>

AwaitDelivery ==
    /\ phase = "await" /\ cursor <= SliceCount
    /\ cursor' = cursor + 1
    /\ queued' = queued \ {cursor}
    /\ \/ cursor \notin queued /\ UNCHANGED <<failure, faults, stored>>
       \/ cursor \in queued /\ Delivered(cursor) /\ UNCHANGED <<failure, faults>>
       \/ /\ cursor \in queued /\ Fault
          /\ DeliveryFails
    /\ SameLease /\ UNCHANGED <<keyed, phase>>

\* The producer was torn down under the sink: run returns an error at once, and
\* what is still queued may or may not be stored.
DeliveryCancelled ==
    /\ phase = "await" /\ cursor \in queued
    /\ Fault
    /\ FailBuffer(KafkaLease)
    /\ phase' = "idle" /\ queued' = {} /\ cursor' = 1 /\ failure' = "none"
    /\ Delivered(cursor) \/ UNCHANGED stored
    /\ UNCHANGED <<configured, workload, arrived, restarts, keyed>>

FinishSlices ==
    /\ phase = "await" /\ cursor > SliceCount
    /\ IF failure = "none" THEN Ack(KafkaLease) ELSE Nack(KafkaLease, failure)
    /\ phase' = "idle" /\ cursor' = 1 /\ failure' = "none"
    /\ UNCHANGED <<configured, workload, arrived, restarts, keyed, queued, stored, faults>>

RestartKafka ==
    /\ Restart
    /\ phase' = "idle" /\ queued' = {} /\ cursor' = 1 /\ failure' = "none"
    /\ UNCHANGED keyed

KafkaSteps ==
    \/ \E l \in NextLeases : StartSlices(l) \/ RejectSlices(l) \/ SkipEmptySlices(l)
    \/ EnqueueSlice \/ BeginAwait \/ AwaitDelivery \/ DeliveryCancelled \/ FinishSlices

KafkaNext ==
    \/ KafkaSteps
    \/ RestartKafka
    \/ Arrive /\ UNCHANGED kafkaVars

=============================================================================
