---------------------------- MODULE SinkDelivery ----------------------------
(* One signal from its buffer to its destination: main starts the sink that is *)
(* configured and connects it to the signal's buffer.  The properties say what *)
(* an acknowledgement means at each destination.                               *)
EXTENDS StarRocksSink, IcebergSink, KafkaSink, ElasticsearchSink, ParquetSink

Sinks == {"iceberg", "starrocks", "elasticsearch", "kafka", "parquet"}

vars == <<feedVars, starRocksVars, icebergVars, kafkaVars, tasks, parquetVars>>

Init ==
    /\ configured \in Sinks
    /\ FeedInit
    /\ StarRocksInit /\ (configured # "starrocks" => mode = "V1")
    /\ IcebergInit /\ (configured # "iceberg" => ~catalog)
    /\ KafkaInit /\ (configured # "kafka" => ~keyed)
    /\ ElasticsearchInit
    /\ ParquetInit

-----------------------------------------------------------------------------
(* The sink that main's chain of configurations selects is the one that runs.  *)

RunStarRocks ==
    /\ configured = "starrocks"
    /\ StarRocksNext
    /\ UNCHANGED <<icebergVars, kafkaVars, tasks, parquetVars>>

RunIceberg ==
    /\ configured = "iceberg"
    /\ IcebergNext
    /\ UNCHANGED <<starRocksVars, kafkaVars, tasks, parquetVars>>

RunKafka ==
    /\ configured = "kafka"
    /\ KafkaNext
    /\ UNCHANGED <<starRocksVars, icebergVars, tasks, parquetVars>>

RunElasticsearch ==
    /\ configured = "elasticsearch"
    /\ ElasticsearchNext
    /\ UNCHANGED <<starRocksVars, icebergVars, kafkaVars, parquetVars>>

RunParquet ==
    /\ configured = "parquet"
    /\ ParquetNext
    /\ UNCHANGED <<starRocksVars, icebergVars, kafkaVars, tasks>>

Next == RunStarRocks \/ RunIceberg \/ RunKafka \/ RunElasticsearch \/ RunParquet

\* A run loop that can take a step takes it, a server finishes or aborts what it
\* was given, and a spawned upload ends.
Fairness ==
    /\ WF_vars(configured = "starrocks" /\ StarRocksSteps /\ UNCHANGED <<icebergVars, kafkaVars, tasks, parquetVars>>)
    /\ WF_vars(configured = "starrocks" /\ ServerEndsLoad /\ UNCHANGED <<icebergVars, kafkaVars, tasks, parquetVars>>)
    /\ WF_vars(configured = "iceberg" /\ IcebergSteps /\ UNCHANGED <<starRocksVars, kafkaVars, tasks, parquetVars>>)
    /\ WF_vars(configured = "kafka" /\ KafkaSteps /\ UNCHANGED <<starRocksVars, icebergVars, tasks, parquetVars>>)
    /\ WF_vars(configured = "elasticsearch" /\ ElasticsearchSteps /\ UNCHANGED <<starRocksVars, icebergVars, kafkaVars, parquetVars>>)
    /\ WF_vars(configured = "parquet" /\ ParquetSteps /\ UNCHANGED <<starRocksVars, icebergVars, kafkaVars, tasks>>)

Spec == Init /\ [][Next]_vars /\ Fairness

TypeOK ==
    /\ configured \in Sinks
    /\ FeedTypeOK /\ StarRocksTypeOK /\ IcebergTypeOK /\ KafkaTypeOK
    /\ configured = "elasticsearch" => ElasticsearchTypeOK
    /\ ParquetTypeOK

-----------------------------------------------------------------------------
(* What the destinations hold                                                 *)

HasPart(s, p) == \E i \in 1..Len(stored) : s \in Seqs(stored[i]) /\ stored[i].part = p

\* The messages a lease becomes at the destination.
PartsOf == IF configured = "kafka" THEN 1..SliceCount ELSE {0}

\* An acknowledged batch that has rows is at the destination, all of it, or in
\* the dead-letter store: through lost answers, labels in use, partial bulk
\* failures, retries and restarts, no run loop acknowledges a lease whose rows
\* are nowhere.  (Parquet acknowledges first: see CleanStopStores.  Iceberg
\* without a catalog only simulates.)
AckedIsStored ==
    configured \in {"starrocks", "kafka", "elasticsearch"} \/ (configured = "iceberg" /\ catalog) =>
        \A s \in done \ (quarantined \cup Empty) : \A p \in PartsOf : HasPart(s, p)

\* No retry makes rows visible again that the destination can recognise.  A
\* StarRocks label keeps a lease from being loaded twice, and Iceberg's delivery
\* tokens keep one from being committed when all of it is in the table, however
\* the leases were cut; through lost answers, late requests and restarts.
OncePerLease ==
    /\ configured = "starrocks" =>
           \A i, j \in 1..Len(stored) : stored[i] = stored[j] => i = j
    /\ configured = "iceberg" =>
           \A j \in 1..Len(stored) : ~(Seqs(stored[j]) \subseteq UNION {Seqs(stored[i]) : i \in 1..(j-1)})

\* Kafka and Iceberg have one lease in flight: until a restart, what becomes
\* visible of a lease is never older than what is visible already.
StoredInOrder ==
    configured \in {"kafka", "iceberg"} /\ restarts = 0 =>
        \A i, j \in 1..Len(stored) :
            i < j /\ stored[i].part = stored[j].part => stored[i].first <= stored[j].first

\* The Parquet sink acknowledges batches it has not written.  When its run
\* returns Ok every row it received is in exactly one uploaded file: a row in
\* none or a failed upload makes it return an error.
CleanStopStores ==
    configured = "parquet" /\ stage = "ended" /\ result = "Ok" =>
        \A r \in AllRows :
            Cardinality({i \in 1..Len(stored) :
                stored[i] = [first |-> r[1], last |-> r[1], part |-> r[2]]}) = 1

\* The bookkeeping of the Parquet sink's open writers agrees with itself, and
\* the limits hold: every open writer can be found for eviction, and the memory
\* counter is what they buffer.
WriterPoolBounded ==
    configured = "parquet" =>
        /\ Range(lru) = DOMAIN writers /\ Len(lru) = Cardinality(DOMAIN writers)
        /\ Len(lru) <= MaxOpen
        /\ memory = Cardinality(UNION {writers[p].rows : p \in DOMAIN writers})
        /\ MemoryLimit > 0 => memory <= MemoryLimit
        /\ \A p \in DOMAIN writers : MaxRecords > 0 => Cardinality(writers[p].rows) <= MaxRecords

\* Once the destination stops failing, everything that arrived is resolved, or
\* the sink has given up with an error the supervisor sees; the Parquet sink
\* ends once its input does.
EverythingIsResolved ==
    <>[](IF configured = "parquet"
         THEN arrived = MaxSeq => stage = "ended"
         ELSE loop = "failed" \/ done = 1..arrived)

=============================================================================
