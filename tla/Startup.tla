------------------------------- MODULE Startup -------------------------------
(* From the loaded configuration to a running pipeline: validate_config, the   *)
(* buffer the sink gets, and the Elasticsearch sink's startup validation.      *)
(* An option is a sequence of at most one value.                               *)
EXTENDS Naturals, Sequences, FiniteSets, SequencesExt, Jobs, Places

CONSTANTS
    WordMax,          \* u64::MAX.
    DefaultBuffer,    \* BufferConfig::default().
    IcebergBatch,     \* Iceberg's own default for max_batch_size_bytes.
    WasmConcurrency,  \* MAX_CONCURRENCY.
    StartJobs         \* Configurations, with what the cluster is and answers.

\* The fields of a BufferConfig that matter here.
Words == 0..WordMax
BufferConfigs ==
    [mode : {"memory", "disk"}, diskPath : BOOLEAN, segmentBytes : Words, bufferBytes : Words,
     batchBytes : Words, records : Seq(Words), intervalSec : Words, leases : Words,
     attempts : Words, drainSec : Words, onDrain : {"none", "persist", "discard"}]

SignalNames == {"logs", "traces", "metrics"}

IsGiven(option) == option # << >>

SaturatingMul(a, b) == IF a * b > WordMax THEN WordMax ELSE a * b
SaturatingInc(a) == IF a >= WordMax THEN WordMax ELSE a + 1

-----------------------------------------------------------------------------
(* BufferConfig                                                               *)

PerSignalBudget(b) == b.bufferBytes \div 3

\* validate: V5, V1 with checked arithmetic, and V2, V3, V5 of the mode.
BufferIsValid(b) ==
    /\ b.leases >= 1 /\ b.attempts >= 1 /\ b.drainSec >= 1 /\ b.batchBytes >= 1
    /\ b.records # <<0>>
    /\ b.leases + 1 <= WordMax
    /\ b.batchBytes * (b.leases + 1) <= WordMax
    /\ PerSignalBudget(b) >= b.batchBytes * (b.leases + 1)
    /\ b.mode = "disk" =>
          /\ b.diskPath
          /\ b.segmentBytes >= SaturatingMul(b.batchBytes, 2)
          /\ b.segmentBytes <= PerSignalBudget(b) \div 2
    /\ b.mode = "memory" => b.onDrain # "persist"

\* What the program brings along is valid.
ASSUME StartupAssumption ==
    /\ WordMax \in Nat \ {0} /\ IcebergBatch \in Words
    /\ DefaultBuffer \in BufferConfigs /\ BufferIsValid(DefaultBuffer)

EnsureMinBufferBytes(b) ==
    LET least == SaturatingMul(SaturatingMul(b.batchBytes, SaturatingInc(b.leases)), 3)
    IN  IF b.bufferBytes < least THEN [b EXCEPT !.bufferBytes = least] ELSE b

Passthrough == [DefaultBuffer EXCEPT !.records = <<1>>, !.intervalSec = 0]

BufferErr == [ok |-> FALSE, buffer |-> DefaultBuffer]
Checked(b) == IF BufferIsValid(b) THEN [ok |-> TRUE, buffer |-> b] ELSE BufferErr

\* resolve: [<sink>.buffer], the legacy [<sink>.batching], or a default; not both.
ResolveBuffer(sink, passthrough) ==
    CASE IsGiven(sink.buffer) /\ IsGiven(sink.batching) -> BufferErr
      [] IsGiven(sink.buffer) /\ ~IsGiven(sink.batching) -> Checked(sink.buffer[1])
      [] ~IsGiven(sink.buffer) /\ IsGiven(sink.batching) ->
            Checked(EnsureMinBufferBytes([DefaultBuffer EXCEPT
                !.batchBytes = sink.batching[1].batchBytes, !.records = sink.batching[1].records,
                !.intervalSec = sink.batching[1].intervalSec]))
      [] OTHER -> Checked(IF passthrough THEN Passthrough ELSE DefaultBuffer)

\* resolved_buffer_config of Iceberg: its own batch size when nothing is set.
IcebergBuffer(sink) ==
    LET r == ResolveBuffer(sink, FALSE)
    IN  IF r.ok /\ ~IsGiven(sink.buffer) /\ ~IsGiven(sink.batching)
        THEN Checked(EnsureMinBufferBytes([r.buffer EXCEPT !.batchBytes = IcebergBatch]))
        ELSE r

\* Mutant: the number of leases is changed after the buffer was made to fit.
ElasticsearchBufferUnfit(sink) ==
    LET r == ResolveBuffer(sink, TRUE)
    IN  IF r.ok /\ ~IsGiven(sink.buffer)
        THEN [r EXCEPT !.buffer = [EnsureMinBufferBytes(@) EXCEPT !.leases = sink.concurrent]]
        ELSE r

\* resolved_buffer_config of Elasticsearch: one lease for each request.
ElasticsearchBuffer(sink) ==
    LET r == ResolveBuffer(sink, TRUE)
    IN  IF r.ok /\ ~IsGiven(sink.buffer)
        THEN Checked(EnsureMinBufferBytes([r.buffer EXCEPT !.leases = sink.concurrent]))
        ELSE r

EffectiveDrainPolicy(b) ==
    IF b.onDrain # "none" THEN b.onDrain ELSE IF b.mode = "disk" THEN "persist" ELSE "discard"

-----------------------------------------------------------------------------
(* validate of each section                                                   *)

\* TlsConfig::validate.
TlsIsValid(tls) == tls.verify /\ tls.ca \in {"none", "file"}

\* ElasticsearchSinkConfig::validate; the sort keys are parsed later.
ElasticsearchIsValid(s) ==
    /\ s.endpoints # << >> /\ \A i \in 1..Len(s.endpoints) : s.endpoints[i] = "http"
    /\ s.concurrent >= 1 /\ s.payloadBytes >= 1 /\ s.names
    /\ IsGiven(s.batching) =>
          s.batching[1].batchBytes >= 1 /\ s.batching[1].intervalSec >= 1 /\ s.batching[1].records # <<0>>
    /\ TlsIsValid(s.tls)
    /\ ElasticsearchBuffer(s).ok

StarRocksIsValid(s) ==
    /\ TlsIsValid(s.tls) /\ s.endpoints # << >> /\ s.names /\ s.sortKeys
    /\ ResolveBuffer(s, TRUE).ok

KafkaIsValid(s) == s.flushMs # <<0>> /\ s.sortKeys /\ ResolveBuffer(s, TRUE).ok

\* validate_and_build_operator.
ParquetIsValid(s) == s.names /\ s.endpoints # << >> /\ s.maxOpen >= 1

\* Each signal has a table of its own; the sort keys fall back to the default.
IcebergIsValid(s) ==
    LET table(signal) == IF signal \in DOMAIN s.tables THEN s.tables[signal] ELSE s.table
    IN  /\ Cardinality({table(signal) : signal \in SignalNames}) = 3
        /\ IcebergBuffer(s).ok

\* WasmTransformer::validate_config and validate_guest_module.
WasmIsValid(w) ==
    /\ w.concurrency \in 1..WasmConcurrency
    /\ w.onError = "passthrough" => w.allowUnmasked
    /\ w.sizes /\ w.hash \in {"none", "same"}
    /\ \A signal \in SignalNames : signal \in w.fits

\* parse_endpoint_host_port: the port that a scheme stands for.
EndpointPort(e) == IF IsGiven(e.port) THEN e.port[1] ELSE IF e.scheme = "https" THEN 443 ELSE 4317

\* Mutant: only an endpoint that names the listener's own address is noticed.
IsSelfReferentialExact(e, listeners) ==
    \E l \in listeners : l.port = EndpointPort(e) /\ e.host = l.ip

\* is_self_referential_endpoint: a host is a name, localhost, or an address that
\* is loopback, the wildcard, of a local interface or remote.
IsSelfReferential(e, listeners) ==
    \E l \in listeners :
        /\ l.port = EndpointPort(e)
        /\ \/ e.host \in {"localhost", "loopback", "wildcard"} /\ l.ip \in {"loopback", "wildcard"}
           \/ e.host = "wildcard"
           \/ e.host = l.ip
           \/ e.host \in {"loopback", "local"} /\ l.ip = "wildcard"

\* PipelineConfig::validate and TelemetryConfig::validate_with_listeners.
PipelineIsValid(c) ==
    /\ c.channelCapacity >= 1
    /\ c.telemetry.enabled =>
          /\ c.telemetry.named /\ c.telemetry.endpoint.scheme \in {"http", "https", "none"}
          /\ ~IsSelfReferential(c.telemetry.endpoint, {c.grpc, c.http})

AdminIsValid(c) ==
    IsGiven(c.admin) =>
        c.admin[1].ip # "wildcard" /\ c.admin[1].port \notin {c.grpc.port, c.http.port}

FirstSection(order, c) == AtPlaces(order, {i \in 1..Len(order) : order[i] \in DOMAIN c.sinks})[1]

\* The section that validate_config looks at when there are several.
ValidatedSink(c) ==
    FirstSection(<<"iceberg", "elasticsearch", "starrocks", "kafka", "parquet">>, c)

SinkIsValid(kind, s) ==
    CASE kind = "iceberg" -> IcebergIsValid(s)
      [] kind = "elasticsearch" -> ElasticsearchIsValid(s)
      [] kind = "starrocks" -> StarRocksIsValid(s)
      [] kind = "kafka" -> KafkaIsValid(s)
      [] kind = "parquet" -> ParquetIsValid(s)

ValidateConfig(c) ==
    /\ PipelineIsValid(c)
    /\ IsGiven(c.wasm) => WasmIsValid(c.wasm[1])
    /\ DOMAIN c.sinks # {}
    /\ SinkIsValid(ValidatedSink(c), c.sinks[ValidatedSink(c)])
    /\ AdminIsValid(c)

-----------------------------------------------------------------------------
(* Elasticsearch templates                                                    *)

\* The places of the text from which c and then the rest of a pattern match, by
\* those from which the rest does: * stands for any run, ? for one character.
MatchBefore(c, t, rest) ==
    {i \in 0..Len(t) : CASE c = "*" -> \E n \in i..Len(t) : n \in rest
                         [] c = "?" -> i + 1 \in rest
                         [] OTHER -> i + 1 \in rest /\ t[i + 1] = c}

\* pattern_matches, by what is left of the pattern.
MatchRecursive(p, t) ==
    LET from[left \in 0..Len(p)] ==
            IF left = 0 THEN {Len(t)} ELSE MatchBefore(p[Len(p) - left + 1], t, from[left - 1])
    IN  0 \in from[Len(p)]

\* Mutant: the first template that matches is taken.
WinningTemplateFirst(matching) == matching[1]

\* The sort by priority, highest first and otherwise as listed.
WinningTemplate(matching) ==
    matching[CHOOSE i \in 1..Len(matching) : \A j \in 1..Len(matching) :
        \/ matching[j].priority < matching[i].priority
        \/ matching[j].priority = matching[i].priority /\ i <= j]

\* Tier 1, check_list_index_templates_matching.
ListTemplates(node, stream) ==
    LET matching == AtPlaces(node.templates,
            {i \in 1..Len(node.templates) : MatchRecursive(node.templates[i].pattern, stream)})
    IN  CASE node.list = "200" ->
                IF matching = << >> THEN "Definite"
                ELSE IF WinningTemplate(matching).dataStream THEN "Ok" ELSE "Definite"
          [] node.list = "401" -> "Unauthorized"
          [] node.list \in {"403", "404", "405"} -> "Restricted"
          [] node.list = "unsigned" -> "Definite"
          [] OTHER -> "Transport"

\* Tier 2, check_simulate_index_template.
SimulateTemplate(node) ==
    CASE node.simulate = "200" -> IF node.resolves THEN "Ok" ELSE "Definite"
      [] node.simulate = "401" -> "Unauthorized"
      [] node.simulate \in {"403", "404", "405", "unsigned"} -> "Restricted"
      [] OTHER -> "Transport"

\* Tier 3, check_data_stream_exists.
DataStreamExists(node) ==
    CASE node.stream = "200" -> IF node.exists THEN "Ok" ELSE "Restricted"
      [] node.stream = "401" -> "Unauthorized"
      [] node.stream \in {"403", "404", "405", "unsigned"} -> "Restricted"
      [] OTHER -> "Transport"

\* check_get_index_template: a lower tier is asked only if the one above it could
\* not answer.
CheckTemplate(node, stream) ==
    IF ListTemplates(node, stream) # "Restricted" THEN ListTemplates(node, stream)
    ELSE IF SimulateTemplate(node) # "Restricted" THEN SimulateTemplate(node)
    ELSE DataStreamExists(node)

\* validate_index_template: the endpoints in turn.
ValidateIndexTemplate(answers, stream) ==
    \E i \in 1..Len(answers) : CheckTemplate(answers[i], stream) = "Ok"

\* health_check: GET / with a version number, from any endpoint.
HealthCheck(answers) == \E i \in 1..Len(answers) : answers[i].health = "200"

\* validate_startup of the first sink; the other two share its result.
ValidateStartup(s, cluster) ==
    s.validate => HealthCheck(cluster) /\ \A stream \in s.streams : ValidateIndexTemplate(cluster, stream)

-----------------------------------------------------------------------------
(* main                                                                       *)

SinkBufferOf(kind, s) ==
    CASE kind = "iceberg" -> IcebergBuffer(s)
      [] kind = "elasticsearch" -> ElasticsearchBuffer(s)
      [] kind \in {"starrocks", "kafka"} -> ResolveBuffer(s, TRUE)
      [] kind = "parquet" -> [ok |-> TRUE, buffer |-> Passthrough]

\* Mutant: main has the sections in another order.
ActiveSinkOtherOrder(c) ==
    FirstSection(<<"elasticsearch", "iceberg", "starrocks", "kafka", "parquet">>, c)

\* The section that main builds the buffer and starts a sink from.
ActiveSink(c) ==
    FirstSection(<<"iceberg", "elasticsearch", "starrocks", "kafka", "parquet">>, c)

\* What can still fail once the configuration is valid.
SinkStarts(kind, s, cluster) ==
    CASE kind = "elasticsearch" -> s.sortKeys /\ ValidateStartup(s, cluster)
      [] kind = "kafka" -> s.formats
      [] OTHER -> TRUE

StartUp(c, cluster) ==
    LET kind == ActiveSink(c)
        b == SinkBufferOf(kind, c.sinks[kind])
    IN  IF ~ValidateConfig(c) THEN [state |-> "refused"]
        ELSE IF c.checkOnly THEN [state |-> "checked"]
        ELSE IF ~b.ok \/ ~SinkStarts(kind, c.sinks[kind], cluster) THEN [state |-> "failed"]
        ELSE [state |-> "running", sink |-> kind, buffer |-> b.buffer]

AnswerStart == Answer("start", {StartUp(job.config, job.cluster)})

StartSpec == Asked(StartJobs) /\ [][AnswerStart]_jobVars

-----------------------------------------------------------------------------
(* What a running pipeline may rely on                                        *)

\* The pattern covers the name, piece by piece.
Covers(p, t) ==
    \E cut \in [0..Len(p) -> 0..Len(t)] :
        /\ cut[0] = 0 /\ cut[Len(p)] = Len(t)
        /\ \A i \in 1..Len(p) :
              CASE p[i] = "*" -> cut[i - 1] <= cut[i]
                [] p[i] = "?" -> cut[i] = cut[i - 1] + 1
                [] OTHER -> cut[i] = cut[i - 1] + 1 /\ t[cut[i]] = p[i]

\* Documents sent to the name end up in a data stream.
WritesDataStream(truth, stream) ==
    \/ truth.exists
    \/ \E i \in 1..Len(truth.templates) :
          /\ Covers(truth.templates[i].pattern, stream) /\ truth.templates[i].dataStream
          /\ \A j \in 1..Len(truth.templates) :
                Covers(truth.templates[j].pattern, stream) =>
                    truth.templates[j].priority <= truth.templates[i].priority

\* The names that the cluster lists, if any, are those it has, and what it says
\* about a data stream is so.
IsHonest(node, truth, streams) ==
    /\ node.templates \in {<< >>, truth.templates}
    /\ node.resolves => \A stream \in streams : WritesDataStream(truth, stream)
    /\ node.exists => truth.exists

IsSection(s) ==
    /\ s.buffer \in Seq(BufferConfigs) /\ s.concurrent \in Words
    /\ s.batching \in Seq([batchBytes : Words, records : Seq(Words), intervalSec : Words])
    /\ \A stream \in s.streams : stream \in Seq(STRING)

Templates == [pattern : Seq(STRING), priority : Nat, dataStream : BOOLEAN]

ASSUME StartJobsAssumption ==
    \A j \in StartJobs :
        /\ j.kind = "start"
        /\ DOMAIN j.config.sinks \subseteq {"iceberg", "elasticsearch", "starrocks", "kafka", "parquet"}
        /\ \A kind \in DOMAIN j.config.sinks :
              /\ IsSection(j.config.sinks[kind])
              /\ \A i \in 1..Len(j.cluster) :
                    IsHonest(j.cluster[i], j.truth, j.config.sinks[kind].streams)
        /\ {j.config.grpc.ip, j.config.http.ip} \subseteq {"loopback", "wildcard", "local"}
        /\ j.truth.templates \in Seq(Templates)

\* A listener the endpoint leads back to, as far as addresses tell.
LeadsTo(e, l) ==
    /\ EndpointPort(e) = l.port
    /\ CASE l.ip = "wildcard" -> e.host \in {"localhost", "loopback", "wildcard", "local"}
         [] l.ip = "loopback" -> e.host \in {"localhost", "loopback", "wildcard"}
         [] l.ip = "local" -> e.host = "local"

\* A buffer in which each signal holds a full batch for every lease and one that
\* is filling, also where sizes are at the end of a word; on disk two segments
\* fit, each of two batches, and only there can it persist what is not sent.
BufferHolds(b) ==
    /\ b.batchBytes * (b.leases + 1) <= b.bufferBytes \div 3
    /\ b.leases >= 1 /\ b.attempts >= 1 /\ b.batchBytes >= 1
    /\ b.mode = "disk" => /\ b.diskPath /\ 2 * b.segmentBytes <= b.bufferBytes \div 3
                          /\ 2 * b.batchBytes <= b.segmentBytes
    /\ EffectiveDrainPolicy(b) = "persist" => b.mode = "disk"

\* A pipeline that is running has a sink whose own section was validated, and a
\* buffer that holds what the sink needs.  It does not export telemetry to itself,
\* and Elasticsearch writes to data streams as far as the cluster let it see.
StartsSafely(c, truth, out) ==
    out.state = "running" =>
        LET s == c.sinks[out.sink]
        IN  /\ SinkIsValid(out.sink, s)
            /\ BufferHolds(out.buffer)
            /\ c.telemetry.enabled => \A l \in {c.grpc, c.http} : ~LeadsTo(c.telemetry.endpoint, l)
            /\ out.sink = "elasticsearch" /\ s.validate =>
                  \A stream \in s.streams : WritesDataStream(truth, stream)

\* A program that runs has a validated sink, a buffer that holds what its leases
\* need, and neither feeds itself nor writes past its data streams.
StartIsSafe == Done("start") => StartsSafely(job.config, job.truth, answer[1])

=============================================================================
