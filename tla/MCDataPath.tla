----------------------------- MODULE MCDataPath -----------------------------
EXTENDS DataPath

-----------------------------------------------------------------------------
(* The transformer and its guests                                             *)

Policy(onError, onReject, allow) ==
    [onError |-> onError, onReject |-> onReject, allowUnmasked |-> allow]

\* Every policy with every kind of answer, two reloads under one of them, and a
\* policy that is refused.
MCScenarios ==
    [config : {Policy("reroute", "reroute", FALSE), Policy("passthrough", "drop", TRUE),
               Policy("drop", "reroute", FALSE)},
     guest : {<<"trap", "emitted", "rejected">>, <<"errored", "discarded", "tooLarge">>},
     reloaders : {{}}]
    \cup [config : {Policy("reroute", "drop", FALSE)}, guest : {<<"emitted", "trap">>},
          reloaders : {Reloaders}]
    \cup [config : {Policy("passthrough", "drop", FALSE)}, guest : {<<"emitted">>}, reloaders : {{}}]

HostCall(fn, memory, name, type, value, level) ==
    [fn |-> fn, memory |-> memory, name |-> name, type |-> type, value |-> value, level |-> level]
Metric(type, name, value) == HostCall("metric", "inside", name, type, value, "INFO")

OtherCalls ==
    {Metric("gauge", "k", 7), Metric("gauge", "bad-name", 1), Metric("counter", "n", 7),
     Metric("unknown", "n", 1), HostCall("metric", "outside", "n", "counter", 1, "INFO"),
     HostCall("log", "inside", "", "", 0, "ERROR"), HostCall("log", "inside", "", "", 0, "level9"),
     HostCall("log", "outside", "", "", 0, "INFO"), HostCall("has_capability", "inside", "", "", 0, "INFO")}

\* Two guests that emit one name, and a second name for which there may be no room.
MCGuestPrograms ==
    {[g \in Guests |-> << >>]}
    \cup {[g \in Guests |-> IF g = "g1" THEN <<Metric(t, "n", 3), Metric("counter", "m", 1)>>
                            ELSE <<Metric(u, "n", 2), c, Metric(u, "n", 4)>>] :
            t \in MetricTypes, u \in MetricTypes, c \in OtherCalls}

-----------------------------------------------------------------------------
(* Guest responses                                                            *)

Col(name, type, nullable, empty) ==
    [name |-> name, type |-> type, nullable |-> nullable, empty |-> empty]

Given ==
    [cols |-> <<Col("timestamp", "time", FALSE, FALSE), Col("tags", "list", FALSE, FALSE),
                Col("trace_id", "utf8", TRUE, FALSE)>>,
     rows |-> 2, meta |-> [verified |-> "yes", source |-> "otlp"]]

Alter(c, change) ==
    CASE change = "keep" -> c
      [] change = "retype" -> [c EXCEPT !.type = "int64"]
      [] change = "flip" -> [c EXCEPT !.nullable = ~@]
      [] change = "wipe" -> [c EXCEPT !.empty = TRUE]

\* A batch arrow can decode: without rows every column is empty, and otherwise only a
\* nullable one may be.
Decodable(cols, rows) ==
    \A i \in 1..Len(cols) : IF rows = 0 THEN cols[i].empty ELSE cols[i].empty => cols[i].nullable

\* Up to three of the columns in any order, some perhaps several times, one place
\* altered, and perhaps a new column.
GuestCols ==
    UNION {{[i \in 1..n |-> Alter(Given.cols[order[i]], IF i = place THEN change ELSE "keep")] :
                order \in [1..n -> 1..3], place \in 1..n, change \in {"keep", "retype", "flip", "wipe"}} :
             n \in 1..3}
NewCols == {<< >>, <<Col("new", "utf8", TRUE, FALSE)>>, <<Col("new", "utf8", FALSE, FALSE)>>}
AsEmpty(cols) == [i \in 1..Len(cols) |-> [cols[i] EXCEPT !.empty = TRUE]]

GuestBatches ==
    {b \in {[cols |-> IF rows = 0 THEN AsEmpty(cols \o new) ELSE cols \o new, rows |-> rows, meta |-> Given.meta] :
               cols \in GuestCols \cup {<< >>}, rows \in {0, 2}, new \in NewCols} :
        Decodable(b.cols, b.rows)}

Metas ==
    {[source |-> "otlp"], [verified |-> "no", source |-> "otlp"], [verified |-> "yes", source |-> "guest"],
     [verified |-> "yes", source |-> "otlp", profile |-> "guest"],
     [verified |-> "yes", source |-> "otlp", note |-> "guest"]}

Desc(buf, size, corrupt, batches) ==
    [buf |-> buf, size |-> size, corrupt |-> corrupt, batches |-> batches]

Response(status, descs) ==
    [abi |-> "V1", header |-> "header", short |-> FALSE, status |-> status, table |-> "table",
     message |-> "null", descs |-> descs, trap |-> FALSE, deallocTraps |-> FALSE]

Emits(batch) == Response(0, <<Desc("out1", 1, FALSE, <<batch>>)>>)

\* What the SDK's helper makes of the batch.
Nullified ==
    UNION {{NullifyColumn(Given, [Given EXCEPT !.cols[2].nullable = n], name).batches :
              name \in {"timestamp", "tags", "trace_id"}} : n \in BOOLEAN} \ {<< >>}

DescLists ==
    {<< >>, <<Desc("out1", 1, FALSE, <<Given>>)>>, <<Desc("ipc", 1, FALSE, <<Given>>)>>,
     <<Desc("out1", 1, TRUE, << >>)>>,
     <<Desc("out1", 1, FALSE, <<Given>>), Desc("outside", 1, FALSE, << >>)>>,
     <<Desc("out1", 1, FALSE, <<Given>>), Desc("out2", 1, FALSE, <<Given>>)>>,
     <<Desc("out1", 2, FALSE, <<Given>>), Desc("out2", 2, FALSE, <<Given>>)>>,
     <<Desc("out1", 1, FALSE, <<Given, Given>>), Desc("out2", 1, FALSE, <<Given>>)>>,
     <<Desc("out1", 1, FALSE, <<Given>>), Desc("null", 1, FALSE, <<Given>>), Desc("out2", 1, FALSE, << >>)>>}

\* Headers that cannot be read, and what a header that can may hold.
Headers ==
    [abi : {"V1", "legacy"}, header : {"header", "null", "outside"}, short : BOOLEAN, status : 0..1,
     table : {"table"}, message : {"message"}, descs : {<< >>, <<Desc("out1", 1, FALSE, <<Given>>)>>},
     trap : {FALSE}, deallocTraps : {FALSE}]
Protocol ==
    [abi : {"V1"}, header : {"header"}, short : {FALSE}, status : 0..3,
     table : {"table", "null", "outside"}, message : {"message", "null", "outside"}, descs : DescLists,
     trap : {FALSE}, deallocTraps : {FALSE}]

\* References that point at what another one points at, or at the input.
Outputs(bufs) == [i \in 1..Len(bufs) |-> Desc(bufs[i], 1, FALSE, IF i = 1 THEN <<Given>> ELSE << >>)]
Aliased ==
    [abi : {"V1"}, header : {"header", "ipc"}, short : {FALSE}, status : {0, 1},
     table : {"table", "header", "message", "ipc"}, message : {"message", "header", "ipc", "null"},
     descs : {Outputs(bufs) : bufs \in {<< >>, <<"out1", "out1">>, <<"ipc", "ipc">>, <<"out1", "header">>,
                                        <<"table", "message">>, <<"ipc", "out1">>}},
     trap : {FALSE}, deallocTraps : {FALSE}]

GuestJob(mode, response) == [kind |-> "guest", mode |-> mode, batch |-> Given, response |-> response]

\* An input whose trace_id holds nothing that could be lost.
EmptyIds == [Given EXCEPT !.cols[3].empty = TRUE]

BatchJobs ==
    {GuestJob(m, Emits(b)) : m \in {"strict", "defensive"}, b \in GuestBatches}
MetaJobs ==
    {GuestJob(m, Emits([Given EXCEPT !.meta = meta])) : m \in {"strict", "defensive"}, meta \in Metas}
EmptyIdJobs ==
    {[GuestJob("defensive", Emits([EmptyIds EXCEPT !.cols = SubSeq(@, 1, n)])) EXCEPT !.batch = EmptyIds] :
        n \in 0..3}
NullifiedJobs ==
    {GuestJob(m, Emits(b[1])) : m \in {"strict", "defensive"}, b \in Nullified}
ProtocolJobs ==
    {GuestJob("defensive", r) : r \in Headers \cup Protocol}
AliasedJobs ==
    {GuestJob("defensive", r) : r \in Aliased}
TrapJobs ==
    {GuestJob("defensive", [Emits(Given) EXCEPT !.trap = t, !.deallocTraps = ~t]) : t \in BOOLEAN}
MCGuestJobs ==
    BatchJobs \cup (ProtocolJobs \cup (AliasedJobs \cup
        (MetaJobs \cup (NullifiedJobs \cup (EmptyIdJobs \cup TrapJobs)))))

-----------------------------------------------------------------------------
(* Requests                                                                   *)

Attr(key, value) == [key |-> key, value |-> value]
Unset == [kind |-> "unset"]
Text(v) == [kind |-> "string", v |-> v]

Attrs ==
    {Attr(k, v) : k \in {ServiceName, "k"}, v \in {Text("s"), Unset, [kind |-> "double", v |-> "NaN"]}}
    \cup {Attr("k", [kind |-> "kvlist", v |-> <<Attr("a", [kind |-> "bytes", v |-> 1]),
                                                Attr("a", [kind |-> "int", v |-> 1]), Attr("b", Unset)>>]),
          Attr("k", [kind |-> "array", v |-> <<[kind |-> "bool", v |-> "true"], Unset>>])}
AttrLists == UNION {[1..n -> Attrs] : n \in 0..3}

Record(id, attrs, time, value) ==
    [id |-> id, timestamp |-> time, attributes |-> attrs, value |-> value]

\* Two resources, the second perhaps without attributes, with an empty scope.
Request(attrs, present, time, Of(_, _, _, _)) ==
    <<[present |-> TRUE, attributes |-> attrs, scopes |->
          <<[name |-> "unset", records |-> <<Of(1, attrs, 1, Unset), Of(2, << >>, 2, Text("x"))>>],
            [name |-> "scope", records |-> <<Of(3, attrs, time, Unset)>>]>>],
      [present |-> present, attributes |-> IF present THEN <<Attr("k", Text("t"))>> ELSE << >>, scopes |->
          <<[name |-> "scope", records |-> << >>],
            [name |-> "unset", records |-> <<Of(4, attrs, 1, Unset)>>]>>]>>

\* A metric of each kind of data, with two points.
MetricOf(data) ==
    [id \in 1..4, attrs \in AttrLists, time \in 0..4, value \in {Unset, Text("x")} |->
        [data |-> data, points |->
            <<[count |-> 5] @@ Record(10 * id, attrs, time, value),
              [count |-> 5] @@ Record(10 * id + 1, << >>, 1, Unset)>>]]

DecodeJob(signal, request, mode) ==
    [kind |-> "decode", signal |-> signal, request |-> request, mode |-> mode,
     mappings |-> <<<<"k", ServiceName>>>>]

LogJobs ==
    {DecodeJob("logs", Request(a, p, 3, Record), "quarantine") : a \in AttrLists, p \in BOOLEAN}
TraceJobs ==
    {DecodeJob("traces", Request(a, p, 3, Record), "remap") : a \in AttrLists, p \in BOOLEAN}
ModeJobs ==
    {DecodeJob(s, Request(a, TRUE, t, Record), m) :
            s \in {"logs", "traces"}, a \in {<<x>> : x \in Attrs}, t \in {3, 4}, m \in {"off", "strict"}}
MetricJobs ==
    {DecodeJob("metrics", Request(a, p, t, LAMBDA i, b, u, v : MetricOf(d)[i, b, u, v]), "strict") :
            a \in {<<x>> : x \in Attrs}, p \in BOOLEAN, t \in {3, 4},
            d \in {"gauge", "sum", "histogram", "summary"}}
MCDecodeJobs == LogJobs \cup (TraceJobs \cup (ModeJobs \cup MetricJobs))

-----------------------------------------------------------------------------
(* Attributes as Variant                                                      *)

Json(t, v) == [t |-> t, v |-> v]
StringOf(n) == Json("string", [i \in 1..n |-> 9])
Leaves ==
    {[t |-> "null"], [t |-> "true"], Json("double", 7)}
    \cup {Json("int", n) : n \in {0, -2, 1, 2, -8, 7, 8, -9, 100}}
    \cup {StringOf(n) : n \in {0, 1, 3, 4, 5, 20}}
ObjectOf(keys, value) == Json("object", [i \in 1..Len(keys) |-> <<keys[i], value>>])
ArrayOf(n, value) == Json("array", [i \in 1..n |-> value])

Containers ==
    {ObjectOf(keys, v) : keys \in {<< >>, <<1>>, <<2, 1>>, <<3, 1, 2>>, <<5, 4, 3, 2, 1>>, <<4, 2, 3, 1>>},
                         v \in Leaves}
    \cup {ArrayOf(n, v) : n \in 0..5, v \in Leaves}
Nested ==
    {ObjectOf(<<6, 1>>, v) : v \in Containers} \cup {ArrayOf(2, v) : v \in Containers}
    \cup {Json("object", <<<<2, ObjectOf(<<5, 4, 3, 2, 1>>, v)>>, <<1, ArrayOf(n, w)>>>>) :
            v \in Leaves, n \in 0..5, w \in {Json("int", 8), StringOf(20)}}

\* On both sides of where an integer changes its width, and where it becomes a double:
\* below, at and above the middle of two, and next to the end.
EdgeInts ==
    {Json("int", n) : n \in {-3, -128, -129, 127, 128, -32768, 32767, 65535} \cup 32768..32778}
EdgeCells ==
    EdgeInts \cup {ObjectOf(<<2, 1>>, v) : v \in EdgeInts} \cup {ArrayOf(2, v) : v \in EdgeInts}

Cells ==
    {[t |-> "empty"], [t |-> "broken"], Json("plain", <<9, 9>>)}
        \cup Leaves \cup Containers \cup Nested \cup EdgeCells

MCVariantJobs ==
    {[kind |-> "variant", cells |-> <<c, Json("int", 1)>>, nullable |-> n] : c \in Cells, n \in BOOLEAN}

-----------------------------------------------------------------------------
(* Layouts                                                                    *)

Row(id, time, key) == [id |-> id, timestamp |-> time, service_name |-> key, severity_text |-> 1]
Columns(unit) == [timestamp |-> unit, service_name |-> "utf8", severity_text |-> "utf8"]
Batch(unit, times, keys) ==
    [cols |-> Columns(unit), rows |-> [i \in 1..Len(times) |-> Row(i, times[i], keys[i])]]

Shorthand(tokens) == [form |-> "shorthand", tokens |-> tokens]
Order(onMissing, defs) == <<[onMissing |-> onMissing, defs |-> defs]>>
Orders ==
    {<< >>, Order("skip", <<Shorthand(<<"timestamp", "DESC", "NULLS", "FIRST">>)>>),
     Order("error", <<[form |-> "structured", column |-> "service_name", direction |-> "asc", nulls |-> "last"],
                      Shorthand(<<"timestamp">>)>>),
     Order("error", <<Shorthand(<<"absent">>)>>), Order("skip", <<Shorthand(<<"absent", "ASC">>)>>),
     Order("skip", <<Shorthand(<<"timestamp", "NULLS">>)>>),
     Order("skip", <<Shorthand(<<"timestamp", "UP">>)>>), Order("skip", <<Shorthand(<< >>)>>)}

LayoutJob(sink, settings, orderBy, batch) ==
    [kind |-> "layout", sink |-> sink, config |-> settings, orderBy |-> orderBy, batch |-> batch]

\* Around the start of a day and of 1970, in nanoseconds.
Times == {-33, -17, -1, 0, 16}

IcebergJobs ==
    {LayoutJob("iceberg", [mode |-> m, table |-> t, granularity |-> g], o, b) :
        m \in {"fixed", "auto", "catalog"}, t \in {<< >>, Columns("nanos"), [timestamp |-> "micros"]},
        g \in {"hourly", "daily"}, o \in Orders,
        b \in {Batch("nanos", t3, <<2, Null, 1>>) : t3 \in [1..3 -> {-17, -1, 16}]}
              \cup {Batch("micros", t2, <<1, 1>>) : t2 \in [1..2 -> {-9, 20, Null}]}
              \cup {Batch("utf8", <<1>>, <<1>>), Batch("nanos", << >>, << >>)}}
KafkaJobs ==
    {LayoutJob("kafka", [key |-> k], o, b) :
        k \in {<< >>, <<"service_name">>, <<"absent">>, <<"timestamp">>}, o \in Orders,
        b \in {Batch("nanos", t, s) : t \in [1..3 -> {0, 1}], s \in [1..3 -> {Null, 1, 2}]}}
ParquetJobs ==
    {LayoutJob("parquet", [now |-> 5, pattern |-> p], << >>, b) :
        p \in {{"date"}, {"date", "hour"}},
        b \in {Batch(u, t, <<1, 1, 1>>) : u \in {"nanos", "micros", "seconds", "int64", "utf8"},
                                          t \in [1..3 -> Times \cup {Null}]}}
StarRocksJobs ==
    {LayoutJob("starrocks", [unified |-> u, signal |-> "logs"], o, Batch("nanos", t, <<1, Null, 2>>)) :
        u \in BOOLEAN, o \in Orders, t \in [1..3 -> {0, 1}]}
MCLayoutJobs == IcebergJobs \cup (KafkaJobs \cup (ParquetJobs \cup StarRocksJobs))

MCDocumentJobs ==
    {[kind |-> "document", type |-> u, value |-> n, unpack |-> FALSE] :
        u \in {"nanos", "micros", "millis", "seconds"}, n \in (-40..40) \cup {Null}}
    \cup {[kind |-> "document", type |-> "utf8", value |-> s, unpack |-> u] :
        s \in {"text", "textLines", "json", "jsonLines", "almostJson"}, u \in BOOLEAN}
    \cup {[kind |-> "document", type |-> t, value |-> v, unpack |-> FALSE] :
        t \in {"float", "int64", "bool", "none", "list"}, v \in {"1", Null}}
    \cup {[kind |-> "document", type |-> "float", value |-> "NaN", unpack |-> FALSE]}

-----------------------------------------------------------------------------
(* Configurations                                                             *)

MCDefaultBuffer ==
    [mode |-> "memory", diskPath |-> FALSE, segmentBytes |-> 4, bufferBytes |-> 24, batchBytes |-> 2,
     records |-> << >>, intervalSec |-> 5, leases |-> 2, attempts |-> 3, drainSec |-> 30, onDrain |-> "none"]

Section ==
    [buffer |-> << >>, batching |-> << >>, endpoints |-> <<"http">>, concurrent |-> 2, payloadBytes |-> 8,
     names |-> TRUE, tls |-> [verify |-> TRUE, ca |-> "none"], sortKeys |-> TRUE, flushMs |-> << >>,
     maxOpen |-> 4, table |-> "t0", tables |-> [logs |-> "t1", traces |-> "t2"], formats |-> TRUE,
     validate |-> FALSE, streams |-> {<<"l", "l">>}]

Kinds == {"iceberg", "elasticsearch", "starrocks", "kafka", "parquet"}

Config(sinks) ==
    [channelCapacity |-> 8,
     telemetry |-> [enabled |-> FALSE, named |-> TRUE,
                    endpoint |-> [scheme |-> "http", host |-> "remote", port |-> << >>]],
     grpc |-> [ip |-> "wildcard", port |-> 4317], http |-> [ip |-> "wildcard", port |-> 4318],
     admin |-> << >>, wasm |-> << >>, sinks |-> sinks, checkOnly |-> FALSE]

OneSink(kind, section) == Config([k \in {kind} |-> section])

NoTruth == [templates |-> << >>, exists |-> FALSE]
Node == [health |-> "200", list |-> "200", templates |-> << >>, simulate |-> "200", resolves |-> FALSE,
         stream |-> "200", exists |-> FALSE]

StartJob(c, cluster, truth) ==
    [kind |-> "start", config |-> c, cluster |-> cluster, truth |-> truth]

Buffers ==
    {[MCDefaultBuffer EXCEPT !.mode = m[1], !.segmentBytes = m[2], !.diskPath = m[3], !.batchBytes = b,
                             !.leases = l, !.bufferBytes = n, !.onDrain = d] :
        m \in {<<"memory", 4, FALSE>>, <<"disk", 2, TRUE>>, <<"disk", 4, TRUE>>, <<"disk", 8, TRUE>>,
               <<"disk", 4, FALSE>>},
        b \in {0, 1, 2, 21, 63}, l \in {0, 1, 2, 10, 63}, n \in {12, 24, 63},
        d \in {"none", "persist", "discard"}}
    \cup {[MCDefaultBuffer EXCEPT !.attempts = 0], [MCDefaultBuffer EXCEPT !.drainSec = 0],
          [MCDefaultBuffer EXCEPT !.records = <<0>>]}

Batchings == [batchBytes : {0, 1, 2, 7, 63}, records : {<< >>, <<0>>, <<5>>}, intervalSec : {0, 1}]

BadSections ==
    {[Section EXCEPT !.endpoints = << >>], [Section EXCEPT !.names = FALSE], [Section EXCEPT !.sortKeys = FALSE],
     [Section EXCEPT !.tls.ca = "missing"], [Section EXCEPT !.tls.verify = FALSE], [Section EXCEPT !.maxOpen = 0],
     [Section EXCEPT !.flushMs = <<0>>], [Section EXCEPT !.tables = << >>], [Section EXCEPT !.formats = FALSE],
     [Section EXCEPT !.payloadBytes = 0], [Section EXCEPT !.endpoints = <<"http", "ftp">>],
     [Section EXCEPT !.buffer = <<MCDefaultBuffer>>,
                     !.batching = <<[batchBytes |-> 1, records |-> << >>, intervalSec |-> 1]>>]}

\* One or several sections, good or bad in some way.
SeveralSinks ==
    UNION {{Config([k \in ks |-> IF k \in bad THEN [Section EXCEPT !.names = FALSE, !.tables = << >>]
                                 ELSE Section]) : bad \in SUBSET ks} : ks \in SUBSET Kinds}

Telemetry ==
    {[OneSink("kafka", Section) EXCEPT
        !.telemetry = [enabled |-> TRUE, named |-> n,
                       endpoint |-> [scheme |-> s, host |-> h, port |-> p]],
        !.grpc.ip = ip] :
        n \in BOOLEAN, s \in {"http", "https", "none", "ftp"},
        h \in {"name", "localhost", "loopback", "wildcard", "local", "remote"},
        p \in {<< >>, <<4317>>, <<4318>>, <<9999>>}, ip \in {"loopback", "wildcard", "local"}}

Wasm == [concurrency |-> 2, onError |-> "reroute", allowUnmasked |-> FALSE, sizes |-> TRUE, hash |-> "same",
         fits |-> SignalNames]

Others ==
    LET base == OneSink("parquet", Section)
    IN  {[base EXCEPT !.channelCapacity = 0], [base EXCEPT !.checkOnly = TRUE]}
        \cup {[base EXCEPT !.admin = <<[ip |-> i, port |-> p]>>] :
                i \in {"wildcard", "loopback"}, p \in {4317, 9000}}
        \cup {[base EXCEPT !.wasm = <<w>>] :
                w \in {Wasm, [Wasm EXCEPT !.concurrency = 0], [Wasm EXCEPT !.concurrency = 9],
                       [Wasm EXCEPT !.onError = "passthrough"], [Wasm EXCEPT !.sizes = FALSE],
                       [Wasm EXCEPT !.hash = "other"], [Wasm EXCEPT !.fits = {"logs"}]}}

\* Patterns of at most two characters against the name "ll".
Patterns == UNION {[1..n -> {"l", "*", "?"}] : n \in 0..2}
Template(pattern, priority, dataStream) ==
    [pattern |-> pattern, priority |-> priority, dataStream |-> dataStream]
Truths ==
    {[templates |-> <<Template(p, 1, d), Template(q, n, ~d)>>, exists |-> FALSE] :
        p \in Patterns, q \in Patterns, n \in 0..2, d \in BOOLEAN}

\* A node that has this to say about the cluster.
NodeOf(truth) ==
    [Node EXCEPT !.templates = truth.templates, !.exists = truth.exists,
                 !.resolves = WritesDataStream([truth EXCEPT !.exists = FALSE], <<"l", "l">>)]

Codes == {"200", "401", "403", "404", "unsigned", "500"}
Validated == OneSink("elasticsearch", [Section EXCEPT !.validate = TRUE])

BufferJobs ==
    {StartJob(OneSink(k, [Section EXCEPT !.buffer = <<b>>]), <<Node>>, NoTruth) :
        k \in {"iceberg", "elasticsearch", "kafka"}, b \in Buffers}
BatchingJobs ==
    {StartJob(OneSink(k, [Section EXCEPT !.batching = <<b>>, !.concurrent = n]), <<Node>>, NoTruth) :
        k \in {"iceberg", "elasticsearch", "starrocks"}, b \in Batchings, n \in {0, 1, 3, 10, 63}}
SectionJobs ==
    {StartJob(OneSink(k, s), <<Node>>, NoTruth) : k \in Kinds, s \in BadSections \cup {Section}}
ConfigJobs ==
    {StartJob(c, <<Node>>, NoTruth) : c \in UNION {SeveralSinks, Telemetry, Others}}
TruthJobs ==
    {StartJob(Validated, <<NodeOf(t)>>, t) : t \in Truths}
ClusterJobs ==
    {StartJob(Validated,
                   <<[NodeOf(t) EXCEPT !.list = l, !.simulate = s, !.stream = d, !.health = h],
                     [Node EXCEPT !.health = "503", !.list = other]>>, t) :
            l \in Codes, s \in Codes, d \in Codes, h \in {"200", "503"}, other \in {"200", "500"},
            t \in {[templates |-> <<Template(<<"l", "*">>, 1, b)>>, exists |-> e] : b, e \in BOOLEAN}}
MCStartJobs == BufferJobs \cup (BatchingJobs \cup (SectionJobs \cup (ConfigJobs \cup (TruthJobs \cup ClusterJobs))))

=============================================================================
