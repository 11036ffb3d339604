------------------------------ MODULE OtlpCodec ------------------------------
(* The OTLP to Arrow codec and the compliance engine.  A request is a sequence *)
(* of resources [present, attributes, scopes], a scope is [name, records]; what*)
(* the protocol leaves out is "unset".  A value is a record [kind, v], a JSON  *)
(* text is the value it stands for: an object is a sequence of <<key, json>>.  *)
EXTENDS Naturals, Sequences, FiniteSets, SequencesExt, FiniteSetsExt

CONSTANTS
    LinearScanThreshold,  \* 32: longer lists are deduplicated with a set.
    LatestTimestamp       \* i64::MAX.

ServiceName == "service.name"

-----------------------------------------------------------------------------
(* Attributes                                                                 *)

IsSet(attr) == attr.value.kind # "unset"

\* Mutant: with a set the first of several values is kept.
KeepMaskForward(attrs) ==
    FoldLeft(LAMBDA acc, i :
        IF IsSet(attrs[i]) /\ attrs[i].key \notin acc.seen
        THEN [seen |-> acc.seen \cup {attrs[i].key}, keep |-> acc.keep \cup {i}] ELSE acc,
        [seen |-> {}, keep |-> {}], [i \in 1..Len(attrs) |-> i]).keep

\* The keep mask of a long list: from the back, the first set value of each key.
KeepMask(attrs) ==
    FoldRight(LAMBDA i, acc :
        IF IsSet(attrs[i]) /\ attrs[i].key \notin acc.seen
        THEN [seen |-> acc.seen \cup {attrs[i].key}, keep |-> acc.keep \cup {i}] ELSE acc,
        [i \in 1..Len(attrs) |-> i], [seen |-> {}, keep |-> {}]).keep

\* The lookahead of a short list: no later value of the key is set.
KeepLookahead(attrs) ==
    {i \in 1..Len(attrs) : IsSet(attrs[i]) /\
        ~\E j \in (i+1)..Len(attrs) : attrs[j].key = attrs[i].key /\ IsSet(attrs[j])}

RECURSIVE AnyValueJson(_)

\* write_kvlist_json.
KvlistJson(attrs) ==
    LET keep == IF Len(attrs) > LinearScanThreshold THEN KeepMask(attrs) ELSE KeepLookahead(attrs)
        kept == SelectSeq([i \in 1..Len(attrs) |-> i], LAMBDA i : i \in keep)
    IN  [json |-> "object",
         v |-> [k \in 1..Len(kept) |-> <<attrs[kept[k]].key, AnyValueJson(attrs[kept[k]].value)>>]]

\* write_any_value_json: a float keeps its point, bytes become a hex string.
AnyValueJson(value) ==
    CASE value.kind \in {"string", "int", "bool"} -> [json |-> value.kind, v |-> value.v]
      [] value.kind = "double" ->
            IF value.v = "NaN" THEN [json |-> "null"] ELSE [json |-> "float", v |-> value.v]
      [] value.kind = "bytes" -> [json |-> "string", v |-> <<"hex", value.v>>]
      [] value.kind = "array" ->
            [json |-> "array", v |-> [i \in 1..Len(value.v) |-> AnyValueJson(value.v[i])]]
      [] value.kind = "kvlist" -> KvlistJson(value.v)
      [] value.kind = "unset" -> [json |-> "null"]

RECURSIVE AnyValueText(_)
\* write_any_value_string and append_any_value_to_builder.
AnyValueText(value) ==
    CASE value.kind \in {"string", "int", "bool", "double"} -> value.v
      [] value.kind = "bytes" -> <<"hex", value.v>>
      [] value.kind = "array" -> [i \in 1..Len(value.v) |-> AnyValueText(value.v[i])]
      [] value.kind = "kvlist" -> KvlistJson(value.v)
      [] value.kind = "unset" -> ""

\* extract_service_name: the last value that is set.
ExtractServiceName(attrs) ==
    LET named == {i \in 1..Len(attrs) : attrs[i].key = ServiceName /\ IsSet(attrs[i])}
    IN  IF named = {} THEN "unknown" ELSE AnyValueText(attrs[Max(named)].value)

-----------------------------------------------------------------------------
(* Requests                                                                   *)

EmptyObject == [json |-> "object", v |-> << >>]

\* Mutant: the buffer keeps the attributes of the resource before.
ResourceContextStale(before, resource) ==
    IF ~resource.present THEN [before EXCEPT !.service = "unknown"]
    ELSE [json |-> KvlistJson(resource.attributes), service |-> ExtractServiceName(resource.attributes)]

\* The buffer for the resource's JSON is used again for every resource.
ResourceContext(before, resource) ==
    IF ~resource.present THEN [json |-> EmptyObject, service |-> "unknown"]
    ELSE [json |-> KvlistJson(resource.attributes), service |-> ExtractServiceName(resource.attributes)]

ScopeName(scope) == IF scope.name = "unset" THEN "" ELSE scope.name

\* timestamp_to_i64
TimestampFits(nanos) == nanos <= LatestTimestamp

\* The loops over resources and scopes, the same in the three decoders; Rows
\* gives the rows of one record.  A late timestamp fails the request.
DecodeWith(Rows(_), request) ==
    LET decodeScope(context, scope) ==
            FlattenSeq([k \in 1..Len(scope.records) |->
                LET rows == Rows(scope.records[k])
                IN  [n \in 1..Len(rows) |->
                        [fields |-> rows[n], resource |-> context.json,
                         service |-> context.service, scope |-> ScopeName(scope)]]])
        step(done, resource) ==
            LET context == ResourceContext(done.context, resource)
            IN  [context |-> context, rows |-> done.rows \o
                    FlattenSeq([s \in 1..Len(resource.scopes) |->
                        decodeScope(context, resource.scopes[s])])]
        all == FoldLeft(step,
                  [context |-> [json |-> EmptyObject, service |-> ""], rows |-> << >>], request)
    IN  IF \E i \in 1..Len(all.rows) : ~TimestampFits(all.rows[i].fields.timestamp)
        THEN [result |-> "Err", rows |-> << >>]
        ELSE [result |-> "Ok", rows |-> all.rows]

\* A log record: one row.
LogRows(log) ==
    <<[id |-> log.id, timestamp |-> log.timestamp, attributes |-> KvlistJson(log.attributes),
       body |-> AnyValueText(log.value)]>>

\* A span: one row; a span without a status is as one with status 0.
SpanRows(span) ==
    <<[id |-> span.id, timestamp |-> span.timestamp, attributes |-> KvlistJson(span.attributes),
       status |-> IF span.value.kind = "unset" THEN 0 ELSE span.value.v]>>

\* process_gauge, process_sum: a point without a value counts as 0.
NumberPoint(point) == IF point.value.kind = "unset" THEN 0 ELSE point.value.v

\* process_histogram: the sum, or the count when there is none.
HistogramPoint(point) == IF point.value.kind = "unset" THEN point.count ELSE point.value.v

\* A metric: one row per data point of the three types that are known.
MetricRows(metric) ==
    IF metric.data \notin {"gauge", "sum", "histogram"} THEN << >>
    ELSE [i \in 1..Len(metric.points) |->
            [id |-> metric.points[i].id, timestamp |-> metric.points[i].timestamp,
             attributes |-> KvlistJson(metric.points[i].attributes),
             value |-> IF metric.data = "histogram" THEN HistogramPoint(metric.points[i])
                       ELSE NumberPoint(metric.points[i])]]

DecodeLogs(request) == DecodeWith(LogRows, request)
DecodeTraces(request) == DecodeWith(SpanRows, request)
DecodeMetrics(request) == DecodeWith(MetricRows, request)

Decode(signal, request) ==
    CASE signal = "logs" -> DecodeLogs(request)
      [] signal = "traces" -> DecodeTraces(request)
      [] signal = "metrics" -> DecodeMetrics(request)

-----------------------------------------------------------------------------
(* ComplianceEngine                                                           *)

HasKey(object, key) == \E i \in 1..Len(object.v) : object.v[i][1] = key

\* check_batch_compliance: every row's resource names its service.
CheckBatchCompliance(rows) == \A i \in 1..Len(rows) : HasKey(rows[i].resource, ServiceName)

\* One mapping on one object: the key is removed and its value put under target.
RemapKey(object, source, target) ==
    IF ~HasKey(object, source) THEN object
    ELSE LET value == object.v[CHOOSE i \in 1..Len(object.v) : object.v[i][1] = source][2]
             rest == SelectSeq(object.v, LAMBDA e : e[1] \notin {source, target})
         IN  [object EXCEPT !.v = Append(rest, <<target, value>>)]

\* execute_remap_rules, with the mappings in the order the hash map has them.
ExecuteRemapRules(mappings, rows) ==
    LET remap(object) == FoldLeft(LAMBDA o, m : RemapKey(o, m[1], m[2]), object, mappings)
    IN  [i \in 1..Len(rows) |->
            [rows[i] EXCEPT !.resource = remap(@), !.fields.attributes = remap(@)]]

\* assess_and_remap.
AssessAndRemap(mode, mappings, batch) ==
    LET rows == IF mode = "remap" THEN ExecuteRemapRules(mappings, batch.rows) ELSE batch.rows
        good == CheckBatchCompliance(rows)
        out(kind, r, tag) == [kind |-> kind, rows |-> r, verified |-> tag]
    IN  IF mode = "off" \/ batch.verified THEN out("Compliant", batch.rows, batch.verified)
        ELSE
        CASE mode = "strict" -> IF good THEN out("Compliant", rows, TRUE) ELSE out("Err", << >>, FALSE)
          [] mode = "quarantine" ->
                IF good THEN out("Compliant", rows, TRUE) ELSE out("Quarantined", rows, FALSE)
          [] mode = "remap" ->
                IF good THEN out("Remapped", rows, TRUE) ELSE out("Quarantined", rows, FALSE)

-----------------------------------------------------------------------------
(* What a decoded request should hold                                         *)

\* The attributes as a map: the last value of a key that is set wins.
AttributeMap(attrs) ==
    [key \in {attrs[i].key : i \in {j \in 1..Len(attrs) : IsSet(attrs[j])}} |->
        AnyValueJson(attrs[Max({i \in 1..Len(attrs) :
            attrs[i].key = key /\ IsSet(attrs[i])})].value)]

\* The map a reader makes of a JSON object that names each key once.
ReadObject(object) ==
    [key \in {object.v[i][1] : i \in 1..Len(object.v)} |->
        object.v[CHOOSE i \in 1..Len(object.v) : object.v[i][1] = key][2]]

KeysOnce(object) == Cardinality(DOMAIN ReadObject(object)) = Len(object.v)

\* The places of the points that the signal's decoder knows, in the order sent.
PointsOf(signal, record) == IF signal = "metrics" THEN record.points ELSE <<record>>
Known(signal, record) == signal = "metrics" => record.data \in {"gauge", "sum", "histogram"}

PlacesOf(signal, request) ==
    LET most == 3
        digit(n, i) == 1 + ((n \div most^i) % most)
        place(n) == <<1 + (n \div most^3), digit(n, 2), digit(n, 1), digit(n, 0)>>
        taken(p) ==
            /\ p[2] <= Len(request[p[1]].scopes)
            /\ p[3] <= Len(request[p[1]].scopes[p[2]].records)
            /\ LET record == request[p[1]].scopes[p[2]].records[p[3]]
               IN  Known(signal, record) /\ p[4] <= Len(PointsOf(signal, record))
    IN  SelectSeq([n \in 1..(Len(request) * most^3) |-> place(n - 1)], taken)

PointAt(signal, request, p) ==
    PointsOf(signal, request[p[1]].scopes[p[2]].records[p[3]])[p[4]]

\* A request becomes one row per record or data point, in the order it was sent,
\* each with the attributes of its own record, scope and resource and none of
\* its neighbours', every key once with its last value; and it fails as a whole
\* exactly when a timestamp cannot be represented.
DecodesAsSent(signal, request, decoded) ==
    LET places == PlacesOf(signal, request)
        point(i) == PointAt(signal, request, places[i])
        late == \E i \in 1..Len(places) : point(i).timestamp > LatestTimestamp
    IN  /\ decoded.result = IF late THEN "Err" ELSE "Ok"
        /\ decoded.result = "Ok" =>
             /\ Len(decoded.rows) = Len(places)
             /\ \A i \in 1..Len(places) :
                  LET row == decoded.rows[i]
                      resource == request[places[i][1]]
                      attrs == IF resource.present THEN resource.attributes ELSE << >>
                  IN  /\ row.fields.id = point(i).id
                      /\ KeysOnce(row.resource) /\ ReadObject(row.resource) = AttributeMap(attrs)
                      /\ KeysOnce(row.fields.attributes)
                      /\ ReadObject(row.fields.attributes) = AttributeMap(point(i).attributes)
                      /\ row.scope = ScopeName(resource.scopes[places[i][2]])

\* A batch that is marked verified names the service of every row, and without
\* remapping the service_name column holds that name and not a default.
VerifiedIsNamed(mode, out) ==
    out.verified =>
        \A i \in 1..Len(out.rows) :
            /\ HasKey(out.rows[i].resource, ServiceName)
            /\ mode # "remap" => out.rows[i].service # "unknown"

=============================================================================
