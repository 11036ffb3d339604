------------------------------ MODULE RowLayout ------------------------------
(* Where the rows of a batch go: the BatchSorter and what each sink makes of a *)
(* sorted batch before it is written.  A batch is [cols, rows]: the type of    *)
(* each column it has, and rows that give every column a value or Null.        *)
EXTENDS Integers, Sequences, FiniteSets, FiniteSetsExt, SequencesExt, Jobs, Places

CONSTANTS
    Scale,          \* Nanoseconds of a microsecond, micro- of a milli-, milli- of a second.
    HourSeconds,    \* Seconds of an hour.
    DayHours,       \* Hours of a day.
    I64Limit,       \* Timestamps are in -I64Limit..I64Limit.
    CalendarLimit,  \* Seconds that chrono knows a date for.
    Null,           \* No value.
    LayoutJobs,     \* Batches with the layout of a sink.
    DocumentJobs    \* Values of a bulk document.

ASSUME RowLayoutAssumption ==
    /\ {Scale, HourSeconds, DayHours, I64Limit, CalendarLimit} \subseteq Nat \ {0}
    /\ Null \notin Int

\* Rows are numbered, and have a value for each column.
Values == Int \cup {Null}
IsBatch(b) ==
    /\ b.rows \in Seq({b.rows[i] : i \in 1..Len(b.rows)})
    /\ "id" \notin DOMAIN b.cols
    /\ \A i \in 1..Len(b.rows) :
          /\ DOMAIN b.cols \cup {"id"} \subseteq DOMAIN b.rows[i]
          /\ b.rows[i].id = i
          /\ \A c \in DOMAIN b.cols : b.rows[i][c] \in Values

TimeUnits == {"nanos", "micros", "millis", "seconds"}

\* A batch comes without the column that tells signals apart in a shared table.
ASSUME LayoutJobsAssumption ==
    /\ \A j \in LayoutJobs :
          /\ j.kind = "layout" /\ j.sink \in {"iceberg", "kafka", "starrocks", "parquet"}
          /\ IsBatch(j.batch) /\ "signal_type" \notin DOMAIN j.batch.cols
          /\ \A i \in 1..Len(j.orderBy) :
                j.orderBy[i].defs \in Seq({j.orderBy[i].defs[k] : k \in 1..Len(j.orderBy[i].defs)})
          /\ j.orderBy # << >> => 1 \in 1..Len(j.orderBy)
          /\ j.sink = "iceberg" => /\ j.config.mode \in {"fixed", "auto", "catalog"}
                                   /\ j.config.granularity \in {"hourly", "daily"}
          /\ j.sink = "kafka" => j.config.key \in {<< >>} \cup {<<j.config.key[i]>> : i \in 1..Len(j.config.key)}
          /\ j.sink = "parquet" => j.config.now \in Int
    /\ \A j \in DocumentJobs : j.kind = "document" /\ (j.type \in TimeUnits => j.value \in Values)

LayoutErr == [result |-> "Err", parts |-> << >>]
Parts(parts) == [result |-> "Ok", parts |-> parts]

-----------------------------------------------------------------------------
(* Sort keys                                                                  *)

\* parse_shorthand: the column, then ASC, DESC, NULLS FIRST, NULLS LAST in any
\* order; the last of each kind counts.
ParseShorthand(tokens) ==
    LET start == [column |-> tokens[1], descending |-> FALSE, nullsFirst |-> FALSE,
                  after |-> "none", ok |-> TRUE]
        read(k, t) ==
            CASE k.ok /\ k.after = "NULLS" /\ t \in {"FIRST", "LAST"} ->
                    [k EXCEPT !.nullsFirst = t = "FIRST", !.after = "none"]
              [] k.ok /\ k.after # "NULLS" /\ t \in {"ASC", "DESC"} -> [k EXCEPT !.descending = t = "DESC"]
              [] k.ok /\ k.after # "NULLS" /\ t = "NULLS" -> [k EXCEPT !.after = "NULLS"]
              [] OTHER -> [k EXCEPT !.ok = FALSE]
        key == IF tokens = << >> THEN [ok |-> FALSE] ELSE FoldLeft(read, start, Tail(tokens))
    IN  IF ~key.ok \/ key.after # "none" THEN [ok |-> FALSE] ELSE key

\* normalize_column_defs: both forms of a definition, in the order configured.
NormalizeColumnDefs(defs) ==
    LET key(d) == IF d.form = "shorthand" THEN ParseShorthand(d.tokens)
                  ELSE [column |-> d.column, descending |-> d.direction = "desc",
                        nullsFirst |-> d.nulls = "first", ok |-> TRUE]
        keys == [i \in 1..Len(defs) |-> key(defs[i])]
    IN  [ok |-> \A i \in 1..Len(defs) : keys[i].ok, keys |-> keys]

\* BatchSorter::from_config.
FromConfig(order) ==
    [onMissing |-> order.onMissing, keys |-> NormalizeColumnDefs(order.defs).keys,
     ok |-> NormalizeColumnDefs(order.defs).ok]

\* BatchSorter::default.
NoOrder == [onMissing |-> "skip", defs |-> << >>]

\* The order Iceberg gives logs by default.
IcebergOrder ==
    [onMissing |-> "error",
     defs |-> [i \in 1..3 |->
        [form |-> "shorthand", tokens |-> <<<<"service_name", "severity_text", "timestamp">>[i], "ASC">>]]]

\* IcebergSink::new: an order that cannot be read is replaced by the default.
IcebergSorter(orderBy) ==
    IF orderBy # << >> /\ FromConfig(orderBy[1]).ok THEN FromConfig(orderBy[1])
    ELSE FromConfig(IcebergOrder)

\* The other sinks are not built with an order that cannot be read.
SinkSorter(orderBy) == FromConfig(IF orderBy = << >> THEN NoOrder ELSE orderBy[1])

\* a goes before b under one key; nulls have their place in either direction.
GoesBefore(key, a, b) ==
    LET x == a[key.column]
        y == b[key.column]
    IN  /\ x # y
        /\ IF Null \in {x, y} THEN IF key.nullsFirst THEN x = Null ELSE y = Null
           ELSE IF key.descending THEN x > y ELSE x < y

\* a may stand before b.  A key without a column is left out.
InOrder(keys, cols, a, b) ==
    \A k \in 1..Len(keys) :
        keys[k].column \in DOMAIN cols /\ GoesBefore(keys[k], b, a) =>
            \E j \in 1..(k - 1) : keys[j].column \in DOMAIN cols /\ GoesBefore(keys[j], a, b)

\* lexsort_to_indices and take: ties are left in any order.
SortedRows(keys, cols, rows) ==
    {s \in {[i \in 1..Len(rows) |-> rows[p[i]]] : p \in Bijection(1..Len(rows), 1..Len(rows))} :
        \A i \in 1..(Len(rows) - 1) : InOrder(keys, cols, s[i], s[i + 1])}

LeadKey(column) == [column |-> column, descending |-> FALSE, nullsFirst |-> FALSE, ok |-> TRUE]

\* Mutant: the lead column comes after the configured keys.
SortKeysLeadLast(keys, lead) == keys \o lead

SortKeys(keys, lead) == lead \o keys

\* sort_with_extra_lead_column: the outcomes; a batch of one row is not looked at.
Sort(sorter, batch, lead) ==
    LET keys == SortKeys(sorter.keys, [i \in 1..Len(lead) |-> LeadKey(lead[i])])
        present == {i \in 1..Len(keys) : keys[i].column \in DOMAIN batch.cols}
        ok(rows) == [result |-> "Ok", batch |-> [cols |-> batch.cols, rows |-> rows]]
    IN  IF Len(batch.rows) <= 1 THEN {ok(batch.rows)}
        ELSE IF present # 1..Len(keys) /\ sorter.onMissing = "error" THEN {[result |-> "Err"]}
        ELSE IF present = {} THEN {ok(batch.rows)}
        ELSE {ok(rows) : rows \in SortedRows(keys, batch.cols, batch.rows)}

-----------------------------------------------------------------------------
(* Timestamps                                                                 *)

PerSecond(unit) ==
    CASE unit = "nanos" -> Scale * Scale * Scale [] unit = "micros" -> Scale * Scale
      [] unit = "millis" -> Scale [] unit = "seconds" -> 1

InI64(n) == n \in (-I64Limit)..I64Limit

\* arrow's cast between units: towards zero, and Null where it would overflow.
CastTimestamp(from, to, n) ==
    IF n = Null THEN Null
    ELSE LET up == PerSecond(to) \div PerSecond(from)
             down == PerSecond(from) \div PerSecond(to)
         IN  IF PerSecond(to) >= PerSecond(from)
             THEN IF InI64(n * up) THEN n * up ELSE Null
             ELSE IF n >= 0 THEN n \div down ELSE -((-n) \div down)

\* Mutant: the division is towards zero.
SecondsTruncated(unit, n) ==
    IF n >= 0 THEN n \div PerSecond(unit) ELSE -((-n) \div PerSecond(unit))

\* div_euclid: \div rounds down for a positive divisor.
Seconds(unit, n) == n \div PerSecond(unit)

\* rem_euclid of the unit, as nanoseconds.
SubsecNanos(unit, n) == (n % PerSecond(unit)) * (PerSecond("nanos") \div PerSecond(unit))

\* The day, or the day and hour, that a directory is named for.
DayOf(seconds) == seconds \div (HourSeconds * DayHours)
HourOf(seconds) == (seconds \div HourSeconds) % DayHours

HasDate(seconds) == seconds \in (-CalendarLimit)..CalendarLimit

\* get_partition_path of the Iceberg sink.
PartitionPath(granularity, nanos) ==
    LET s == Seconds("nanos", nanos)
    IN  IF granularity = "hourly" THEN <<DayOf(s), HourOf(s)>> ELSE <<DayOf(s)>>

-----------------------------------------------------------------------------
(* Iceberg                                                                    *)

\* apply_schema_mode_with_config; no table, no check.
ApplySchemaMode(mode, table, batch) ==
    LET known == DOMAIN batch.cols \cap DOMAIN table
        castable(c) == batch.cols[c] = table[c] \/ {batch.cols[c], table[c]} \subseteq {"nanos", "micros"}
        cast(row) == [c \in DOMAIN row |->
            IF c \in known /\ batch.cols[c] # table[c]
            THEN CastTimestamp(batch.cols[c], table[c], row[c]) ELSE row[c]]
        unchecked == mode = "fixed" \/ table = << >>
    IN  CASE unchecked -> [result |-> "Ok", batch |-> batch]
          [] ~unchecked /\ mode = "auto" ->
                IF \A c \in DOMAIN batch.cols : c \in known /\ batch.cols[c] = table[c]
                THEN [result |-> "Ok", batch |-> batch] ELSE [result |-> "Err"]
          [] ~unchecked /\ mode = "catalog" ->
                IF \A c \in known : castable(c)
                THEN [result |-> "Ok", batch |->
                        [cols |-> [c \in known |-> table[c]],
                         rows |-> [i \in 1..Len(batch.rows) |-> cast(batch.rows[i])]]]
                ELSE [result |-> "Err"]

\* The rows whose key is the given one, in their order.
RowsWith(rows, key, value) == AtPlaces(rows, {i \in 1..Len(rows) : key[i] = value})

\* partition_batch: a null, or a microsecond that overflows, fails the batch.
PartitionBatch(batch, granularity) ==
    LET type == batch.cols["timestamp"]
        nanos(i) == IF type = "nanos" THEN batch.rows[i]["timestamp"]
                    ELSE batch.rows[i]["timestamp"] * Scale
        rows == 1..Len(batch.rows)
        path == [i \in rows |-> PartitionPath(granularity, nanos(i))]
        paths == SetToSeq({path[i] : i \in rows})
    IN  IF \/ "timestamp" \notin DOMAIN batch.cols \/ type \notin {"nanos", "micros"}
           \/ \E i \in rows : batch.rows[i]["timestamp"] = Null \/ ~InI64(nanos(i))
        THEN LayoutErr
        ELSE Parts([k \in 1..Len(paths) |->
                [path |-> paths[k], rows |-> RowsWith(batch.rows, path, paths[k])]])

\* prepare_iceberg_batches: the outcomes.
PrepareIceberg(sorter, config, batch) ==
    LET mapped == ApplySchemaMode(config.mode, config.table, batch)
    IN  IF batch.rows = << >> THEN {Parts(<< >>)}
        ELSE IF mapped.result = "Err" THEN {LayoutErr}
        ELSE {IF s.result = "Err" THEN LayoutErr ELSE PartitionBatch(s.batch, config.granularity) :
                s \in Sort(sorter, mapped.batch, << >>)}

-----------------------------------------------------------------------------
(* Kafka                                                                      *)

\* extract_partition_slices: the runs of equal keys, Null being a key.
ExtractPartitionSlices(batch, column) ==
    LET n == Len(batch.rows)
        starts == {i \in 1..n : i = 1 \/ batch.rows[i][column] # batch.rows[i - 1][column]}
        from == Ascending(starts)
        until(k) == IF k = Len(from) THEN n ELSE from[k + 1] - 1
    IN  IF column \notin DOMAIN batch.cols \/ batch.cols[column] # "utf8" THEN LayoutErr
        ELSE Parts([k \in 1..Len(from) |->
                [path |-> batch.rows[from[k]][column], rows |-> SubSeq(batch.rows, from[k], until(k))]])

\* prepare_kafka_slices: the outcomes, each part being one message.
PrepareKafka(sorter, config, batch) ==
    IF batch.rows = << >> THEN {Parts(<< >>)}
    ELSE {CASE s.result = "Err" -> LayoutErr
            [] s.result = "Ok" /\ config.key = << >> -> Parts(<<[path |-> Null, rows |-> s.batch.rows]>>)
            [] OTHER -> ExtractPartitionSlices(s.batch, config.key[1]) :
          s \in Sort(sorter, batch, config.key)}

-----------------------------------------------------------------------------
(* Parquet                                                                    *)

\* The unit of the timestamp column, if its type can be read as a time.
TimeUnit(batch) ==
    LET type == IF "timestamp" \in DOMAIN batch.cols THEN batch.cols["timestamp"] ELSE "none"
    IN  IF type = "int64" THEN "nanos"
        ELSE IF type \in TimeUnits THEN type ELSE "none"

\* extract_temporal_components and row_key: without a time, the time now.
RowKey(batch, row, now) ==
    LET unit == TimeUnit(batch)
        dated == unit # "none" /\ row["timestamp"] # Null /\ HasDate(Seconds(unit, row["timestamp"]))
        s == IF dated THEN Seconds(unit, row["timestamp"]) ELSE now
    IN  <<DayOf(s), HourOf(s)>>

\* format_partition_path: the hour is named only if the pattern asks for it.
FormatPartitionPath(pattern, key) == IF "hour" \in pattern THEN key ELSE <<key[1]>>

\* route_batch: one part for each key, in the order the keys are met.
RouteBatch(config, batch) ==
    LET rows == 1..Len(batch.rows)
        key == [i \in rows |-> RowKey(batch, batch.rows[i], config.now)]
        firsts == Ascending({i \in rows : \A j \in 1..(i - 1) : key[j] # key[i]})
    IN  Parts([k \in 1..Len(firsts) |->
            [path |-> FormatPartitionPath(config.pattern, key[firsts[k]]),
             rows |-> RowsWith(batch.rows, key, key[firsts[k]])]])

-----------------------------------------------------------------------------
(* Elasticsearch and StarRocks                                                *)

\* write_timestamp, write_timestamp_col: the parts of the ISO 8601 text.
TimestampText(unit, n) ==
    IF ~HasDate(Seconds(unit, n)) THEN [json |-> "null"]
    ELSE [json |-> "time", seconds |-> Seconds(unit, n), nanos |-> SubsecNanos(unit, n)]

\* Lines of a text: an attribute may hold JSON over several.
LinesOf(text) == IF text = "jsonLines" THEN 2 ELSE 1

\* write_string_col: JSON goes in as it is when attributes are unpacked, but over
\* several lines it is written anew; what only starts like JSON is a string, and
\* write_escaped_string leaves no line ends in one.
StringText(text, unpack) ==
    IF unpack /\ text \in {"json", "jsonLines"}
    THEN [json |-> "object", lines |-> IF LinesOf(text) > 1 THEN 1 ELSE LinesOf(text)]
    ELSE [json |-> "string", lines |-> 1]

\* write_numeric_col: a float that is not finite is null.
NumericText(value) == IF value = "NaN" THEN [json |-> "null"] ELSE [json |-> "number", v |-> value]

\* write_value
WriteValue(type, value, unpack) ==
    IF value = Null \/ type = "none" THEN [json |-> "null"]
    ELSE CASE type \in TimeUnits -> TimestampText(type, value)
           [] type = "utf8" -> StringText(value, unpack)
           [] type \in {"float", "int64"} -> NumericText(value)
           [] type = "bool" -> [json |-> "bool", v |-> value]
           [] OTHER -> [json |-> "string", lines |-> 1]

\* inject_signal_type_column, for a table that holds all signals.
InjectSignalType(batch, column, signal) ==
    [cols |-> [c \in DOMAIN batch.cols \cup {column} |-> IF c = column THEN "utf8" ELSE batch.cols[c]],
     rows |-> [i \in 1..Len(batch.rows) |->
        [c \in DOMAIN batch.rows[i] \cup {column} |-> IF c = column THEN signal ELSE batch.rows[i][c]]]]

\* The preparation of a lease: the outcomes, each one payload.
PrepareStarRocks(sorter, config, batch) ==
    LET final(b) == IF config.unified THEN InjectSignalType(b, "signal_type", config.signal) ELSE b
    IN  IF batch.rows = << >> THEN {Parts(<< >>)}
        ELSE {IF s.result = "Err" THEN LayoutErr
              ELSE Parts(<<[path |-> Null, rows |-> final(s.batch).rows]>>) :
                s \in Sort(sorter, batch, << >>)}

-----------------------------------------------------------------------------
(* One batch or one value                                                     *)

\* The sorter that the sink is built with.
SorterOf(j) == IF j.sink = "iceberg" THEN IcebergSorter(j.orderBy) ELSE SinkSorter(j.orderBy)

LayoutAnswers(j) ==
    IF ~SorterOf(j).ok THEN {LayoutErr}
    ELSE CASE j.sink = "iceberg" -> PrepareIceberg(SorterOf(j), j.config, j.batch)
           [] j.sink = "kafka" -> PrepareKafka(SorterOf(j), j.config, j.batch)
           [] j.sink = "starrocks" -> PrepareStarRocks(SorterOf(j), j.config, j.batch)
           [] j.sink = "parquet" -> {RouteBatch(j.config, j.batch)}

AnswerLayout == Answer("layout", LayoutAnswers(job))
AnswerDocument == Answer("document", {WriteValue(job.type, job.value, job.unpack)})

RowSpec == Asked(LayoutJobs \cup DocumentJobs) /\ [][AnswerLayout \/ AnswerDocument]_jobVars

-----------------------------------------------------------------------------
(* What the layout promises                                                   *)

\* Every row of the batch is in one part, once.
EachRowOnce(batch, parts) ==
    \A i \in 1..Len(batch.rows) :
        Cardinality({at \in (1..Len(parts)) \X (1..Len(batch.rows)) :
            /\ at[2] <= Len(parts[at[1]].rows)
            /\ parts[at[1]].rows[at[2]].id = batch.rows[i].id}) = 1

OnePartPerPath(parts) ==
    \A j, k \in 1..Len(parts) : parts[j].path = parts[k].path => j = k

RowsInOrder(sorter, cols, parts) ==
    \A k \in 1..Len(parts) : \A n \in 1..(Len(parts[k].rows) - 1) :
        InOrder(sorter.keys, cols, parts[k].rows[n], parts[k].rows[n + 1])

\* The time lies in the hour or day that the directory is named for.
WithinPath(path, unit, n) ==
    LET hourly == Len(path) = 2
        from == IF hourly THEN (path[1] * DayHours + path[2]) * HourSeconds
                ELSE path[1] * DayHours * HourSeconds
        length == IF hourly THEN HourSeconds ELSE DayHours * HourSeconds
    IN  from * PerSecond(unit) <= n /\ n < (from + length) * PerSecond(unit)

IcebergIsLaidOut(sorter, config, batch, parts) ==
    LET mapped == ApplySchemaMode(config.mode, config.table, batch).batch
    IN  /\ OnePartPerPath(parts) /\ RowsInOrder(sorter, mapped.cols, parts)
        /\ \A k \in 1..Len(parts) : \A n \in 1..Len(parts[k].rows) :
              WithinPath(parts[k].path, mapped.cols["timestamp"], parts[k].rows[n]["timestamp"])

KafkaIsLaidOut(sorter, config, batch, parts) ==
    /\ OnePartPerPath(parts) /\ RowsInOrder(sorter, batch.cols, parts)
    /\ \A k \in 1..Len(parts) : \A n \in 1..Len(parts[k].rows) :
          config.key # << >> => parts[k].rows[n][config.key[1]] = parts[k].path

ParquetIsLaidOut(config, batch, parts) ==
    LET unit == TimeUnit(batch)
        dated(t) == unit # "none" /\ t # Null /\ t \div PerSecond(unit) \in (-CalendarLimit)..CalendarLimit
    IN  \A k \in 1..Len(parts) : \A n \in 1..Len(parts[k].rows) :
          LET row == parts[k].rows[n]
          IN  /\ IF dated(row["timestamp"]) THEN WithinPath(parts[k].path, unit, row["timestamp"])
                 ELSE WithinPath(parts[k].path, "seconds", config.now)
              /\ n > 1 => parts[k].rows[n - 1].id < row.id

StarRocksIsLaidOut(sorter, config, batch, parts) ==
    /\ RowsInOrder(sorter, batch.cols, parts)
    /\ config.unified => \A k \in 1..Len(parts) : \A n \in 1..Len(parts[k].rows) :
                            parts[k].rows[n]["signal_type"] = config.signal

\* Each row goes to exactly one message, data file or writer, the one its key or
\* its time calls for, also before 1970; a key or a partition is not split over
\* several in one batch, and within each the rows have the configured order.
LaidOut(sink, sorter, config, batch, out) ==
    out.result = "Ok" =>
        /\ EachRowOnce(batch, out.parts)
        /\ CASE sink = "iceberg" -> IcebergIsLaidOut(sorter, config, batch, out.parts)
             [] sink = "kafka" -> KafkaIsLaidOut(sorter, config, batch, out.parts)
             [] sink = "parquet" -> ParquetIsLaidOut(config, batch, out.parts)
             [] sink = "starrocks" -> StarRocksIsLaidOut(sorter, config, batch, out.parts)

\* A value of a bulk document does not break its line (the names of its fields are written
\* as they are), and its timestamp is that of the row.
DocumentIsFaithful(type, value, text) ==
    /\ text.json \in {"string", "object"} => text.lines = 1
    /\ text.json = "time" =>
          /\ text.nanos \in 0..(PerSecond("nanos") - 1)
          /\ (text.seconds * PerSecond("nanos") + text.nanos) * PerSecond(type) = value * PerSecond("nanos")

\* Each row is written once, where its key or its time belongs, in the configured
\* order; no value of a bulk document breaks its line, and its time is the row's own.
RowsKeepTheirPlace ==
    /\ Done("layout") => LaidOut(job.sink, SorterOf(job), job.config, job.batch, answer[1])
    /\ Done("document") => DocumentIsFaithful(job.type, job.value, answer[1])

=============================================================================
