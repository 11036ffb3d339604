--------------------------- MODULE VariantEncoding ---------------------------
(* The Parquet sink's Variant encoder, and a reader of the Variant format to   *)
(* hold it against.  A buffer is a sequence of cells: a header is one cell, an *)
(* integer is written as digits of base Base, lowest first.  JSON values are   *)
(* records [t, v]; an object is a sequence of <<key, value>>, a key is a       *)
(* number that orders it and its text has as many cells as the number says.    *)
(* An int is what serde_json reads as an i64 or a u64; a double is one cell.   *)
EXTENDS Integers, Sequences, FiniteSets, FiniteSetsExt, SequencesExt

CONSTANTS
    Base,         \* Values of one byte: 256.
    ShortString,  \* Lengths below this fit the header: 64.
    Spacing       \* From one double to the next between 2^63 and 2^64: 2048.

ASSUME VariantAssumption ==
    Base \in Nat \ {0, 1} /\ ShortString \in Nat /\ Spacing \in Nat \ {0}

\* The results of Op for the elements of a sequence.
Each(Op(_), seq) == FoldLeft(LAMBDA done, e : Append(done, Op(e)), << >>, seq)

Digits(n, size) == [i \in 1..size |-> (n \div Base^(i - 1)) % Base]

\* write_int_to_buf; a value that does not fit is an error there.
WriteInt(n, size) == Digits(n, size)

\* read_int_le.
ReadInt(buf, pos, size) ==
    FoldLeft(LAMBDA acc, i : acc + buf[pos + i - 1] * Base^(i - 1), 0, [i \in 1..size |-> i])

OffsetSize(n) == IF n < Base THEN 1 ELSE IF n < Base^2 THEN 2 ELSE 4

\* Mutant: the ids are as wide as the object's own fields need.
FieldIdSizeOfObject(dictionary, entries) ==
    IF Len(entries) <= Base THEN 1 ELSE IF Len(entries) <= Base^2 THEN 2 ELSE 4

\* Field ids are places in the dictionary, from 0.
FieldIdSize(dictionary, entries) ==
    IF Len(dictionary) <= Base THEN 1 ELSE IF Len(dictionary) <= Base^2 THEN 2 ELSE 4

-----------------------------------------------------------------------------
(* The dictionary                                                             *)

RECURSIVE KeysOf(_)
\* collect_all_keys.
KeysOf(json) ==
    CASE json.t = "object" ->
            UNION {{json.v[i][1]} \cup KeysOf(json.v[i][2]) : i \in 1..Len(json.v)}
      [] json.t = "array" -> UNION {KeysOf(json.v[i]) : i \in 1..Len(json.v)}
      [] OTHER -> {}

\* sort_unstable and dedup.
Dictionary(json) ==
    LET keys == KeysOf(json)
    IN  SelectSeq([k \in 1..Max(keys \cup {0}) |-> k], LAMBDA k : k \in keys)

KeyText(key) == [i \in 1..key |-> key]

\* Starts of the parts, and the end of the last one.
Offsets(parts) ==
    [i \in 1..(Len(parts) + 1) |->
        FoldLeft(LAMBDA n, p : n + Len(p), 0, SubSeq(parts, 1, i - 1))]

WriteOffsets(offsets, size) ==
    FlattenSeq([i \in 1..Len(offsets) |-> WriteInt(offsets[i], size)])

\* encode_dictionary_metadata; the offsets may also take three bytes here.
DictionaryMetadata(keys) ==
    LET texts == [i \in 1..Len(keys) |-> KeyText(keys[i])]
        total == Last(Offsets(texts))
        most == IF total > Len(keys) THEN total ELSE Len(keys)
        size == IF most < Base THEN 1 ELSE IF most < Base^2 THEN 2
                ELSE IF most < Base^3 THEN 3 ELSE 4
    IN  <<[header |-> "metadata", size |-> size]>> \o WriteInt(Len(keys), size)
        \o WriteOffsets(Offsets(texts), size) \o FlattenSeq(texts)

\* STATIC_EMPTY_METADATA.
EmptyMetadata == <<[header |-> "metadata", size |-> 1], 0, 0>>

\* parse_dictionary_keys.
ParseDictionaryKeys(meta) ==
    LET size == meta[1].size
        count == ReadInt(meta, 2, size)
        offset(i) == ReadInt(meta, 2 + i * size, size)
        start == 2 + (count + 2) * size
    IN  [i \in 1..count |-> SubSeq(meta, start + offset(i), start + offset(i + 1) - 1)]

-----------------------------------------------------------------------------
(* Values                                                                     *)

\* Number of elements: one byte, or four when there are more.
WriteCount(n) == IF n >= Base THEN WriteInt(n, 4) ELSE WriteInt(n, 1)

\* Two's complement in that many bytes.
FitsIn(n, width) == n \in -(Base^width \div 2)..(Base^width \div 2 - 1)

\* The narrowest of int8, int16, int32 and int64, for what as_i64 gives.
IntWidth(n) == Min({width \in {1, 2, 4, 8} : FitsIn(n, width)})

\* u as f64 for a u64 above i64::MAX: the nearest double, of two the even one.
AsDouble(u) ==
    LET below == u \div Spacing
        twice == 2 * (u % Spacing)
        up == twice > Spacing \/ (twice = Spacing /\ below % 2 = 1)
    IN  (IF up THEN below + 1 ELSE below) * Spacing

\* Mutant: a u64 above i64::MAX is cast to i64.
EncodeIntWraps(n) ==
    LET width == IF FitsIn(n, 8) THEN IntWidth(n) ELSE 8
    IN  <<[header |-> "int", width |-> width]>> \o Digits(n % Base^width, width)

\* The header and the bytes of an integer.
EncodeInt(n) ==
    IF FitsIn(n, 8)
    THEN <<[header |-> "int", width |-> IntWidth(n)]>> \o Digits(n % Base^IntWidth(n), IntWidth(n))
    ELSE <<[header |-> "double"], AsDouble(n)>>

EncodeString(text) ==
    IF Len(text) < ShortString THEN <<[header |-> "short", length |-> Len(text)]>> \o text
    ELSE <<[header |-> "string"]>> \o WriteInt(Len(text), 4) \o text

EncodePrimitive(json) ==
    CASE json.t \in {"null", "true", "false"} -> <<[header |-> json.t]>>
      [] json.t = "int" -> EncodeInt(json.v)
      [] json.t = "double" -> <<[header |-> "double"], json.v>>
      [] json.t = "string" -> EncodeString(json.v)

RECURSIVE EncodeValue(_, _)

\* encode_array_value.
EncodeArray(elements, dictionary) ==
    LET parts == Each(LAMBDA e : EncodeValue(e, dictionary), elements)
        size == OffsetSize(Last(Offsets(parts)))
    IN  <<[header |-> "array", large |-> Len(elements) >= Base, offsets |-> size]>>
        \o WriteCount(Len(elements)) \o WriteOffsets(Offsets(parts), size) \o FlattenSeq(parts)

\* encode_object_to_buf: the fields by key, their ids found in the dictionary.
EncodeObject(fields, dictionary) ==
    LET entries == SortSeq(fields, LAMBDA a, b : a[1] < b[1])
        parts == Each(LAMBDA e : EncodeValue(e[2], dictionary), entries)
        id(key) == (CHOOSE i \in 1..Len(dictionary) : dictionary[i] = key) - 1
        idSize == FieldIdSize(dictionary, entries)
        size == OffsetSize(Last(Offsets(parts)))
    IN  <<[header |-> "object", large |-> Len(entries) >= Base, ids |-> idSize, offsets |-> size]>>
        \o WriteCount(Len(entries))
        \o FlattenSeq([i \in 1..Len(entries) |-> WriteInt(id(entries[i][1]), idSize)])
        \o WriteOffsets(Offsets(parts), size) \o FlattenSeq(parts)

\* encode_json_value.
EncodeValue(json, dictionary) ==
    CASE json.t = "array" -> EncodeArray(json.v, dictionary)
      [] json.t = "object" -> EncodeObject(json.v, dictionary)
      [] OTHER -> EncodePrimitive(json)

\* encode_to_scratch and encode_json_internal: a cell's text is empty, plain,
\* broken JSON or a JSON value.
EncodeCell(cell) ==
    CASE cell.t \in {"empty", "null"} -> [result |-> "Null"]
      [] cell.t = "broken" -> [result |-> "Err"]
      [] cell.t = "plain" ->
            [result |-> "Ok", meta |-> EmptyMetadata, value |-> EncodeString(cell.v)]
      [] cell.t \in {"array", "object"} /\ ~(cell.t = "object" /\ cell.v = << >>) ->
            [result |-> "Ok", meta |-> DictionaryMetadata(Dictionary(cell)),
             value |-> EncodeValue(cell, Dictionary(cell))]
      [] cell.t = "object" /\ cell.v = << >> ->
            [result |-> "Ok", meta |-> EmptyMetadata, value |-> EncodeObject(<< >>, << >>)]
      [] OTHER -> [result |-> "Ok", meta |-> EmptyMetadata, value |-> EncodePrimitive(cell)]

\* transform_to_variant: one encoded cell per row, or an error for the batch;
\* a null in a column that is declared not null is one.
TransformColumn(cells, nullable) ==
    LET encoded == Each(EncodeCell, cells)
    IN  IF \/ \E i \in 1..Len(cells) : encoded[i].result = "Err"
           \/ ~nullable /\ \E i \in 1..Len(cells) : encoded[i].result = "Null"
        THEN [result |-> "Err", rows |-> << >>]
        ELSE [result |-> "Ok", rows |-> encoded]

-----------------------------------------------------------------------------
(* A reader of the format                                                     *)

Signed(n, width) == IF n >= Base^width \div 2 THEN n - Base^width ELSE n

RECURSIVE ReadValue(_, _, _)
ReadValue(buf, pos, keys) ==
    LET h == buf[pos]
        container == h.header \in {"array", "object"}
        countSize == IF h.large THEN 4 ELSE 1
        count == ReadInt(buf, pos + 1, countSize)
        ids == pos + 1 + countSize
        table == IF h.header = "object" THEN ids + count * h.ids ELSE ids
        data == table + (count + 1) * h.offsets
        element(i) == ReadValue(buf, data + ReadInt(buf, table + (i - 1) * h.offsets, h.offsets), keys)
        length == IF h.header = "short" THEN h.length ELSE ReadInt(buf, pos + 1, 4)
        text == IF h.header = "short" THEN pos + 1 ELSE pos + 5
    IN  CASE h.header \in {"null", "true", "false"} -> [t |-> h.header]
          [] h.header = "int" ->
                [t |-> "int", v |-> Signed(ReadInt(buf, pos + 1, h.width), h.width)]
          [] h.header = "double" -> [t |-> "double", v |-> buf[pos + 1]]
          [] h.header \in {"short", "string"} ->
                [t |-> "string", v |-> SubSeq(buf, text, text + length - 1)]
          [] h.header = "array" -> [t |-> "array", v |-> [i \in 1..count |-> element(i)]]
          [] h.header = "object" ->
                [t |-> "object", v |-> [i \in 1..count |->
                    <<keys[ReadInt(buf, ids + (i - 1) * h.ids, h.ids) + 1], element(i)>>]]

RECURSIVE IsReadAs(_, _)
\* What a reader may take a JSON value for: itself, with the fields of objects by
\* key.  Only an integer above i64::MAX is read as a number that may be another one,
\* a double half a Spacing away at most.
IsReadAs(json, read) ==
    CASE json.t = "object" ->
            LET fields == SortSeq(json.v, LAMBDA a, b : a[1] < b[1])
            IN  /\ read.t = "object" /\ Len(read.v) = Len(fields)
                /\ \A i \in 1..Len(fields) :
                      read.v[i][1] = KeyText(fields[i][1]) /\ IsReadAs(fields[i][2], read.v[i][2])
      [] json.t = "array" ->
            /\ read.t = "array" /\ Len(read.v) = Len(json.v)
            /\ \A i \in 1..Len(json.v) : IsReadAs(json.v[i], read.v[i])
      [] json.t = "plain" -> read = [t |-> "string", v |-> json.v]
      [] json.t = "int" /\ json.v >= Base^8 \div 2 ->
            /\ read.t = "double" /\ read.v % Spacing = 0
            /\ 2 * read.v \in (2 * json.v - Spacing)..(2 * json.v + Spacing)
      [] OTHER -> read = json

\* A reader of the Variant format gets back the JSON value of every row, however
\* many keys, elements or bytes decide on the widths of ids, offsets and counts;
\* integers come back as they were up to i64::MAX, and as near doubles above it.
ReadsBack(cells, done) ==
    done.result = "Ok" =>
        \A i \in 1..Len(cells) :
            done.rows[i].result = "Ok" =>
                IsReadAs(cells[i], ReadValue(done.rows[i].value, 1,
                                             ParseDictionaryKeys(done.rows[i].meta)))

=============================================================================
