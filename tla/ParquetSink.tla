----------------------------- MODULE ParquetSink -----------------------------
(* The Parquet sink of one signal: a batch is acknowledged when it is received *)
(* (recv_passthrough), its rows go to the open writer of their partition, and  *)
(* closed files are uploaded by background tasks whose errors are picked up    *)
(* later.  Open writers are bounded in number, in rows and in memory, and are  *)
(* closed least recently used first.                                           *)
EXTENDS LeaseFeed, SequencesExt, Places

CONSTANTS
    PartitionOf,  \* Batch -> the partition of each of its rows, in row order.
    MaxOpen,      \* max_open_partitions.
    MaxRecords,   \* max_records of a file; 0 is no limit.
    MaxUploads,   \* max_concurrent_uploads; 0 is no limit.
    MemoryLimit   \* global_memory_limit_bytes in rows; 0 is no limit.

ASSUME ParquetAssumption ==
    /\ PartitionOf \in [1..MaxSeq -> Seq(Nat)]
    /\ MaxOpen \in Nat \ {0}
    /\ {MaxRecords, MaxUploads, MemoryLimit} \subseteq Nat

VARIABLES
    stage,        \* "receive", "drain" or "ended".
    result,       \* final_res of run: "Ok" or "Err".
    route,        \* Parts of the current batch that are not yet written.
    writers,      \* Open writers: partition -> rows written, file too old.
    lru,          \* Open partitions, least recently used first.
    memory,       \* global_memory_bytes.
    uploads       \* in_flight_uploads: files handed to background tasks.

parquetVars == <<stage, result, route, writers, lru, memory, uploads>>

RowsOfBatch(s) == IF s \in Empty THEN << >> ELSE PartitionOf[s]
AllPartitions == UNION {Range(PartitionOf[s]) : s \in 1..MaxSeq}
AllRows == UNION {{<<s, i>> : i \in 1..Len(RowsOfBatch(s))} : s \in 1..MaxSeq}

ParquetTypeOK ==
    /\ stage \in {"receive", "drain", "ended"} /\ result \in {"Ok", "Err"}
    /\ DOMAIN writers \subseteq AllPartitions
    /\ memory \in Nat
    /\ \A i \in 1..Len(uploads) :
           uploads[i].rows \subseteq AllRows /\ uploads[i].state \in {"running", "done", "failed"}

ParquetInit ==
    /\ stage = "receive" /\ result = "Ok"
    /\ route = << >> /\ writers = << >> /\ lru = << >>
    /\ memory = 0
    /\ uploads = << >>

SameInput == UNCHANGED <<configured, workload, arrived, done, quarantined, held, nacked, loop, restarts>>

-----------------------------------------------------------------------------
(* route_batch                                                                *)

RowsIn(s, p) == {<<s, i>> : i \in {k \in 1..Len(RowsOfBatch(s)) : PartitionOf[s][k] = p}}

\* The keys of a batch, in the order in which they first appear.
DistinctKeys(parts) ==
    AtPlaces(parts, {k \in 1..Len(parts) : \A j \in 1..(k - 1) : parts[j] # parts[k]})

\* The batch by partition.
SubBatches(s) ==
    LET keys == DistinctKeys(RowsOfBatch(s))
    IN  [n \in 1..Len(keys) |-> [part |-> keys[n], rows |-> RowsIn(s, keys[n]), admitted |-> FALSE]]

\* check_background_errors: finished uploads leave the list, the failed ones as
\* an error.
Failed(u) == \E i \in 1..Len(u) : u[i].state = "failed"
Unfinished(u) == AtPlaces(u, {i \in 1..Len(u) : u[i].state = "running"})

\* A step of the routing failed: run stops receiving and flushes.
RouteFails ==
    /\ stage' = "drain" /\ result' = "Err" /\ route' = << >>

\* recv_passthrough acknowledges the batch before a row of it is written.
ReceiveBatch(l) ==
    /\ stage = "receive" /\ route = << >>
    /\ l \in NextLeases /\ l.first = l.last /\ l.first \notin Malformed
    /\ done' = done \cup Seqs(l)
    /\ uploads' = Unfinished(uploads)
    /\ IF Failed(uploads)
       THEN RouteFails
       ELSE route' = SubBatches(l.first) /\ UNCHANGED <<stage, result>>
    /\ UNCHANGED <<configured, workload, arrived, quarantined, held, nacked, loop, faults, restarts, stored,
                   writers, lru, memory>>

\* route_and_prepare fails on a batch: it was acknowledged and none of it is
\* written, and run ends with the error.
PrepareFails(l) ==
    /\ stage = "receive" /\ route = << >>
    /\ l \in NextLeases /\ l.first = l.last
    /\ IF l.first \in Malformed THEN UNCHANGED faults ELSE Fault
    /\ done' = done \cup Seqs(l)
    /\ RouteFails
    /\ UNCHANGED <<configured, workload, arrived, quarantined, held, nacked, loop, restarts, stored,
                   writers, lru, memory, uploads>>

-----------------------------------------------------------------------------
(* Closing a writer                                                           *)

Drop(f, p) == [q \in DOMAIN f \ {p} |-> f[q]]

Without(s, p) == AtPlaces(s, {i \in 1..Len(s) : s[i] # p})

UploadsFull == MaxUploads > 0 /\ Len(uploads) >= MaxUploads

\* close_writer and retire_active_writer: the memory is given back, the footer
\* is written and the upload handed over; when the footer cannot be written the
\* upload aborts.  Errors of earlier uploads surface here.
CloseWriter(p) ==
    /\ ~UploadsFull
    /\ writers' = Drop(writers, p)
    /\ lru' = Without(lru, p)
    /\ memory' = memory - Cardinality(writers[p].rows)
    /\ \/ /\ uploads' = Append(Unfinished(uploads), [rows |-> writers[p].rows, state |-> "running"])
          /\ IF Failed(uploads) THEN RouteFails ELSE UNCHANGED <<stage, result, route>>
          /\ UNCHANGED faults
       \/ /\ Fault
          /\ uploads' = Append(Unfinished(uploads), [rows |-> writers[p].rows, state |-> "failed"])
          /\ RouteFails
    /\ SameInput /\ UNCHANGED stored

\* The uploads are at their limit: the oldest one is awaited.
WaitOldest ==
    /\ uploads # << >>
    /\ Head(uploads).state # "running"
    /\ uploads' = Tail(uploads)
    /\ IF Head(uploads).state = "failed" THEN RouteFails ELSE UNCHANGED <<stage, result, route>>
    /\ SameInput /\ UNCHANGED <<faults, stored, writers, lru, memory>>

-----------------------------------------------------------------------------
(* route_sub_batch                                                            *)

Next1 == Head(route)

TooLarge == MemoryLimit > 0 /\ Cardinality(Next1.rows) > MemoryLimit

\* Mutant: the memory of the batch to be written is not counted.
OverMemoryLate ==
    MemoryLimit > 0 /\ ~Next1.admitted /\ memory > MemoryLimit /\ DOMAIN writers # {}

\* The part does not fit beside what is buffered.
OverMemory ==
    /\ MemoryLimit > 0 /\ ~Next1.admitted
    /\ memory + Cardinality(Next1.rows) > MemoryLimit
    /\ DOMAIN writers # {}

IsOpen(p) == p \in DOMAIN writers
IsFull(p) == MaxRecords > 0 /\ Cardinality(writers[p].rows) >= MaxRecords

\* The writer that has to be closed before the next slice can be written.
MustClose ==
    IF OverMemory THEN {Head(lru)}
    ELSE IF IsOpen(Next1.part)
         THEN {p \in {Next1.part} : IsFull(p) \/ writers[p].old}
         ELSE IF Cardinality(DOMAIN writers) >= MaxOpen THEN {Head(lru)} ELSE {}

RejectTooLarge ==
    /\ route # << >> /\ TooLarge
    /\ RouteFails
    /\ SameInput /\ UNCHANGED <<faults, stored, writers, lru, memory, uploads>>

MakeRoom ==
    /\ route # << >> /\ ~TooLarge
    /\ \E p \in MustClose : CloseWriter(p)

\* The partition becomes the most recently used one.
Touch(p) == Append(Without(lru, p), p)

\* The rows that still fit the file, in row order.
Slice(p) ==
    LET used == IF IsOpen(p) THEN Cardinality(writers[p].rows) ELSE 0
        room == IF MaxRecords = 0 THEN Cardinality(Next1.rows) ELSE MaxRecords - used
    IN  {r \in Next1.rows : Cardinality({q \in Next1.rows : q[2] < r[2]}) < room}

\* The file is given up and its memory with it.
AbortWriter(p) ==
    /\ writers' = Drop(writers, p)
    /\ lru' = Without(lru, p)
    /\ memory' = memory - (IF IsOpen(p) THEN Cardinality(writers[p].rows) ELSE 0)

\* The slice is appended to the open file, or to a new one; a write that fails
\* drops the file, and its upload aborts.
WriteSlice ==
    /\ route # << >> /\ ~TooLarge /\ MustClose = {}
    /\ LET p == Next1.part
           slice == Slice(p)
           rows == slice \cup (IF IsOpen(p) THEN writers[p].rows ELSE {})
           old == IF IsOpen(p) THEN writers[p].old ELSE FALSE
           rest == Next1.rows \ slice
       IN  \/ /\ writers' = [q \in DOMAIN writers \cup {p} |->
                               IF q = p THEN [rows |-> rows, old |-> old] ELSE writers[q]]
              /\ lru' = Touch(p)
              /\ memory' = memory + Cardinality(slice)
              /\ route' = IF rest = {} THEN Tail(route)
                          ELSE <<[part |-> p, rows |-> rest, admitted |-> TRUE]>> \o Tail(route)
              /\ UNCHANGED <<stage, result, faults>>
           \/ /\ Fault
              /\ AbortWriter(p)
              /\ RouteFails
    /\ SameInput /\ UNCHANGED <<stored, uploads>>

\* A file that reached its size is closed as soon as it is written.
CloseFull ==
    /\ stage = "receive"
    /\ \E p \in DOMAIN writers : IsFull(p) /\ CloseWriter(p)

-----------------------------------------------------------------------------
(* Time, background tasks, shutdown                                           *)

FileAges ==
    /\ stage # "ended"
    /\ \E p \in DOMAIN writers :
           ~writers[p].old /\ writers' = [writers EXCEPT ![p].old = TRUE]
    /\ SameInput /\ UNCHANGED <<faults, stored, stage, result, route, lru, memory, uploads>>

\* sweep_idle_writers.
Sweep ==
    /\ stage = "receive" /\ route = << >>
    /\ \E p \in DOMAIN writers : writers[p].old /\ CloseWriter(p)

\* Mutant: a failed upload is only logged.
UploadFailsQuietly(i) ==
    \/ /\ uploads' = [uploads EXCEPT ![i].state = "done"]
       /\ stored' = stored \o SetToSeq({[first |-> r[1], last |-> r[1], part |-> r[2]] : r \in uploads[i].rows})
       /\ UNCHANGED faults
    \/ Fault /\ uploads' = [uploads EXCEPT ![i].state = "done"] /\ UNCHANGED stored

\* The task of AsyncUploader::start ends: the file is complete and visible, or
\* the upload is aborted and no part of it is.
UploadEnds(i) ==
    \/ /\ uploads' = [uploads EXCEPT ![i].state = "done"]
       /\ stored' = stored \o SetToSeq({[first |-> r[1], last |-> r[1], part |-> r[2]] : r \in uploads[i].rows})
       /\ UNCHANGED faults
    \/ Fault /\ uploads' = [uploads EXCEPT ![i].state = "failed"] /\ UNCHANGED stored

FinishUpload ==
    /\ \E i \in 1..Len(uploads) : uploads[i].state = "running" /\ UploadEnds(i)
    /\ SameInput /\ UNCHANGED <<stage, result, route, writers, lru, memory>>

\* The input ends: a graceful shutdown after everything was received.
InputEnds ==
    /\ stage = "receive" /\ route = << >> /\ Waiting = {} /\ arrived = MaxSeq
    /\ stage' = "drain"
    /\ SameInput /\ UNCHANGED <<faults, stored, result, route, writers, lru, memory, uploads>>

\* Mutant: run returns when the writers are closed.
DrainSkipsUploads ==
    /\ stage = "drain"
    /\ \/ \E p \in DOMAIN writers : CloseWriter(p)
       \/ /\ DOMAIN writers = {}
          /\ stage' = "ended"
          /\ SameInput
          /\ UNCHANGED <<faults, stored, result, route, writers, lru, memory, uploads>>

\* flush_all closes every writer whatever fails; wait_for_all_uploads follows.
Drain ==
    /\ stage = "drain"
    /\ \/ \E p \in DOMAIN writers : CloseWriter(p)
       \/ DOMAIN writers = {} /\ WaitOldest
       \/ /\ DOMAIN writers = {} /\ uploads = << >>
          /\ stage' = "ended"
          /\ SameInput
          /\ UNCHANGED <<faults, stored, result, route, writers, lru, memory, uploads>>

ParquetSteps ==
    \/ \E l \in NextLeases : ReceiveBatch(l) \/ PrepareFails(l)
    \/ RejectTooLarge \/ MakeRoom \/ WriteSlice \/ CloseFull \/ Sweep
    \/ UploadsFull /\ WaitOldest
    \/ FinishUpload
    \/ InputEnds \/ Drain

ParquetNext ==
    \/ ParquetSteps
    \/ FileAges
    \/ Arrive /\ UNCHANGED parquetVars

=============================================================================
