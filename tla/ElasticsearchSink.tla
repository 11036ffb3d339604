-------------------------- MODULE ElasticsearchSink --------------------------
(* The Elasticsearch sink: several leases are worked on at once, each is cut   *)
(* into bulk chunks, the chunks of all leases share the permits of one         *)
(* semaphore, and a chunk is sent again with the items the cluster was too     *)
(* busy for.  Rows that cannot be sent or indexed are quarantined one by one.  *)
(* A batch is one row here, named by its sequence number.                      *)
EXTENDS LeaseFeed, SequencesExt, Places

CONSTANTS
    ChunkRows,    \* Rows that fit max_payload_bytes.
    MaxRetries,   \* max_retries of a bulk request.
    MaxInflight,  \* max_inflight_leases of the buffer.
    Permits       \* Bulk requests at a time: the semaphore.

ASSUME ElasticsearchAssumption ==
    /\ {ChunkRows, MaxInflight, Permits} \subseteq Nat \ {0} /\ MaxRetries \in Nat

VARIABLE tasks    \* Task of each held lease: its chunks, in dispatch order.

Oversized == OfKind("oversized")
Unindexable == OfKind("unindexable")

-----------------------------------------------------------------------------
(* serialize_batch_chunks_internal                                            *)

\* Mutant: an oversized row does not end the chunk it falls into.
AddRowNoCut(chunks, row, at) ==
    IF row \in Oversized THEN chunks
    ELSE IF chunks # << >> /\ Len(Last(chunks).rows) < ChunkRows
         THEN [chunks EXCEPT ![Len(chunks)].rows = Append(@, row)]
         ELSE Append(chunks, [start |-> at, rows |-> <<row>>])

\* A row goes into the chunk before it, unless that is full or an oversized row
\* stands between them.
AddRow(chunks, row, at) ==
    IF row \in Oversized THEN chunks
    ELSE IF /\ chunks # << >>
            /\ Len(Last(chunks).rows) < ChunkRows
            /\ Last(chunks).start + Len(Last(chunks).rows) = at
         THEN [chunks EXCEPT ![Len(chunks)].rows = Append(@, row)]
         ELSE Append(chunks, [start |-> at, rows |-> <<row>>])

RowsOf(l) == Ascending(Seqs(l) \ Empty)

ChunksOf(l) ==
    LET rows == RowsOf(l)
        plan[n \in 0..Len(rows)] ==
            IF n = 0 THEN << >> ELSE AddRow(plan[n-1], rows[n], n)
    IN  plan[Len(rows)]

\* A chunk as its bulk task sees it: the items still to be sent, the items the
\* cluster refused for good, and the attempts made.
NewTask(l) ==
    [lease |-> l,
     chunks |-> [i \in 1..Len(ChunksOf(l)) |->
         [start |-> ChunksOf(l)[i].start, rows |-> ChunksOf(l)[i].rows,
          state |-> "todo", active |-> 1..Len(ChunksOf(l)[i].rows),
          refused |-> {}, attempt |-> 0]]]

ElasticsearchInit == tasks = {}

ElasticsearchTypeOK ==
    /\ {t.lease : t \in tasks} = held
    /\ \A t \in tasks : \A i \in 1..Len(t.chunks) :
           /\ t.chunks[i].state \in {"todo", "sending", "answered", "Transient", "Rejected", "Fatal"}
           /\ t.chunks[i].attempt \in 0..(MaxRetries + 1)

-----------------------------------------------------------------------------
(* run and process_lease                                                      *)

\* run spawns a task for the lease; the buffer hands out a bounded number.
StartTask(l) ==
    /\ Cardinality(held) < MaxInflight
    /\ Take(l)
    /\ ~(Seqs(l) \subseteq Empty)
    /\ Seqs(l) \cap Malformed = {}
    /\ tasks' = tasks \cup {NewTask(l)}
    /\ UNCHANGED <<configured, workload, arrived, done, quarantined, loop, faults, restarts, stored>>

\* A lease that cannot be prepared fails the buffer.
FailUnprepared(l) ==
    /\ Cardinality(held) < MaxInflight
    /\ l \in NextLeases
    /\ Seqs(l) \cap Malformed # {}
    /\ FailBuffer(l)
    /\ UNCHANGED <<configured, workload, arrived, faults, restarts, stored, tasks>>

SkipEmptyTask(l) ==
    /\ Cardinality(held) < MaxInflight
    /\ AckEmpty(l)
    /\ UNCHANGED tasks

InState(t, state) == {i \in 1..Len(t.chunks) : t.chunks[i].state = state}

Sending == UNION {{<<t.lease, i>> : i \in InState(t, "sending")} : t \in tasks}

SetChunk(t, i, c) == tasks' = (tasks \ {t}) \cup {[t EXCEPT !.chunks[i] = c]}

SameHeld == UNCHANGED <<configured, workload, arrived, done, quarantined, held, nacked, loop, restarts>>

\* dispatch: the next chunk gets a permit, which its task keeps to the end.
Dispatch(t) ==
    /\ InState(t, "todo") # {}
    /\ Cardinality(Sending) < Permits
    /\ LET i == Min(InState(t, "todo"))
       IN  SetChunk(t, i, [t.chunks[i] EXCEPT !.state = "sending"])
    /\ SameHeld /\ UNCHANGED <<faults, stored>>

\* The rows of the active items S of chunk c become visible.
Index(c, S) ==
    stored' = stored \o [k \in 1..Cardinality(S) |->
        LET row == AtPlaces(c.rows, S)[k]
        IN  [first |-> row, last |-> row, part |-> 0]]

Refused(c) == {k \in c.active : c.rows[k] \in Unindexable}

\* An attempt failed in a way that is tried again, up to max_retries times.
Retry(c) ==
    IF c.attempt + 1 > MaxRetries
    THEN [c EXCEPT !.attempt = @ + 1, !.state = "Transient"]
    ELSE [c EXCEPT !.attempt = @ + 1]

\* Mutant: the retry sends the first items of the chunk, not the busy ones.
RetryFirstItems(c, busy) ==
    [Retry(c) EXCEPT !.active = 1..Cardinality(busy), !.refused = @ \cup Refused(c)]

\* prepare_sub_payload_retry: only the items the cluster was too busy for.
RetryItems(c, busy) ==
    [Retry(c) EXCEPT !.active = busy, !.refused = @ \cup Refused(c)]

\* One bulk request: answered item by item; or no answer, with or without
\* effect; or a status that is not retried.
SendBulk(t, i) ==
    LET c == t.chunks[i]
    IN  /\ c.state = "sending"
        /\ \/ /\ Index(c, c.active \ Refused(c))
              /\ SetChunk(t, i, [c EXCEPT !.state = "answered", !.refused = @ \cup Refused(c)])
              /\ UNCHANGED faults
           \/ /\ Fault
              /\ \E busy \in SUBSET (c.active \ Refused(c)) \ {{}} :
                     /\ Index(c, c.active \ (Refused(c) \cup busy))
                     /\ SetChunk(t, i, RetryItems(c, busy))
           \/ /\ Fault
              /\ \E S \in {{}, c.active \ Refused(c)} : Index(c, S)
              /\ SetChunk(t, i, Retry(c))
           \/ /\ Fault
              /\ \E class \in {"Transient", "Rejected", "Fatal"} :
                     SetChunk(t, i, [c EXCEPT !.state = class])
              /\ UNCHANGED stored
        /\ SameHeld

\* The row of the lease an item of a chunk answers for: start_row + item_idx.
RowAt(t, c, k) == RowsOf(t.lease)[c.start + k - 1]

RefusedRows(t) ==
    UNION {{RowAt(t, t.chunks[i], k) : k \in t.chunks[i].refused} : i \in 1..Len(t.chunks)}

OversizedRows(t) == (Seqs(t.lease) \ Empty) \cap Oversized

EndTask(t) ==
    /\ tasks' = tasks \ {t}
    /\ UNCHANGED <<configured, workload, arrived, faults, restarts, stored>>

\* Mutant: a chunk that failed does not keep its lease from being acknowledged.
FinishTaskAnyway(t) ==
    /\ InState(t, "todo") \cup InState(t, "sending") = {}
    /\ done' = done \cup Seqs(t.lease)
    /\ quarantined' = quarantined \cup OversizedRows(t) \cup RefusedRows(t)
    /\ held' = held \ {t.lease}
    /\ UNCHANGED <<nacked, loop>>
    /\ EndTask(t)

\* Every chunk ended.  The worst failure decides for the lease; without one the
\* rows refused or too large are quarantined and the lease is acknowledged.
FinishTask(t) ==
    /\ InState(t, "todo") \cup InState(t, "sending") = {}
    /\ \/ InState(t, "Fatal") # {} /\ Nack(t.lease, "Fatal")
       \/ InState(t, "Fatal") = {} /\ InState(t, "Rejected") # {} /\ Nack(t.lease, "Rejected")
       \/ InState(t, "Fatal") \cup InState(t, "Rejected") = {}
            /\ InState(t, "Transient") # {} /\ Nack(t.lease, "Transient")
       \/ /\ InState(t, "answered") = 1..Len(t.chunks)
          /\ done' = done \cup Seqs(t.lease)
          /\ quarantined' = quarantined \cup OversizedRows(t) \cup RefusedRows(t)
          /\ held' = held \ {t.lease}
          /\ UNCHANGED <<nacked, loop>>
       \/ /\ InState(t, "answered") = 1..Len(t.chunks)
          /\ OversizedRows(t) \cup RefusedRows(t) # {}
          /\ FailBuffer(t.lease)
    /\ EndTask(t)

RestartElasticsearch ==
    /\ Restart
    /\ tasks' = {}

ElasticsearchSteps ==
    \/ \E l \in NextLeases : StartTask(l) \/ FailUnprepared(l) \/ SkipEmptyTask(l)
    \/ \E t \in tasks :
          \/ Dispatch(t)
          \/ \E i \in 1..Len(t.chunks) : SendBulk(t, i)
          \/ FinishTask(t)

ElasticsearchNext ==
    \/ ElasticsearchSteps
    \/ RestartElasticsearch
    \/ Arrive /\ UNCHANGED tasks

=============================================================================
