----------------------------- MODULE SinkBuffer -----------------------------
(***************************************************************************)
(* One signal ring of a SinkBuffer: the senders that fill it, the          *)
(* reservations the disk writer holds for it, and the leases that drain    *)
(* it.  Every action is one critical section on SignalRing; what the code  *)
(* does between two critical sections (an await, a blocking task, a timer) *)
(* is where other actions interleave.                                      *)
(*                                                                         *)
(* A payload is abstracted to what the ring tells apart: bytes, rows and   *)
(* schema.  Instants become facts: a backoff or a flush interval has       *)
(* elapsed or has not.  The two other rings of the triad appear only       *)
(* through the fatal error all three share.                                *)
(***************************************************************************)
EXTENDS Integers, Sequences, FiniteSets, FiniteSetsExt, SequencesExt, Sums

CONSTANTS
    Senders,           \* BufferSender handles
    Batches,           \* what a send may carry: records [bytes, rows, schema]
    Modes,             \* the configurations: records [disk, dropOldest], for
                       \* BufferMode::Disk and OverflowPolicy::DropOldest
    Budget,            \* per_signal_budget()
    MaxBatchBytes,     \* max_batch_size_bytes
    MaxBatchRecords,   \* max_batch_records, 0 for None
    FlushInterval,     \* max_batch_interval_sec is not zero
    MaxInflight,       \* max_inflight_leases
    MaxAttempts,       \* max_attempts
    MaxSeq,            \* bound: sequence numbers assigned
    MaxFaults          \* bound: failures of the sink, the disk and the tasks

ASSUME BatchAssumption ==
    \A b \in Batches : b.bytes \in Nat \ {0} /\ b.rows \in Nat \ {0}

ASSUME ConfigAssumption ==
    /\ Modes \subseteq [disk : BOOLEAN, dropOldest : BOOLEAN]
    /\ FlushInterval \in BOOLEAN
    /\ {Budget, MaxBatchBytes, MaxInflight, MaxAttempts} \subseteq Nat \ {0}
    /\ {MaxBatchRecords, MaxSeq, MaxFaults} \subseteq Nat
    /\ Budget >= MaxBatchBytes * (1 + MaxInflight)     \* BufferConfig::validate, V1

VARIABLES
    ring,       \* SignalRing, with its committed_seq and the mode it is configured for
    fatal,      \* BufferInner.fatal_error is set
    streak,     \* first_transient_failure_unix_ms is set
    pc,         \* where each sender is in reserve_or_enqueue_slot
    batch,      \* what each sender is sending
    appends,    \* AppendReservations held by the disk writer
    consumer,   \* where the SinkBuffer is in next_lease
    dataReady,  \* data_ready_notify has fired since next_lease enabled it
    leases,     \* live Lease values
    fate,       \* how each sequence number left the ring
    faults      \* failures so far

vars == <<ring, fatal, streak, pc, batch, appends, consumer, dataReady, leases, fate, faults>>

Disk == ring.mode.disk

DropOldest == ring.mode.dropOldest

Seqs == 1..MaxSeq

\* What a sender that is not sending holds.
NoBatch == [bytes |-> 0, rows |-> 0, schema |-> "none"]

Entry(seq, b) ==
    [seq |-> seq, batch |-> b, attempt |-> 0, readyAt |-> 0,
     failed |-> FALSE, aged |-> FALSE]

-----------------------------------------------------------------------------
(* SignalRing's methods, as functions from ring to ring.                    *)

HeldSeqs(r) == DOMAIN r.slots

SeqsIn(r, state) == {s \in DOMAIN r.slots : r.slots[s] = state}

SumBytes(items) == SumOf([i \in DOMAIN items |-> items[i].batch.bytes])

SumRows(items) == SumOf([i \in DOMAIN items |-> items[i].batch.rows])

ItemSeqs(items) == {items[i].seq : i \in DOMAIN items}

SetSlots(r, S, state) ==
    [r EXCEPT !.slots = [s \in DOMAIN @ \union S |-> IF s \in S THEN state ELSE @[s]]]

RemoveSlots(r, S) ==
    [r EXCEPT !.slots = [s \in DOMAIN @ \ S |-> @[s]]]

\* Mutant: batches join the queue in the order their appends finish.
EnqueueAtBack(q, item) == Append(q, item)

EnqueueOrdered(q, item) ==
    LET younger == {i \in DOMAIN q : q[i].seq > item.seq}
    IN  IF q = <<>> \/ q[Len(q)].seq < item.seq THEN InsertAt(q, Len(q) + 1, item)
        ELSE IF item.seq < q[1].seq THEN InsertAt(q, 1, item)
        ELSE InsertAt(q, IF younger = {} THEN Len(q) + 1 ELSE Min(younger), item)

\* The candidate is just below the first slot; evicted frames at or below the
\* new watermark stop being charged.
AdvanceWatermark(r) ==
    LET candidate == IF HeldSeqs(r) = {} THEN r.nextSeq - 1 ELSE Min(HeldSeqs(r)) - 1
        watermark == Max({r.committedSeq, candidate})
        passed    == {s \in DOMAIN r.unreclaimed : s <= watermark}
    IN  [r EXCEPT !.committedSeq = watermark,
                  !.unreclaimed = [s \in DOMAIN @ \ passed |-> @[s]],
                  !.unreclaimedBytes = @ - SumOf([s \in passed |-> r.unreclaimed[s]])]

\* A frame evicted from disk stays charged until its segment can be reclaimed.
RecordEvictedBatch(r, e) ==
    LET freed   == [RemoveSlots(r, {e.seq}) EXCEPT
                        !.bytesInFlight = @ - e.batch.bytes,
                        !.rowsInFlight = @ - e.batch.rows]
        charged == IF ~Disk THEN freed
                   ELSE [freed EXCEPT
                           !.unreclaimed = [s \in DOMAIN @ \union {e.seq} |->
                                              IF s = e.seq THEN e.batch.bytes ELSE @[s]],
                           !.unreclaimedBytes = @ + e.batch.bytes]
    IN  AdvanceWatermark(charged)

\* The positions of the items a discard has not taken away.
InFlightAt(r, items) ==
    {i \in DOMAIN items : items[i].seq \in SeqsIn(r, "InFlight")}

\* The queue once the items at the positions of live are back in it, from the last
\* to the first.
Requeued(q, items, live, attempt, readyAt) ==
    LET Again(e) == [e EXCEPT !.attempt = attempt, !.readyAt = readyAt]
        queue[k \in 0..Len(items)] ==
            IF k = 0 THEN q
            ELSE LET i == Len(items) + 1 - k
                 IN  IF i \in live THEN EnqueueOrdered(queue[k - 1], Again(items[i]))
                     ELSE queue[k - 1]
    IN  queue[Len(items)]

\* Items that were discarded stay out.
RequeueAtHead(r, items, attempt, readyAt) ==
    LET live == InFlightAt(r, items)
    IN  IF live = {} THEN r
        ELSE [SetSlots(r, {items[i].seq : i \in live}, "Queued") EXCEPT
                 !.queue = Requeued(@, items, live, attempt, readyAt),
                 !.inflightLeases = @ - 1]

AckEntries(r, items) ==
    LET live == InFlightAt(r, items)
    IN  IF live = {} THEN RemoveSlots(r, ItemSeqs(items))
        ELSE AdvanceWatermark(
                 [RemoveSlots(r, ItemSeqs(items)) EXCEPT
                     !.bytesInFlight = @ - SumOf([i \in live |-> items[i].batch.bytes]),
                     !.rowsInFlight = @ - SumOf([i \in live |-> items[i].batch.rows]),
                     !.inflightLeases = @ - 1])

-----------------------------------------------------------------------------

Init ==
    /\ \E m \in Modes :
        ring = [queue |-> <<>>, slots |-> <<>>, nextSeq |-> 1, committedSeq |-> 0,
                bytesInFlight |-> 0, rowsInFlight |-> 0, inflightLeases |-> 0,
                unreclaimed |-> <<>>, unreclaimedBytes |-> 0,
                closed |-> FALSE, receiverDropped |-> FALSE, fatal |-> FALSE, mode |-> m]
    /\ fatal = FALSE
    /\ streak = FALSE
    /\ pc = [s \in Senders |-> "idle"]
    /\ batch = [s \in Senders |-> NoBatch]
    /\ appends = {}
    /\ consumer = "idle"
    /\ dataReady = FALSE
    /\ leases = {}
    /\ fate = [s \in Seqs |-> "None"]
    /\ faults = 0

\* BlockedSendGuard::active
BlockedSenders == {s \in Senders : pc[s] \in {"blocked", "woken", "retrying"}}

\* space_available_notify.notify_waiters(): it reaches the senders that wait, and
\* leaves nothing for one that starts to wait later.
WakeSenders(p) == [s \in Senders |-> IF p[s] = "blocked" THEN "woken" ELSE p[s]]

NotifySpace == pc' = WakeSenders(pc)

\* notify_data_ready: it reaches a consumer that has enabled its future.
NotifyData == dataReady' = (consumer \in {"polling", "waiting", "sleeping"})

Fault == faults < MaxFaults /\ faults' = faults + 1

SetFates(S, f) == fate' = [s \in Seqs |-> IF s \in S THEN f ELSE fate[s]]

\* The InFlight slots a lease still owns.
OwnedBy(l) == ItemSeqs(l.items) \intersect SeqsIn(ring, "InFlight")

-----------------------------------------------------------------------------
(* BufferSender                                                             *)

\* Mutant: an empty queue is taken for an empty ring.
CanAdmitToEmptyQueue(r, b) ==
    r.queue = <<>> \/ r.bytesInFlight + r.unreclaimedBytes + b.bytes <= Budget

CanAdmit(r, b) ==
    LET used == r.bytesInFlight + r.unreclaimedBytes
    IN  \/ r.queue = <<>> /\ used = 0
        \/ used + b.bytes <= Budget

EvictOldest(r) == RecordEvictedBatch([r EXCEPT !.queue = Tail(@)], Head(r.queue))

\* The ring once the n oldest queued batches are evicted, one after the other.
EvictFront(r, n) ==
    LET after[k \in 0..n] == IF k = 0 THEN r ELSE EvictOldest(after[k - 1])
    IN  after[n]

\* Evicting the front of a disk ring frees nothing while an older slot holds the
\* watermark back.
FrontIsPinned(r) ==
    Disk /\ \E s \in HeldSeqs(r) : s < r.queue[1].seq

EvictionCount(r, b) ==
    IF ~DropOldest THEN 0
    ELSE Min({n \in 0..Len(r.queue) :
                 LET e == EvictFront(r, n)
                 IN  CanAdmit(e, b) \/ e.queue = <<>> \/ FrontIsPinned(e)})

\* send starts, or a blocked send wakes: the shared fatal error is read before the
\* sender registers for space_available_notify and locks the ring.
BeginSend(s) ==
    /\ ~fatal
    /\ \/ /\ pc[s] = "idle"
          /\ \E b \in Batches : batch' = [batch EXCEPT ![s] = b]
          /\ pc' = [pc EXCEPT ![s] = "ready"]
       \/ /\ pc[s] = "woken"
          /\ pc' = [pc EXCEPT ![s] = "retrying"]
          /\ UNCHANGED batch
    /\ UNCHANGED <<ring, fatal, streak, appends, consumer, dataReady, leases, fate, faults>>

SendRefused == ring.fatal \/ ring.closed \/ ring.receiverDropped

\* send returns an error.
SendFails(s) ==
    /\ \/ pc[s] \in {"ready", "retrying"} /\ SendRefused
       \/ pc[s] = "woken" /\ fatal
    /\ pc' = [pc EXCEPT ![s] = "idle"]
    /\ batch' = [batch EXCEPT ![s] = NoBatch]
    /\ UNCHANGED <<ring, fatal, streak, appends, consumer, dataReady, leases, fate, faults>>

\* A sequence number for b: queued in memory, reserved until its frame is on disk.
AssignSeq(r, b) ==
    LET seq == r.nextSeq
        new == [r EXCEPT !.nextSeq = seq + 1,
                         !.bytesInFlight = @ + b.bytes,
                         !.rowsInFlight = @ + b.rows]
    IN  IF Disk
        THEN SetSlots(new, {seq}, "Reserved")
        ELSE [SetSlots(new, {seq}, "Queued") EXCEPT !.queue = Append(@, Entry(seq, b))]

\* One pass through reserve_or_enqueue_slot's critical section: evict, then admit
\* or wait.  Both a batch in the queue and a sender that waits wake the consumer.
TrySend(s) ==
    LET b == batch[s]
        n == EvictionCount(ring, b)
        r == EvictFront(ring, n)
    IN  /\ pc[s] \in {"ready", "retrying"}
        /\ ~SendRefused
        /\ SetFates(ItemSeqs(SubSeq(ring.queue, 1, n)), "Evicted")
        /\ IF CanAdmit(r, b)
           THEN /\ r.nextSeq <= MaxSeq
                /\ ring' = AssignSeq(r, b)
                /\ pc' = [pc EXCEPT ![s] = IF Disk THEN "appending" ELSE "idle"]
                /\ batch' = [batch EXCEPT ![s] = NoBatch]
                /\ appends' = IF Disk
                              THEN appends \union {[seq |-> r.nextSeq, batch |-> b, by |-> s]}
                              ELSE appends
                /\ IF Disk THEN UNCHANGED dataReady ELSE NotifyData
           ELSE /\ ring' = r
                /\ pc' = [pc EXCEPT ![s] = "blocked"]
                /\ NotifyData
                /\ UNCHANGED <<batch, appends>>
        /\ UNCHANGED <<fatal, streak, consumer, leases, faults>>

\* The sender that awaits append a gets its answer, unless it is gone.
AnswerSender(a) ==
    [s \in Senders |-> IF s = a.by /\ pc[s] = "appending" THEN "idle" ELSE pc[s]]

\* Mutant: the rolled-back batch stays charged.
RollbackKeepsCharge(r, a) ==
    IF a.seq \notin HeldSeqs(r) THEN r ELSE AdvanceWatermark(RemoveSlots(r, {a.seq}))

\* A slot discarded meanwhile is left alone.
RollbackSlot(r, a) ==
    IF a.seq \notin HeldSeqs(r) THEN r
    ELSE AdvanceWatermark([RemoveSlots(r, {a.seq}) EXCEPT
                              !.bytesInFlight = @ - a.batch.bytes,
                              !.rowsInFlight = @ - a.batch.rows])

\* AppendReservation::finish(Ok); a slot discarded meanwhile is left alone.
AppendOk(a) ==
    /\ appends' = appends \ {a}
    /\ ring' = IF a.seq \in SeqsIn(ring, "Reserved")
               THEN [SetSlots(ring, {a.seq}, "Queued") EXCEPT
                        !.queue = EnqueueOrdered(@, Entry(a.seq, a.batch))]
               ELSE ring
    /\ pc' = AnswerSender(a)
    /\ IF a.seq \in SeqsIn(ring, "Reserved") THEN NotifyData ELSE UNCHANGED dataReady
    /\ UNCHANGED <<fatal, streak, batch, consumer, leases, fate, faults>>

\* finish(Err) rolls the slot back and records the storage failure; a reservation
\* dropped with its command, because the writer is gone, is only rolled back.
AppendFails(a) ==
    /\ Fault
    /\ appends' = appends \ {a}
    /\ \E finished \in BOOLEAN :
        /\ ring' = [RollbackSlot(ring, a) EXCEPT !.fatal = @ \/ finished]
        /\ fatal' = (fatal \/ finished)
        /\ IF finished \/ a.seq \in HeldSeqs(ring)
           THEN pc' = WakeSenders(AnswerSender(a)) /\ NotifyData
           ELSE pc' = AnswerSender(a) /\ UNCHANGED dataReady
    /\ SetFates({a.seq} \intersect HeldSeqs(ring), "RolledBack")
    /\ UNCHANGED <<streak, batch, consumer, leases>>

\* BufferSender::drop, after a send or because the sending task is aborted in the
\* middle of one; the last handle closes the ring.  The writer keeps the reservation
\* of an append whose sender is gone.
DropSender(s) ==
    /\ \/ pc[s] = "idle" /\ UNCHANGED faults
       \/ pc[s] \in {"blocked", "woken", "appending"} /\ Fault
    /\ pc' = [pc EXCEPT ![s] = "dropped"]
    /\ batch' = [batch EXCEPT ![s] = NoBatch]
    /\ IF \A t \in Senders : pc'[t] = "dropped"
       THEN ring' = [ring EXCEPT !.closed = TRUE] /\ NotifyData
       ELSE UNCHANGED <<ring, dataReady>>
    /\ UNCHANGED <<fatal, streak, appends, consumer, leases, fate>>

-----------------------------------------------------------------------------
(* SinkBuffer::next_lease                                                   *)

\* Queue entry k extends the lease that starts at the front.
Coalesces(q, k) ==
    LET upTo == SubSeq(q, 1, k)
    IN  /\ q[k].seq = q[k-1].seq + 1
        /\ q[k].readyAt = 0
        /\ q[k].attempt = q[1].attempt
        /\ q[k].batch.schema = q[1].batch.schema
        /\ SumBytes(upTo) <= MaxBatchBytes
        /\ MaxBatchRecords = 0 \/ (MaxBatchRecords > 1 /\ SumRows(upTo) <= MaxBatchRecords)

CoalesceCount(q) ==
    Max({n \in 1..Len(q) : \A k \in 2..n : Coalesces(q, k)})

\* The lease cannot grow: something other than a gap that a pending append will
\* fill stands behind its last entry.
HitsBoundary(r, n) ==
    /\ n < Len(r.queue)
    /\ ~(r.queue[n].seq + 1 \in SeqsIn(r, "Reserved"))

\* Mutant: a blocked sender does not hurry the flush.
FlushIgnoresBlocked(r, n) ==
    LET items == SubSeq(r.queue, 1, n)
    IN  \/ ~FlushInterval \/ r.closed
        \/ r.queue[1].attempt # 0 \/ r.queue[1].aged
        \/ SumBytes(items) >= MaxBatchBytes
        \/ MaxBatchRecords # 0 /\ SumRows(items) >= MaxBatchRecords
        \/ HitsBoundary(r, n)

\* Mutant: a closed ring still waits for batches that cannot come.
FlushIgnoresClosed(r, n) ==
    LET items == SubSeq(r.queue, 1, n)
    IN  \/ ~FlushInterval \/ BlockedSenders # {}
        \/ r.queue[1].attempt # 0 \/ r.queue[1].aged
        \/ SumBytes(items) >= MaxBatchBytes
        \/ MaxBatchRecords # 0 /\ SumRows(items) >= MaxBatchRecords
        \/ HitsBoundary(r, n)

\* A fresh lease that could still grow waits out the flush interval, unless the
\* ring is closed or a sender is waiting for room.
FlushIsDue(r, n) ==
    LET items == SubSeq(r.queue, 1, n)
    IN  \/ ~FlushInterval
        \/ r.closed
        \/ r.queue[1].attempt # 0
        \/ SumBytes(items) >= MaxBatchBytes
        \/ MaxBatchRecords # 0 /\ SumRows(items) >= MaxBatchRecords
        \/ HitsBoundary(r, n)
        \/ BlockedSenders # {}
        \/ r.queue[1].aged

\* Mutant: the queue's front is leased past an older batch that is being appended.
FrontOvertakesAppend(r) == r.inflightLeases < MaxInflight /\ r.queue # <<>>

\* The front of the queue is the next batch to lease, now or at a known instant.
FrontIsNext(r) ==
    /\ r.inflightLeases < MaxInflight
    /\ r.queue # <<>>
    /\ \A s \in SeqsIn(r, "Reserved") : s > r.queue[1].seq

LeaseIsReady(r) ==
    /\ FrontIsNext(r)
    /\ r.queue[1].readyAt = 0
    /\ FlushIsDue(r, CoalesceCount(r.queue))

\* Mutant: leases that may still be nacked are forgotten.
DrainedButLeased(r) == r.closed /\ r.queue = <<>>

\* What makes next_lease return None.
Drained(r) ==
    /\ r.closed
    /\ r.queue = <<>>
    /\ r.inflightLeases = 0
    /\ HeldSeqs(r) = {}

\* next_lease is called, or its wait ended: it registers for data_ready_notify, then
\* reads the shared fatal error, then locks the ring.
Awake == consumer = "idle" \/ (consumer \in {"waiting", "sleeping"} /\ dataReady)

BeginPoll ==
    /\ Awake
    /\ ~fatal
    /\ consumer' = "polling"
    /\ dataReady' = FALSE
    /\ UNCHANGED <<ring, fatal, streak, pc, batch, appends, leases, fate, faults>>

\* try_pop_signal_lease
PopLease ==
    LET n == CoalesceCount(ring.queue)
        items == SubSeq(ring.queue, 1, n)
    IN  /\ consumer = "polling"
        /\ LeaseIsReady(ring)
        /\ ring' = [SetSlots(ring, ItemSeqs(items), "InFlight") EXCEPT
                       !.queue = SubSeq(@, n + 1, Len(@)),
                       !.inflightLeases = @ + 1]
        /\ leases' = leases \union
               {[items |-> items, attempt |-> ring.queue[1].attempt, phase |-> "held"]}
        /\ consumer' = "idle"
        /\ dataReady' = FALSE
        /\ UNCHANGED <<fatal, streak, pc, batch, appends, fate, faults>>

\* next_lease returns None and the sink's loop ends, or finds nothing to lease and
\* waits for data_ready_notify, with a deadline when only time is missing.
PollNothing ==
    /\ consumer = "polling"
    /\ ~LeaseIsReady(ring)
    /\ consumer' = IF Drained(ring) THEN "finished"
                   ELSE IF FrontIsNext(ring) THEN "sleeping" ELSE "waiting"
    /\ UNCHANGED <<ring, fatal, streak, pc, batch, appends, dataReady, leases, fate, faults>>

\* SinkBuffer::drop, at the end of the sink's loop, after next_lease returned the
\* fatal error, or because the sink task failed or was aborted.
DropReceiver ==
    /\ \/ consumer = "finished" /\ UNCHANGED faults
       \/ Awake /\ fatal /\ UNCHANGED faults
       \/ consumer \in {"idle", "waiting", "sleeping"} /\ Fault
    /\ consumer' = "dropped"
    /\ dataReady' = FALSE
    /\ ring' = [ring EXCEPT !.receiverDropped = TRUE]
    /\ NotifySpace
    /\ UNCHANGED <<fatal, streak, batch, appends, leases, fate>>

\* The instant a sleeping consumer waits for has come.
WakeSleeper == dataReady' = (dataReady \/ consumer = "sleeping")

\* An entry's backoff ends: everything nacked with it becomes ready.
BackoffElapses(seq) ==
    /\ \E i \in DOMAIN ring.queue : ring.queue[i].readyAt = seq
    /\ ring' = [ring EXCEPT !.queue =
                  [i \in DOMAIN @ |-> IF @[i].readyAt = seq
                                      THEN [@[i] EXCEPT !.readyAt = 0] ELSE @[i]]]
    /\ IF ring.queue[1].readyAt = seq THEN WakeSleeper ELSE UNCHANGED dataReady
    /\ UNCHANGED <<fatal, streak, pc, batch, appends, consumer, leases, fate, faults>>

\* max_batch_interval_sec has passed since the front was enqueued.
FlushIntervalElapses ==
    /\ FlushInterval
    /\ ring.queue # <<>>
    /\ ~ring.queue[1].aged
    /\ ring' = [ring EXCEPT !.queue[1].aged = TRUE]
    /\ WakeSleeper
    /\ UNCHANGED <<fatal, streak, pc, batch, appends, consumer, leases, fate, faults>>

-----------------------------------------------------------------------------
(* Lease                                                                    *)

MarkFailed(items) == [i \in DOMAIN items |-> [items[i] EXCEPT !.failed = TRUE]]

\* fail_lease: requeued as if never attempted, and the buffer has failed.
FailLease(items) ==
    /\ ring' = [RequeueAtHead(ring, items, 0, 0) EXCEPT !.fatal = TRUE]
    /\ fatal' = TRUE
    /\ NotifySpace

\* Lease::ack
Ack(l) ==
    /\ l.phase = "held"
    /\ ring' = AckEntries(ring, l.items)
    /\ SetFates(OwnedBy(l), "Committed")
    /\ streak' = FALSE
    /\ leases' = leases \ {l}
    /\ NotifySpace /\ NotifyData
    /\ UNCHANGED <<fatal, batch, appends, consumer, faults>>

\* nack(Transient): retried after a backoff, until retries have gone on for
\* max_transient_duration_sec.
NackTransient(l) ==
    /\ l.phase = "held"
    /\ Fault
    /\ \/ /\ ring' = RequeueAtHead(ring, MarkFailed(l.items), l.attempt + 1, l.items[1].seq)
          /\ UNCHANGED <<fatal, pc>>
       \/ /\ streak \/ \E i \in DOMAIN l.items : l.items[i].failed
          /\ FailLease(MarkFailed(l.items))
    /\ streak' = TRUE
    /\ leases' = leases \ {l}
    /\ NotifyData
    /\ UNCHANGED <<batch, appends, consumer, fate>>

\* nack(Rejected): retried at once, quarantined when max_attempts is used up.
NackRejected(l) ==
    /\ l.phase = "held"
    /\ Fault
    /\ IF l.attempt + 1 < MaxAttempts
       THEN /\ ring' = RequeueAtHead(ring, l.items, l.attempt + 1, 0)
            /\ leases' = leases \ {l}
            /\ NotifyData
       ELSE /\ leases' = (leases \ {l}) \union {[l EXCEPT !.phase = "quarantining"]}
            /\ UNCHANGED <<ring, dataReady>>
    /\ UNCHANGED <<fatal, streak, pc, batch, appends, consumer, fate>>

\* The dead-letter write succeeds: nack_rejected_exhausted acknowledges the lease,
\* which leaves the transient streak alone.
QuarantineOk(l) ==
    /\ l.phase = "quarantining"
    /\ ring' = AckEntries(ring, l.items)
    /\ SetFates(OwnedBy(l), "DeadLettered")
    /\ leases' = leases \ {l}
    /\ NotifySpace /\ NotifyData
    /\ UNCHANGED <<fatal, streak, batch, appends, consumer, faults>>

\* The dead-letter write fails, or the sink nacks with Fatal.
NackFatal(l) ==
    /\ Fault
    /\ FailLease(l.items)
    /\ leases' = leases \ {l}
    /\ NotifyData
    /\ UNCHANGED <<streak, batch, appends, consumer, fate>>

\* Lease::drop without ack or nack, also while its dead-letter write is awaited.
DropLease(l) ==
    /\ Fault
    /\ ring' = RequeueAtHead(ring, MarkFailed(l.items), l.attempt + 1, 0)
    /\ streak' = TRUE
    /\ leases' = leases \ {l}
    /\ NotifyData
    /\ UNCHANGED <<fatal, pc, batch, appends, consumer, fate>>

-----------------------------------------------------------------------------
(* BufferInner                                                              *)

\* record_storage_failure after the watermark of an acknowledged lease could not
\* be written, or any failure of one of the two other signals.
StorageFails ==
    /\ Fault
    /\ fatal' = TRUE
    /\ \/ /\ Disk /\ \E s \in Seqs : fate[s] \in {"Committed", "DeadLettered"}
          /\ ring' = [ring EXCEPT !.fatal = TRUE]
       \/ UNCHANGED ring
    /\ NotifySpace /\ NotifyData
    /\ UNCHANGED <<streak, batch, appends, consumer, leases, fate>>

\* discard_remaining_rings, when the shutdown drain times out.  Leases and appends
\* may still be under way.
DiscardRemaining ==
    /\ Fault
    /\ SetFates(HeldSeqs(ring), "Discarded")
    /\ ring' = AdvanceWatermark([ring EXCEPT
                   !.queue = <<>>, !.slots = <<>>,
                   !.bytesInFlight = 0, !.rowsInFlight = 0, !.inflightLeases = 0,
                   !.unreclaimed = <<>>, !.unreclaimedBytes = 0])
    /\ NotifySpace /\ NotifyData
    /\ UNCHANGED <<fatal, streak, batch, appends, consumer, leases>>

SenderStep(s) == BeginSend(s) \/ TrySend(s) \/ SendFails(s) \/ DropSender(s)

WriterStep(a) == AppendOk(a) \/ AppendFails(a)

ConsumerStep == BeginPoll \/ PopLease \/ PollNothing \/ DropReceiver

SinkStep(l) ==
    \/ Ack(l) \/ NackTransient(l) \/ NackRejected(l) \/ NackFatal(l)
    \/ QuarantineOk(l) \/ DropLease(l)

TimerStep == FlushIntervalElapses \/ \E s \in Seqs : BackoffElapses(s)

Next ==
    \/ \E s \in Senders : SenderStep(s)
    \/ \E a \in appends : WriterStep(a)
    \/ ConsumerStep
    \/ \E l \in leases : SinkStep(l)
    \/ TimerStep
    \/ StorageFails
    \/ DiscardRemaining

Spec == Init /\ [][Next]_vars

\* Tasks and the writer thread keep running, backoffs end, a sink that gets the fatal
\* error from next_lease ends and drops its buffer, and a sink that holds a lease ends
\* up delivering or quarantining it: at most MaxFaults attempts fail.  A sender or a
\* consumer that waits gets on only when it is notified, and nothing is assumed of the
\* flush interval.
Fairness ==
    /\ \A s \in Senders :
        /\ WF_vars(pc[s] = "woken" /\ BeginSend(s))
        /\ WF_vars(TrySend(s))
        /\ WF_vars(SendFails(s))
    /\ WF_vars(\E a \in appends : AppendOk(a))
    /\ WF_vars(BeginPoll)
    /\ WF_vars(PopLease \/ PollNothing)
    /\ WF_vars(fatal /\ DropReceiver)
    /\ WF_vars(\E l \in leases : Ack(l) \/ QuarantineOk(l))
    /\ WF_vars(\E s \in Seqs : BackoffElapses(s))

FairSpec == Spec /\ Fairness

-----------------------------------------------------------------------------
(* Properties                                                               *)

Items == [seq : Seqs, batch : Batches, attempt : Nat, readyAt : {0} \union Seqs,
          failed : BOOLEAN, aged : BOOLEAN]

\* The shapes of SignalRing's fields.  The counters are natural numbers although the
\* subtractions here are not the code's saturating_sub: none of them ever saturates.
TypeOK ==
    /\ ring.queue \in Seq(Items)
    /\ HeldSeqs(ring) \subseteq Seqs
    /\ \A s \in HeldSeqs(ring) : ring.slots[s] \in {"Reserved", "Queued", "InFlight"}
    /\ ring.nextSeq \in 1..(MaxSeq + 1) /\ ring.committedSeq \in 0..MaxSeq
    /\ {ring.bytesInFlight, ring.rowsInFlight, ring.inflightLeases, ring.unreclaimedBytes}
          \subseteq Nat
    /\ DOMAIN ring.unreclaimed \subseteq Seqs
    /\ \A f \in {ring.closed, ring.receiverDropped, ring.fatal, fatal, streak} : f \in BOOLEAN
    /\ pc \in [Senders -> {"idle", "ready", "blocked", "woken", "retrying", "appending", "dropped"}]
    /\ batch \in [Senders -> Batches \union {NoBatch}]
    /\ appends \subseteq [seq : Seqs, batch : Batches, by : Senders]
    /\ consumer \in {"idle", "polling", "waiting", "sleeping", "finished", "dropped"}
    /\ dataReady \in BOOLEAN
    /\ \A l \in leases : /\ l.items \in Seq(Items)
                         /\ l.attempt \in Nat
                         /\ l.phase \in {"held", "quarantining"}
    /\ fate \in [Seqs -> {"None", "Committed", "DeadLettered", "Evicted", "Discarded", "RolledBack"}]
    /\ faults \in 0..MaxFaults

\* The leases whose slots no discard has taken away.
LiveLeases == {l \in leases : OwnedBy(l) # {}}

\* The appends whose slots no discard has taken away.
LiveAppends == {a \in appends : a.seq \in SeqsIn(ring, "Reserved")}

\* `slots`, the queue, the reservations and the leases tell one story whatever
\* order appends finish and leases are nacked in: the queue is in ascending order
\* and holds the Queued slots, every Reserved slot has its reservation, and every
\* InFlight slot is in a lease, whose batches are consecutive.
SlotsAgree ==
    /\ \A i, j \in DOMAIN ring.queue : i < j => ring.queue[i].seq < ring.queue[j].seq
    /\ ItemSeqs(ring.queue) = SeqsIn(ring, "Queued")
    /\ {a.seq : a \in LiveAppends} = SeqsIn(ring, "Reserved")
    /\ UNION {ItemSeqs(l.items) : l \in LiveLeases} = SeqsIn(ring, "InFlight")
    /\ \A l \in leases : \A i \in DOMAIN l.items : l.items[i].seq = l.items[1].seq + i - 1

\* The counters the budget is checked against are exact, although send, finish,
\* ack, evict, roll back and discard each adjust them by their own idea of a
\* batch's size and saturating_sub would hide a mistake: bytes and rows are those of
\* the held batches, and inflight_leases counts the leases that hold any.
CountersExact ==
    LET sizes == [s \in HeldSeqs(ring) |->
                    IF ring.slots[s] = "Reserved"
                    THEN (CHOOSE a \in appends : a.seq = s).batch
                    ELSE (CHOOSE e \in ToSet(ring.queue) \union
                                       UNION {ToSet(l.items) : l \in leases} : e.seq = s).batch]
    IN  /\ ring.bytesInFlight = SumOf([s \in HeldSeqs(ring) |-> sizes[s].bytes])
        /\ ring.rowsInFlight = SumOf([s \in HeldSeqs(ring) |-> sizes[s].rows])
        /\ ring.inflightLeases = Cardinality(LiveLeases)
        /\ ring.unreclaimedBytes = SumOf(ring.unreclaimed)

\* The ring holds, and pins on disk, at most its share of max_buffer_bytes; only a
\* single batch larger than the whole share may exceed it, and then it is alone.
BudgetRespected ==
    ring.bytesInFlight + ring.unreclaimedBytes > Budget =>
        Cardinality(HeldSeqs(ring) \union DOMAIN ring.unreclaimed) = 1

\* next_lease says None only when nothing is left and nothing can follow: a sink that
\* stops on None leaves no batch behind.
NoneMeansEmpty == consumer = "finished" => HeldSeqs(ring) = {}

\* A send that waits for room gets in or gets an error.  No wakeup it needs is lost,
\* also when the buffer fails, over another signal, after it looked at the fatal error
\* and before it registered for space_available_notify; and it does not have to wait
\* for the flush interval, because next_lease flushes early while a sender is blocked.
BlockedSendEnds ==
    \A s \in Senders :
        pc[s] = "blocked" ~> s \notin BlockedSenders \/ ring.nextSeq > MaxSeq

\* Once the last sender is gone the ring drains and next_lease says None, unless the
\* buffer fails or its consumer goes away first.
DrainCompletes ==
    ring.closed ~> consumer \in {"finished", "dropped"} \/ fatal

-----------------------------------------------------------------------------
(* The ring implements the ledger of sequence numbers.                      *)

LedgerStatus ==
    [s \in Seqs |->
        IF s \in HeldSeqs(ring) THEN ring.slots[s]
        ELSE IF fate[s] = "None" THEN "Unassigned" ELSE fate[s]]

LedgerLeases ==
    {[first |-> l.items[1].seq, last |-> l.items[Len(l.items)].seq] : l \in LiveLeases}

Ledger == INSTANCE LeaseLedger WITH
    nextSeq <- ring.nextSeq,
    status <- LedgerStatus,
    leases <- LedgerLeases,
    committedSeq <- ring.committedSeq

\* Every critical section on the ring is a step of the ledger: batches are leased
\* oldest first and in unbroken ranges, a fate is met once, and the watermark follows.
\* This is Ledger!Spec, with the stuttering step tried first: most steps are one.
ImplementsLedger ==
    /\ Ledger!Init
    /\ [][UNCHANGED Ledger!vars \/ Ledger!Next]_<<ring, fate, leases>>

=============================================================================
