----------------------------- MODULE LeaseLedger -----------------------------
(***************************************************************************)
(* What one signal ring of a SinkBuffer promises about its sequence        *)
(* numbers, with the queue, the payloads and the bytes left out.           *)
(*                                                                         *)
(* BufferSender::send gives every batch the next sequence number.  A       *)
(* sequence number is then held in `slots` (Reserved while its frame is    *)
(* being appended, Queued, or InFlight in one lease) until it meets one    *)
(* final fate, and `committed_seq` is the end of the longest prefix of     *)
(* sequence numbers that have met theirs: what disk recovery skips and     *)
(* segment GC deletes.                                                     *)
(***************************************************************************)
EXTENDS Integers, FiniteSets

CONSTANTS
    MaxSeq,        \* bound: the sequence numbers a behaviour may assign
    MaxInflight    \* BufferConfig.max_inflight_leases

ASSUME MaxSeqAssumption == MaxSeq \in Nat

ASSUME MaxInflightAssumption == MaxInflight \in Nat \ {0}

VARIABLES
    nextSeq,       \* SignalRing.next_seq
    status,        \* SignalRing.slots, and the fate of what has left them
    leases,        \* the ranges of the leases that hold InFlight slots
    committedSeq   \* SignalRingState.committed_seq

vars == <<nextSeq, status, leases, committedSeq>>

Seqs == 1..MaxSeq

\* LeaseSlotState: the states a slot is held in.
Held == {"Reserved", "Queued", "InFlight"}

\* How a sequence number leaves `slots`: acknowledged, quarantined in the
\* dead-letter store, evicted by DropOldest, discarded by a shutdown timeout,
\* or rolled back because its frame was never appended.
Fates == {"Committed", "DeadLettered", "Evicted", "Discarded", "RolledBack"}

Status == {"Unassigned"} \union Held \union Fates

Ranges == {r \in [first : Seqs, last : Seqs] : r.first <= r.last}

SeqsOf(r) == r.first .. r.last

HeldIn(st) == {s \in Seqs : st[s] \in Held}

-----------------------------------------------------------------------------

Init ==
    /\ nextSeq = 1
    /\ status = [s \in Seqs |-> "Unassigned"]
    /\ leases = {}
    /\ committedSeq = 0

\* Mutant: a batch whose frame is still being appended does not hold the watermark.
IsCandidateIgnoringReserved(st, n, c) ==
    LET held == {s \in HeldIn(st) : st[s] # "Reserved"}
    IN  IF held = {} THEN c = n - 1 ELSE c + 1 \in held /\ \A s \in held : c < s

\* SignalRing::advance_watermark's candidate: just below the first held slot,
\* or everything assigned when no slot is held.
IsCandidate(st, n, c) ==
    IF HeldIn(st) = {}
    THEN c = n - 1
    ELSE c + 1 \in HeldIn(st) /\ \A s \in HeldIn(st) : c < s

\* fetch_max: the watermark moves to the candidate and never back.
AdvanceWatermark(st) ==
    \E c \in 0..MaxSeq :
        /\ IsCandidate(st, nextSeq, c)
        /\ committedSeq' = IF c > committedSeq THEN c ELSE committedSeq

SetStatus(S, v) == [s \in Seqs |-> IF s \in S THEN v ELSE status[s]]

\* What DropOldest may take: the head of the queue, one batch after the other.
IsQueueHead(E) ==
    /\ \A s \in E : status[s] = "Queued"
    /\ \A s \in E, t \in Seqs : t < s /\ status[t] = "Queued" => t \in E

\* record_evicted_batch, for every batch of E.
Evict(E) ==
    /\ IsQueueHead(E)
    /\ E # {}
    /\ status' = SetStatus(E, "Evicted")
    /\ AdvanceWatermark(status')
    /\ UNCHANGED <<nextSeq, leases>>

\* A send is admitted, once E is evicted to make room for it: Queued at once
\* in memory, Reserved before a disk append.
Admit(E, st) ==
    /\ nextSeq \in Seqs
    /\ IsQueueHead(E)
    /\ nextSeq' = nextSeq + 1
    /\ status' = [SetStatus(E, "Evicted") EXCEPT ![nextSeq] = st]
    /\ IF E = {}
       THEN UNCHANGED committedSeq
       ELSE AdvanceWatermark(SetStatus(E, "Evicted"))
    /\ UNCHANGED leases

\* AppendReservation::finish(Ok)
Append(s) ==
    /\ status[s] = "Reserved"
    /\ status' = SetStatus({s}, "Queued")
    /\ UNCHANGED <<nextSeq, leases, committedSeq>>

\* Mutant: the rollback does not advance the watermark.
RollbackSilently(s) ==
    /\ status[s] = "Reserved"
    /\ status' = SetStatus({s}, "RolledBack")
    /\ UNCHANGED <<nextSeq, leases, committedSeq>>

\* AppendReservation::rollback_slot
Rollback(s) ==
    /\ status[s] = "Reserved"
    /\ status' = SetStatus({s}, "RolledBack")
    /\ AdvanceWatermark(status')
    /\ UNCHANGED <<nextSeq, leases>>

\* Nothing that waits in the queue, or will join it, is older than r.
OldestWaiting(r) ==
    \A t \in Seqs : t < r.first => status[t] \notin {"Queued", "Reserved"}

\* try_pop_signal_lease: the oldest waiting batches, in one unbroken range.
Lease(r) ==
    /\ Cardinality(leases) < MaxInflight
    /\ \A s \in SeqsOf(r) : status[s] = "Queued"
    /\ OldestWaiting(r)
    /\ status' = SetStatus(SeqsOf(r), "InFlight")
    /\ leases' = leases \union {r}
    /\ UNCHANGED <<nextSeq, committedSeq>>

\* ack_entries, after a delivery or after a quarantine.
Resolve(r, fate) ==
    /\ r \in leases
    /\ status' = SetStatus(SeqsOf(r), fate)
    /\ leases' = leases \ {r}
    /\ AdvanceWatermark(status')
    /\ UNCHANGED nextSeq

\* Mutant: the lease can still be resolved after its batches are back in the queue.
RequeueKeepsLease(r) ==
    /\ r \in leases
    /\ status' = SetStatus(SeqsOf(r), "Queued")
    /\ UNCHANGED <<nextSeq, leases, committedSeq>>

\* requeue_at_head, for every nack and for a lease dropped unfinished.
Requeue(r) ==
    /\ r \in leases
    /\ status' = SetStatus(SeqsOf(r), "Queued")
    /\ leases' = leases \ {r}
    /\ UNCHANGED <<nextSeq, committedSeq>>

\* Mutant: a lease outlives the discard of its slots and may requeue them.
DiscardKeepsLeases ==
    /\ status' = SetStatus(HeldIn(status), "Discarded")
    /\ AdvanceWatermark(status')
    /\ UNCHANGED <<nextSeq, leases>>

\* discard_remaining_rings: whatever is held, leased or not, is dropped.
Discard ==
    /\ status' = SetStatus(HeldIn(status), "Discarded")
    /\ leases' = {}
    /\ AdvanceWatermark(status')
    /\ UNCHANGED nextSeq

Next ==
    \/ \E E \in SUBSET Seqs :
        Evict(E) \/ \E st \in {"Queued", "Reserved"} : Admit(E, st)
    \/ \E s \in Seqs : Append(s) \/ Rollback(s)
    \/ \E r \in Ranges : Lease(r) \/ Requeue(r)
    \/ \E r \in Ranges, fate \in {"Committed", "DeadLettered"} : Resolve(r, fate)
    \/ Discard

Spec == Init /\ [][Next]_vars

-----------------------------------------------------------------------------

\* The shapes of the ring's counters: next_seq stays within one of the numbers there are,
\* every slot state is a LeaseSlotState or a fate, leases are ranges of SignalRing.slots.
TypeOK ==
    /\ nextSeq \in 1..(MaxSeq + 1)
    /\ status \in [Seqs -> Status]
    /\ leases \subseteq Ranges
    /\ committedSeq \in 0..MaxSeq

\* next_seq separates the sequence numbers in use from the unused ones.
AssignedBelowNext == \A s \in Seqs : status[s] = "Unassigned" <=> s >= nextSeq

\* The watermark passes nothing that is still owed: every sequence number up to
\* committed_seq has met its fate.  Recovery skips, and segment GC deletes, all
\* of them.
WatermarkSafe == \A s \in Seqs : s <= committedSeq => status[s] \in Fates

\* The watermark does not lag either: after every operation it is the end of the
\* longest resolved prefix, although batches are resolved in any order and only
\* some operations call advance_watermark.  A lagging watermark would pin disk
\* segments and replay delivered batches after a restart.
WatermarkExact == IsCandidate(status, nextSeq, committedSeq)

\* Every InFlight slot belongs to exactly one lease and a lease to none but its
\* own: no batch is handed to a sink twice at the same time, and none is stranded
\* InFlight without a lease that could still resolve it.
LeasesOwnInFlight ==
    /\ \A s \in Seqs :
        status[s] = "InFlight" <=> \E r \in leases : s \in SeqsOf(r)
    /\ \A r1, r2 \in leases : r1 # r2 => SeqsOf(r1) \intersect SeqsOf(r2) = {}

\* The ring hands out at most max_inflight_leases leases at a time.
LeasesBounded == Cardinality(leases) <= MaxInflight

\* A fate is final: what was delivered, quarantined or dropped is neither leased
\* again nor resolved a second time, not even by a lease that outlives a discard.
FateIsFinal ==
    [][\A s \in Seqs : status[s] \in Fates => status'[s] = status[s]]_vars

=============================================================================
