------------------------------ MODULE LeaseFeed ------------------------------
(* The buffer as a sink's run loop sees it: one signal's batches 1..arrived,   *)
(* leased in runs of consecutive sequence numbers, acknowledged or nacked, and *)
(* after a restart replayed from the persisted watermark.  SinkBuffer and      *)
(* DiskLog model the inside of the buffer; this module is what the sinks of    *)
(* this project are composed with.                                             *)
EXTENDS Naturals, Sequences, FiniteSets, FiniteSetsExt

CONSTANTS
    MaxSeq,       \* Bound: batches that arrive.
    MaxAttempts,  \* max_attempts: deliveries before a rejected lease is quarantined.
    MaxFaults,    \* Bound: failures of the destination and of the network.
    MaxRestarts,  \* Bound: crashes, and restarts after a failure.
    Workloads     \* The kinds of batches that may arrive, in order of arrival.

Kinds == {"rows",         \* Rows the destination takes.
          "empty",        \* No rows.
          "malformed",    \* Cannot be serialized.
          "oversized",    \* Larger than one bulk request may be.
          "unindexable"}  \* Elasticsearch rejects it for good, by a mapping error say.

ASSUME LeaseFeedAssumption ==
    /\ {MaxSeq, MaxAttempts} \subseteq Nat \ {0}
    /\ {MaxFaults, MaxRestarts} \subseteq Nat
    /\ Workloads \subseteq [1..MaxSeq -> Kinds]

VARIABLES
    configured,   \* The sink this process runs.
    workload,     \* What this behaviour's batches are like.
    arrived,      \* Batches appended so far.
    done,         \* Acknowledged sequence numbers.
    quarantined,  \* Batches in the dead-letter store.
    held,         \* Leases the sink holds.
    nacked,       \* Nacked leases that wait to be delivered again.
    loop,         \* "running", or "failed": run returned an error.
    faults, restarts,
    stored        \* History: what the destination made visible, in order.

feedVars == <<configured, workload, arrived, done, quarantined, held, nacked, loop,
              faults, restarts, stored>>

Leases == [first : 1..MaxSeq, last : 1..MaxSeq, attempt : 0..MaxAttempts]

Seqs(l) == l.first .. l.last

OfKind(kind) == {s \in 1..MaxSeq : workload[s] = kind}
Empty == OfKind("empty")
Malformed == OfKind("malformed")

\* The highest sequence number up to which everything is acknowledged: what a
\* restart reads back.
Watermark == Max({n \in 0..arrived : 1..n \subseteq done})

FeedTypeOK ==
    /\ workload \in Workloads
    /\ arrived \in 0..MaxSeq
    /\ {done, quarantined} \subseteq SUBSET (1..arrived)
    /\ {held, nacked} \subseteq SUBSET Leases
    /\ loop \in {"running", "failed"}
    /\ faults \in 0..MaxFaults /\ restarts \in 0..MaxRestarts

FeedInit ==
    /\ workload \in Workloads
    /\ arrived = 0
    /\ done = {} /\ quarantined = {} /\ held = {} /\ nacked = {}
    /\ loop = "running"
    /\ faults = 0 /\ restarts = 0
    /\ stored = << >>

-----------------------------------------------------------------------------
\* A batch is appended to the buffer.
Arrive ==
    /\ arrived < MaxSeq
    /\ arrived' = arrived + 1
    /\ UNCHANGED <<configured, workload, done, quarantined, held, nacked, loop, faults, restarts, stored>>

Waiting == (1..arrived) \ (done \cup UNION {Seqs(l) : l \in held})

\* The delivery attempt batch s is at.
AttemptOf(s) ==
    IF \E g \in nacked : s \in Seqs(g)
    THEN (CHOOSE g \in nacked : s \in Seqs(g)).attempt
    ELSE 0

\* Mutant: a nacked lease goes to the back of the queue.
RetriesLast ==
    IF loop # "running" \/ Waiting = {} THEN {} ELSE
    LET fresh == {s \in Waiting : AttemptOf(s) = 0}
        first == IF fresh = {} THEN Min(Waiting) ELSE Min(fresh)
    IN  {[first |-> first, last |-> first, attempt |-> AttemptOf(first)]}

\* try_pop_signal_lease: the oldest waiting batch and batches that directly
\* follow it at the same attempt.  The members of a nacked lease fitted one
\* lease before, so they are leased together again; how many fresh batches
\* fit depends on their sizes.
NextLeases ==
    IF loop # "running" \/ Waiting = {} THEN {} ELSE
    LET first == Min(Waiting)
        fits(last) ==
            /\ first..last \subseteq Waiting
            /\ \A s \in first..last : AttemptOf(s) = AttemptOf(first)
            /\ \A g \in nacked : last \in Seqs(g) => last = g.last
    IN  {[first |-> first, last |-> last, attempt |-> AttemptOf(first)] :
            last \in {n \in first..arrived : fits(n)}}

Overlapping(l) == {g \in nacked : Seqs(g) \cap Seqs(l) # {}}

\* SinkBuffer::next_lease hands out lease l.
Take(l) ==
    /\ l \in NextLeases
    /\ held' = held \cup {l}
    /\ nacked' = nacked \ Overlapping(l)

\* Lease::ack.
Ack(l) ==
    /\ done' = done \cup Seqs(l)
    /\ held' = held \ {l}
    /\ UNCHANGED <<quarantined, nacked, loop>>

\* A lease without rows: every sink acknowledges it as soon as it gets it.
AckEmpty(l) ==
    /\ l \in NextLeases
    /\ Seqs(l) \subseteq Empty
    /\ done' = done \cup Seqs(l)
    /\ nacked' = nacked \ Overlapping(l)
    /\ UNCHANGED <<configured, workload, arrived, quarantined, held, loop, faults, restarts, stored>>

\* A restart finds everything that is not resolved again, so a failed buffer
\* keeps its batches.
FailBuffer(l) ==
    /\ loop' = "failed"
    /\ held' = held \ {l}
    /\ nacked' = nacked \ Overlapping(l)
    /\ UNCHANGED <<done, quarantined>>

\* Mutant: the nacked lease keeps its place among the leases in flight.
RequeueKeepsHeld(l) ==
    /\ nacked' = (nacked \ Overlapping(l)) \cup {[l EXCEPT !.attempt = Min({@ + 1, MaxAttempts})]}
    /\ UNCHANGED <<done, quarantined, loop, held>>

\* The attempt counter saturates here: above max_attempts its values act alike.
Requeue(l) ==
    /\ held' = held \ {l}
    /\ nacked' = (nacked \ Overlapping(l)) \cup {[l EXCEPT !.attempt = Min({@ + 1, MaxAttempts})]}
    /\ UNCHANGED <<done, quarantined, loop>>

\* Lease::nack_rejected_exhausted: the store took the batches, or it failed.
Quarantine(l) ==
    \/ /\ done' = done \cup Seqs(l)
       /\ quarantined' = quarantined \cup Seqs(l)
       /\ held' = held \ {l}
       /\ nacked' = nacked \ Overlapping(l)
       /\ UNCHANGED loop
    \/ FailBuffer(l)

\* Lease::nack.  A transient failure turns fatal once max_transient_duration has
\* passed since the first one of the streak.
Nack(l, class) ==
    \/ class = "Transient" /\ Requeue(l)
    \/ class = "Transient" /\ l.attempt > 0 /\ FailBuffer(l)
    \/ class = "Rejected" /\ l.attempt + 1 < MaxAttempts /\ Requeue(l)
    \/ class = "Rejected" /\ l.attempt + 1 >= MaxAttempts /\ Quarantine(l)
    \/ class = "Fatal" /\ FailBuffer(l)

Fault == faults < MaxFaults /\ faults' = faults + 1

\* Lease::prepare failed on a batch, which is nacked as rejected, or the batch
\* could not be read from disk or the blocking task died, which ends the run.
RejectUnprepared(l) ==
    /\ l \in NextLeases
    /\ ~(Seqs(l) \subseteq Empty)
    /\ \/ Seqs(l) \cap Malformed # {} /\ Nack(l, "Rejected") /\ UNCHANGED faults
       \/ Fault /\ FailBuffer(l)
    /\ UNCHANGED <<configured, workload, arrived, restarts, stored>>

\* The process dies, or stopped after a failure, and starts again.
Restart ==
    /\ restarts < MaxRestarts
    /\ restarts' = restarts + 1
    /\ done' = 1..Watermark
    /\ held' = {} /\ nacked' = {}
    /\ loop' = "running"
    /\ UNCHANGED <<configured, workload, arrived, quarantined, faults, stored>>

\* The destination makes the rows of a lease visible.
Visible(first, last, part) ==
    stored' = Append(stored, [first |-> first, last |-> last, part |-> part])

=============================================================================
