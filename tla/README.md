# A TLA+ development for opentelemetry-datalake

The program receives OTLP telemetry, optionally transforms it with WASM modules and delivers
it to a lakehouse or search sink.  Between the receiver, which may acknowledge a client as soon
as a batch is buffered, and a sink that may be slow, failing or restarting stands one component
that must not lose, reorder or duplicate anything: the **SinkBuffer**.  The project models that
component in most detail, and around it the whole way of a batch: receiver and supervisor, decoder,
transformer, the five sinks with their destinations, and the start of the program.

File paths are relative to the repository root; `buffer/` is `crates/core/src/buffer/`.

## 1. Inventory

```
 OTLP clients --> OtlpReceiverSource --3 mpsc--> Transformer x3 --BufferSender--> ring x3 --Lease--> Sink x3
                                                (noop | WASM)        |                     |
                                                              disk writer thread     dead-letter store
 main.rs supervises all tasks, /readyz reads BufferController::is_ready
```

| Component | State | Operations | What is hard | What makes it correct |
|---|---|---|---|---|
| Signal ring (`buffer/mod.rs`, `memory.rs`, `lease.rs`) | queue, `slots`, `next_seq`, `committed_seq`, byte/row/lease counters, closed/dropped/fatal flags | `send`, append reservation finish/rollback, `next_lease`, `ack`, `nack`, lease drop, sender/receiver drop, `discard_remaining` | appends finish and leases are resolved in any order; senders and the consumer sleep on `Notify`; leases and appends outlive a discard; a fatal error of one signal stops all three | one fate per batch; watermark = longest resolved prefix; oldest first; exact counters within the budget; no lost wakeup; the drain ends |
| Readiness gate (`buffer/mod.rs` `BlockedSendGuard`, `is_ready`) | `blocked_senders`, `blocked_since_unix_ms` | block, admit, drop of the guard | two atomics without the ring's lock | no time is left behind; a stall is reported |
| Disk backend (`buffer/disk.rs`) | segment files, watermark file, writer's active and sealed segments, staged and persisted watermark | group commit, roll/seal, GC, watermark write, recovery, shutdown | crash or power loss between any two of them, failing file calls, three signals in one segment | accepted and unresolved batches survive; an Ok ack is durable; segments are reclaimed; a sequence number names one batch |
| Dead-letter store (`buffer/dead_letter.rs`) | directory, `current_bytes`, `file_seq` | `write_quarantine`, scan at start | CAS loop for the quota, pair of files, failure and crash between them, equal names | quota bounds the directory; what was quarantined stays; manifests have batches |
| Buffer configuration (`buffer/config.rs`) | - | `resolve`, `ensure_min_buffer_bytes`, `validate` (V1-V5) | saturating products, legacy settings merged into it | V1 gives every ring room for all leases and one more |
| Supervisor (`src/main.rs`) | join handles, done flags, exit error | validation, choice of the sink, `select!`, drain within `drain_timeout_sec`, abort, finalize | a task that ends by itself, the timeout racing the drain; two chains of ifs that must agree | every task is awaited once; buffers are finalized after their users are gone; what runs was validated |
| Sort, telemetry, TLS (`crates/core`) | - | order rows; refuse an endpoint that feeds the program itself | nulls, missing columns, aliases of an address | rows keep their order and place |
| OTLP receiver (`crates/otlp-receiver`) | three channel senders, cloned into every connection | decode, send or wait, refuse | shutdown while requests wait for a full channel | a client is told OK only for a batch that is in the pipeline |
| Arrow codec (`crates/arrow-codec`) | buffers reused along a request | decode logs, traces, metrics; check and remap compliance | stale buffers, duplicate and unset keys | a row says what its record, scope and resource said |
| WASM transformer (`crates/wasm-transformer`) | published module and generation, workers with channels and instances, metric registry | dispatch, execute, route by policy, rejuvenate, reload, drain; guest calls to the host | workers that stop or panic with batches on their way, reloads while a worker instantiates, a guest's arbitrary response | a batch is in one place and ends where the policy says; no old module is run; core columns survive; metrics are exact |
| Iceberg sink (`crates/storage`) | table, delivery tokens | partition, write, commit, replay after restart | crash between commit and ack | a replayed lease commits once |
| StarRocks sink (`crates/starrocks-sink`) | labels, transactions, fallback attempts | Stream Load, two-phase commit, confirm | timeout racing a late commit | labels make retries idempotent, and only what was loaded is acknowledged |
| Elasticsearch sink (`crates/elasticsearch-sink`) | endpoints with cooldown, chunks in flight | chunk, bulk, failover, item retries, join, start-up checks | chunks that end differently, indices into retried payloads | every row is indexed or quarantined before the ack |
| Kafka sink (`crates/kafka-sink`) | producer queue | slice by key, enqueue, await reports | reports that fail one by one | ack only when all are delivered |
| Parquet sink (`crates/parquet-sink`) | open writers, LRU list, memory counter, uploads | route, write, evict, close, upload, sweep, flush | acknowledged before written; background failures; three limits at once | a run that ends Ok has uploaded every row once; limits hold |

`PROJECT.json` lists the hazards, the places in the code where one of these things bites, each
with the properties that would catch it.

## 2. Plan

| Module | Role | Status |
|---|---|---|
| `LeaseLedger` | abstract specification of a ring's sequence numbers | done, proved |
| `SinkBuffer` | one ring in full; implements `LeaseLedger` | done, proved, the refinement too |
| `ReadinessGate` | the two atomics behind `/readyz` | done, proved |
| `DiskLog` | writer thread, segments, watermark, recovery | done, proved where no write stops half-way, `AckDurable` everywhere |
| `DeadLetterStore` | quota and pairs of files | done, proved |
| `Supervisor` | receiver, transformers, sinks and main.rs: drain, abort, finalize, exit status | done, proved except liveness |
| `LeaseFeed` | a ring as a sink's run loop sees it: leases, acks, nacks, restart | done, proved with the sinks |
| `StarRocksSink`, `IcebergSink`, `KafkaSink` | the run loops with their destinations | done, proved except liveness |
| `ParquetSink` | the same | done, proved except liveness |
| `ElasticsearchSink` | the same | done, proved except liveness |
| `SinkDelivery` | composes the feed with the sink that is configured | done, proved except liveness |
| `WasmWorker`, `WasmDispatcher` | engine and reloads, worker tasks; dispatch and drain | done, proved except liveness |
| `GuestCall`, `HostCalls` | one guest response; the host functions and their registry | done, proved |
| `BulkClient` | one bulk call over several endpoints | done, proved |
| `RowLayout`, `Startup` | pure algorithms: layout of rows, validation and start | done, proved |
| `OtlpCodec`, `VariantEncoding` | pure algorithms: decoding, Variant columns | done, checked |
| `Jobs`, `Places`, `Sums` | shared: a conversion asked for and answered; parts of a sequence by their places; totals | done, `HelperTheorems` has their lemmas |
| `DataPath` | composes the parts of a batch's way outside its buffer | done, proved but for the codecs and liveness |

The order was that of the damage a mistake does: first what can lose accepted data (ring, disk,
dead letters), then what stops the process (supervisor), then what loses or duplicates data at a
sink, then what falsifies it on the way.  The proofs follow the same order.

## 3. The modules

### LeaseLedger: what a ring promises

State: `nextSeq`, the `status` of every sequence number (held in `slots` as Reserved, Queued or
InFlight, or gone with one of five fates), the ranges `leases` hold, and `committedSeq`.  The
actions are those of a ring seen from its sequence numbers: `Admit` (with the evictions that made
room), `Append`, `Rollback`, `Lease`, `Resolve` (ack or quarantine), `Requeue` (every nack and an
unfinished drop), `Evict`, `Discard`.  Which of them call `advance_watermark` is taken from the
code: all that remove a slot, none that add or move one.

### SinkBuffer: one ring

Every action is one critical section on `SignalRing`; what the code does between two of them (an
await, a blocking task, a timer) is where other actions interleave.  `AppendFails` and
`NackFatal` merge the ring's critical section with the one that records the fatal error right
after it.

- Senders (`pc`): `BeginSend` reads the shared fatal error, `TrySend` is one pass through
  `reserve_or_enqueue_slot` (evict, then admit or register as blocked), `SendFails`, `DropSender`
  (also of a task aborted in the middle of a send).  `Notify::notify_waiters` stores no permit, so
  it reaches only senders that are `blocked` at that instant.
- Disk writer, as the ring sees it: a set of reservations, finished in any order by `AppendOk`
  or `AppendFails`.
- Consumer: `BeginPoll` enables the notification and reads the fatal error, `PopLease` is
  `try_pop_signal_lease` with coalescing by schema, bytes, rows and attempt, `PollNothing` returns
  None or waits; `DropReceiver`.
- Leases: `Ack`, `NackTransient`, `NackRejected`, `QuarantineOk`, `NackFatal`, `DropLease`.
- Whole buffer: `StorageFails` (another signal fails, or an acknowledged watermark cannot be
  written), `DiscardRemaining`.

The constant `Modes` holds the buffer configurations of a run (memory or disk, Block or DropOldest);
`Init` chooses one.

Abstractions: a payload is its bytes, rows and schema; an instant is the fact that a backoff or
the flush interval has elapsed; a send that is split into several disk frames is several sends;
`fate` is history that no action reads.  Totals (bytes and rows held, frames pinned) are the
cardinalities of sets of units, `Sums!SumOf`, and the items of a lease are given by their positions
rather than folded out of the queue: the same numbers, in a form a proof can reason about.

### ReadinessGate

Every load, store and read-modify-write of `blocked_senders` and `blocked_since_unix_ms` is a step
of its own, and the clock moves in between.

### DiskLog

The three rings reduced to what the log sees (which numbers are held, where their frames are)
and the writer thread as it is: `TakeGroup` (recv, then try_recv), `WriteFrame` per append (roll,
write, seal, each of which may fail), `SyncGroup`, `Finish` per append, `WriteWatermark`,
`CollectAndReply`.  The commands of concurrent tasks are a set.  `Crash` happens between any two
of these and may leave a torn frame, `LosePower` also takes any unsynced suffix of each file,
`Shutdown` drops the channel; `Recover` is `open_and_recover` up to the watermark file, and
`DeleteObsolete` the rest, so that recovery can crash too.  Frame encoding and CRC are abstracted
to whole frames and `Garbage`; a pop followed by an ack is one `Ack`.  The constant `Scenarios`
holds what may go wrong in a run, and how often; `Init` chooses one.  `write_encoded_frame` is given by what each of its
steps leaves (`Rolled`, `Opened`, `Wrote`, then `Seal` when the frame `Fills` the segment); `WriteFrame` says which of them
happens and which fails.

### DeadLetterStore

Quarantines of several leases run at the same time.  `Begin`/`Reserve` are `reserve_bytes`' CAS
loop, `Name` chooses the stem, `WriteTmp`/`Rename` are `write_file_atomic` for the batches and
then the manifest, `WriteFails`/`Undo` the error paths, `Crash`/`Restart` the scan at start by a
process with any pid of `Pids`, the crashed one's included.  Whether a leftover is spared is decided as the code does it, by
whether `_{pid}_` occurs in its name: `Tagged` gives the numbers that stand between two underscores there (the writer's pid, the lease's
sequence numbers from `Seqs`, and the time from `Clock` where `file_seq` follows it).
Concurrent quarantines are of different leases, as `Lease` owns itself; parts of one lease ask for
equal names.

### Supervisor

The process as a whole.  A batch is no more than its place: with the client, in a handler, in the
channel, in the transformer's hands, in an append, in the ring, leased, or at one of its ends; the
state counts them per signal.  The handlers belong to their connections' tasks, not to the source
task, and hold clones of the channel senders, so the channels close only when the source task has
ended *and* the connections have.  A task that ends drops what it owns (`Dropped`): a transformer
its channel's receiver, with what is queued, and its `BufferSender`; a sink its leases, which are
requeued.  The supervisor goes through `select!` (`SelectSignal`, `SelectTask`), the drain
(`DrainSource`, `DrainTask` per branch of `join!`, `DrainCompletes` or `DrainTimeout`), the aborts one
by one in the code's order while the tasks not yet aborted run on, and the finalization of the
buffers.  The `*_done` flags are `done`; `awaited` is history.  The transformer is the noop one, a
sink holds one lease at a time, the ring blocks when full.

### LeaseFeed, five sinks, SinkDelivery

`LeaseFeed` is the part of a ring that a sink's loop depends on, in the terms of the ledger: batches
arrive, a lease is a run of waiting batches at one attempt (`NextLeases`, oldest first, a retried lease
before younger batches), `Ack`, `Nack` with its three classes, `Quarantine`, and `Restart`, after which
everything above the watermark comes back at attempt 0 and may be cut into other leases.  A batch is
its sequence number and a kind: rows, empty, oversized, unindexable, malformed.  `stored` is what the
destination shows, in order.

- `StarRocksSink`: V1 sends and, when the label is in use, asks what became of it; V2 begins, loads,
  prepares, commits, confirms or rolls back.  Every request may be lost, executed without an answer,
  or executed later (`LateRequest`).  Labels are `Label(lease, fallback)`, and `tracked` is
  `fallback_attempts` with its limit.
- `IcebergSink`: looks for the token of the lease in the snapshots, writes, commits, and after an error
  looks again; without a catalog it only simulates.
- `KafkaSink`: slices of a lease are enqueued, awaited and merged into the worst class.
- `ElasticsearchSink`: several leases at a time, rows cut into chunks with oversized ones set aside, permits,
  item results, retries of the busy items, quarantine of refused rows by their place.
- `ParquetSink`: acknowledges first (`recv_passthrough`), then routes rows to writers under the limits on
  open files, memory and records, uploads in the background, and flushes at the end.

In `SinkDelivery` the sink that main's chain of ifs selects runs; the variables of the others keep their
initial values.

### WasmWorker, WasmDispatcher

`published` is the sequence of published modules, whose index is the generation; a reloader reads the file
in one step and stages and publishes in a later one.  A worker's task: `NewWorker`, `Receive`, the loop of
`check_hot_reload` (`ReadSnapshot`, `TryCandidate`, `HotReloaded`), `Execute`, `Route` by the guest's answer and
the configured policies, and the exits, each with what is dropped on the way.  The dispatcher is
`dispatch_batch` step by step: `TrySend` to each worker in turn, `ScanEnds`, `AwaitRoom` for the first full one.
`causes` is history of what went wrong, at most `FaultKinds` kinds in a behaviour.

### GuestCall, HostCalls, BulkClient

`GuestCall` is `execute_batch` from the guest's return to the outcome: which descriptors are readable, which
buffers are freed, the schema guard with backfill and metadata merge, for both guard modes; and the SDK's
`nullify_column`.  A guest may repeat a column's name (`FirstColumn` is what the guard finds, `LastColumn` what backfill takes) and may name
one buffer in several places, its own or the input's; a buffer is known by its reference, which is all the host compares.  In `HostCalls` two guests call `emit_metric`, `log` and `has_capability` against one registry;
each map access is a step.  `BulkClient` is `send_bulk`: pick an endpoint that is not cooling, post, read item
statuses, retry the busy ones by their indices, back off, give up.

### OtlpCodec, VariantEncoding, RowLayout, Startup

Pure algorithms as operators, checked against a reference reading over bounded inputs: what a reader
of the rows, of the Variant bytes, of the files and messages, and of the running configuration must
find.  The numbers are scaled down by constants (a "byte" of `Base` values, an hour of
`HourSeconds`, `u64::MAX` as `WordMax`), so that every boundary is inside the instance.  Integers of a Variant have all four widths, and one above
`i64::MAX` becomes the nearest double, where doubles are `Spacing` apart (2048 in the code): what reads back there is that double, within half a
`Spacing` of the integer (`IsReadAs`); everywhere else the value itself.  `OtlpCodec` and
`VariantEncoding` are recursive, as JSON is, so no theorem can be about `DataPath` itself; the theorems are about the
parts' own specifications (`Spec` of `WasmDispatcher`, `BulkSpec`, `HostSpec`, `GuestSpec`, `RowSpec`, `StartSpec`), with the
actions that `DataPath` composes.

A filter is written as `Places!AtPlaces`, the elements at the places it keeps, and a mask or a list of indices in the code is the set
of those places.  `pattern_matches` is a recursive function on what is left of the pattern: each value is the set of places of the
text from which the rest matches.

### DataPath

These parts share no state.  A behaviour of `DataPath` runs one of them: the workers of a transformer, the
host calls of its guests, one bulk call, or one *job* (module `Jobs`), a conversion or a start of the program that
is asked and answered.  The others are in a final state from the beginning.

## 4. The runs

| Run | Instance | Shows |
|---|---|---|
| `LeaseLedger` | 5 numbers, 2 leases | the ledger's invariants, and that a fate is final |
| `SinkBuffer` | memory and disk with Block, disk with DropOldest; 2 senders, 2 schemas, record limit, flush interval, 1 failure | slots, queue, reservations and leases agree; counters are exact; the budget with pinned frames; None means empty; implements the ledger |
| `SinkBufferLiveness` | fair, a sender that blocks, a fault | a blocked send ends, the drain completes |
| `ReadinessGate` | 3 senders, 3 ticks | no time left behind |
| `ReadinessGateStall` | violation | see findings |
| `DiskLog` | 2 signals, three scenarios: 3 batches and 2 crashes; 3 batches, a failing call and a crash; 2 batches, `sync_on_write`, 2 power losses, a failing call and a finalized shutdown | crash safety, segments that match the rings (frames readable, none leaked), durable acks, and numbers that survive a crash |
| `DiskLogPartial` | violation | see findings |
| `DeadLetterStore` | 2 leases of one range, 2 pids, of which one is a sequence number and one a time, crash, failures | quota, usage, kept pairs, manifests, no temporary file of a crashed process whose name does not carry the pid |
| `Supervisor` | 2 signals; 4 batches of one, or 1 of each; channel and ring of 1; memory, disk with Persist, disk with Discard; 1 fault; fair | handles awaited once, exit status, clean drain, finalization, and that the drain ends without the timer |
| `SupervisorDrain` | violation | see findings |
| `SinkDelivery` | 3 batches in 3 workloads, 2 faults, 1 restart, each of the five sinks; fair | acknowledged is stored or quarantined; retries are recognised; order; a clean stop of the Parquet sink; its limits; everything is resolved |
| `DataPath` | 2 workers with channels of 1, 3 batches, 2 reloaders, 1 kind of fault; 2 guests, 2 metric entries; 3 documents, 2 endpoints, 2 retries; the jobs of `MCDataPath`; fair | outcomes follow the policies and batches are neither copied nor forgotten; the published module runs; bulk answers and metrics are exact; rows read as sent and are laid out right; guests are contained; the start is safe; `run` returns |

**Bounds.**  Each is in the guard of the action it bounds.  `MaxSeq`, `MaxWrites` and a scenario's
`msgs` bound how often something is sent, `Loads` what clients send, `MaxFaults`, `MaxCrashes` and a
scenario's `faults`, `crashes` and `finalizes` how often something goes wrong or is shut down,
`MaxTime` the clock.  Three sequence numbers are enough for a gap with something on both sides of
it, which is what reordering, coalescing and the watermark depend on.  Two senders suffice for one to be woken by another's admission, and two leases for
out-of-order resolution.  A segment of 3 with frames of 1 and 2 seals both after a write that fills
it and before one that does not fit, with both signals in one segment.  Two crashes allow one
during the recovery from the first.  The dead-letter store has room for two pairs and not for
three.  Four batches fill a signal's pipeline from the ring back to a waiting client; two signals
stand for three, as no action of `Supervisor` relates more than two.

In `SinkDelivery` two faults allow a retry of a retry and a fault after it, three batches a lease of two beside a
retried one, so that leases are cut differently after the restart, and a chunk of 2 rows one chunk that is
full beside one that is not.  The Parquet parts fill an open file, exceed the memory beside another writer and
need a third one.  In `DataPath` channels of 1 are full when a worker is busy, three batches reach a worker that
died, two reloaders publish out of order, and the metric programs meet an existing name, a new one and a full
registry; the sets of jobs are products around each boundary the code has.  A "byte" of 4 values puts the bounds of the four integer widths
at 2, 8, 128 and 32768: the integers are those around each of them, and above the last one a range in which doubles are 4 apart, with ties to
either side.  A guest's batch has up to three columns in any order and with repetitions, one of them altered, and perhaps a new one; its
references may coincide with each other and with the input's.

The batch larger than the whole budget is in `SinkBufferLiveness`, where it is admitted
only once the ring is empty and a send must still end.  Symmetry is used for the senders of `SinkBuffer` and
the leases of `DeadLetterStore`.  The systems really may stop
(every bound is used up, or everything is dropped, or the process has exited), so deadlock is not
checked; that nobody waits for ever is what the liveness properties are for.

**Fairness** (`SinkBuffer!Fairness`).  Tokio runs a task that is ready and the writer thread serves
its channel, hence weak fairness of `TrySend`, `SendFails`, of a woken sender's `BeginSend`, of
`AppendOk`, `BeginPoll`, `PopLease` and `PollNothing`.  Backoff timers fire.  A sink whose `next_lease`
returns the fatal error ends and drops its buffer (each sink's loop returns the error).  A sink that
holds a lease eventually acknowledges or quarantines it: it may fail `MaxFaults` times, and
`max_transient_duration_sec` turns endless failure into a fatal error.  A blocked sender or a
waiting consumer gets on only when notified, and nothing at all is assumed of the flush interval or
of new sends.

`Supervisor!Fairness` is that of its tasks: each transformer, sink, handler and the supervisor itself
gets on when it can, servers see the watch channel, and a leased batch is resolved.  A client that
never finishes its request would keep its connection open; such clients are what the drain timer is
for, and the timer is deliberately not assumed to fire.

`SinkDelivery!Fairness`: the run loop of the configured sink takes a step it can take, StarRocks ends a load
it was given (its own timeout aborts it) and spawned uploads end.  Faults stop because there are at most
`MaxFaults`; that a lease may be nacked for ever by a destination that never recovers is what the
retry limits of the buffer are for.  `WasmDispatcher!Fairness`: the dispatcher's and the workers' tasks run when they
can; neither reloads, nor faults, nor the drain timeout are assumed to happen.

## 5. Proofs

TLAPS proves the following for every value of the constants.

`LeaseLedgerProofs`: from `MaxSeqAssumption` and `MaxInflightAssumption`.  The inductive invariant
`IInv` is `TypeOK`, `AssignedBelowNext`, `WatermarkExact`, `LeasesOwnInFlight`, `LeasesBounded` and
finiteness of `leases`.  `WatermarkSafe` alone is not inductive: that everything up to the watermark
has its fate survives a step that moves it only if the candidate is computed from *all* held slots,
that is from `WatermarkExact`; that in turn needs `AssignedBelowNext`, so that a newly admitted number
lies above the watermark; and that a resolved lease frees exactly held slots needs
`LeasesOwnInFlight`.  Two lemmas carry the argument: `CandidateGrows` (fewer held slots, a candidate
at least as high) and `AdvanceIsExact` (so `fetch_max` lands on the candidate).  The theorems:
`LedgerTypeOK`, `WatermarkIsSafe`, `WatermarkIsExact`, `LeasesPartition`, `LeasesAreBounded`,
`FatesAreFinal`.

`SupervisorProofs`: from `SupervisorAssumption`.  `HandlesAreAwaitedOnce` rests on `IInv`: a handle was
awaited once if its flag is set or the abort loop has passed it and otherwise not at all (`AwaitedExact`),
with the order of the phases (`PhasesInOrder`); the lemmas `AbortOrderShape` and `AbortOrderIsOnce` say that
the abort order names each task once.  `RingsAreFinal` builds on it: all tasks have ended when the buffers are
finalized, so only an append that outlived its sender could still change a ring, and `FInv` says that the
flush, queued behind the appends, has left none.  `SinkErrorsReported`, `ExitZeroKeeps` and `DrainDelivers` rest on
`DInv`: what a task returned is still known while its flag is set (`ResultsKept`), only the timer leads to
an abort (`TimeoutOnly`), and a transformer or a sink that has ended well left nothing behind it
(`TransformerDrained`, `SinkDrained`): its channel is closed and empty, its ring closed and empty.

The same module has the readiness gate, from `GateAssumption` (finitely many senders).  `UnblockedIsZero`: however the
steps of any number of guards interleave, no time is left when nobody waits.  Its invariant `GateInv`
says that the count is exact (`CountExact`) and that whenever the count is 0 and a time is set,
some sender has still to clear it or to look again (`SomeoneClears`).

`DeadLetterStoreProofs`: from `StoreAssumption`, for any number of leases, pids and writes.  `QuotaIsExact`,
`StaleTmpsGone` and `ReportedStays` rest on `IInv`.  Its parts: two quarantines under way have different write
numbers, what one of them has put on disk is its own, the stem it chose is not that of any pair on disk, a
temporary file belongs to a quarantine or was left by a crashed process, and `current_bytes` is the size of
the files on disk plus what the quarantines under way have reserved and not yet written.  The last part is an
equation between sums over any number of files; `HelperTheorems` has the lemmas on such sums (of a union, of a function
that grows at a point, of a smaller one).  Sums are cardinalities of sets of units, because the
provers can use the theorems on cardinalities and no induction.

`SinkBufferProofs`: from `ConfigAssumption` and `BatchAssumption`, for any number of senders and leases, any batches, budgets
and limits, both backends and both policies.  The inductive invariant `BufferInv` has three parts.  `RingInv` ties `slots`, the queue, the reservations
and the leases together with one function that says how large the batch of each held number is: a slot is Queued exactly
when its number is in the queue, Reserved when an append with that number is under way, InFlight when a lease has
it; the queue is in the order of the numbers and a lease has consecutive ones; a lease that outlived a discard has lost all of its slots or none; and the counters are
the sums of that function over what is held.  `WithinBudget`: more than the budget
is charged, frames of evicted batches included, only for a single batch that is larger than it.
`SendersAgree` and `TasksAgree` say what a sender and the consumer
know between two critical sections; a consumer that was told None has a closed and empty ring.  `BufferTypeOK`, `SlotsAlwaysAgree`, `CountersAreExact`, `BudgetIsRespected` and `NoneSaysEmpty`
follow from it.  None of them is inductive alone: that a counter is exact after an ack needs that the lease's items are what its
slots say, and that needs the agreement of slots and leases after every nack in between.

`RingImplementsLedger` is the refinement, step by step: an admission with its evictions is `Admit` after `Evict`, the finish of an append `Append` or
`Rollback`, a pop `Lease`, ack and quarantine `Resolve`, every nack and the drop of a lease `Requeue`, the discard `Discard`, and every
other step leaves the ledger alone.  What it needs beyond the invariant is that `advance_watermark` computes the ledger's
candidate, and that a pop takes numbers which are the least queued ones, in a row of the queue.  As `LeaseLedgerProofs` is stated of the abstract specification, its theorems then
hold of the ring: `RingWatermark`, `RingLeases` and `RingFatesAreFinal`.

`DiskLogProofs`: from `DiskAssumption`, for any number of signals, frame and segment sizes, batches, crashes, recoveries and
failing calls.  `AckIsDurable` needs nothing else.  For the rest two hypotheses on a behaviour's scenario are needed, and each of
them marks a place where the code does not keep the promise.  `WholeWrites`: no `write_all` stops half-way (the violation of `DiskLogPartial`, section 6).  `Durable`,
for `CrashSafe` alone: where power may be lost, `sync_on_write` is on and no sync of a full segment fails.  The inductive
invariant `DiskInv` has these parts.  `MarksInOrder`: the watermark file, the writer's persisted and staged watermark, those of the
commands under way and the rings' committed numbers are ordered, in every phase of a group.  `FramesInOrder` and
`AppendsInOrder`: a number is on disk once at most, an append that is not yet written has no frame on disk, and one that
is written and not yet answered has its frame where the writer will say.  `SlotsOnDisk`: a slot names the
place of its frame.  `SealedAgree` and `NoOrphans`: a sealed segment's `max_seq` is what its file says, a sealed segment that
the watermark covers exists only while it is being collected, and a file that recovery has not sealed holds nothing above the
watermark.  `DeliveredKept`: the number of a delivered batch is below the watermark file or still on disk, so that recovery does not
give it out again.  `AcceptedKept` and `GroupSynced`: an accepted batch has a frame above the watermark at a place no power loss takes, and what the
group has written is in the active segment or synced, which is why the one sync of the group is enough.  `CrashSafe` needs all of
them: the deletion of a segment is harmless only because its `max_seq` is exact and the watermark that covers it is already on disk and no higher than what
the rings have let go.  The lemma `DiskMoves` is the core: a step that may delete or seal files, but keeps every frame
above the watermark at its place and no less synced, keeps what the rings say of the disk; writes, collections and the
deletion after a recovery are such steps.  The other lemmas give `Seal`, `Advance`, `Merge`, `MaxSeqs` and `Decodable` in closed form.  The theorems: `DiskTypes`,
`SegmentsAndRingsMatch`, `NumbersSurviveCrashes` (of `SeqSurvivesCrash`) and `AcceptedIsCrashSafe`.

`AckIsDurable` holds of torn writes too, where `DiskInv` does not, and has an invariant of its own, `MarksInv`.  Its core is `GroupInOrder`: every
watermark the group has in hand is at most the staged one until the watermark file is written and at most the persisted one when the
replies are sent, unless the write failed, in which case nobody is told so; and what is staged is what is persisted whenever no group is under way, so that a
failed write is not taken for one that succeeded by the next group.  Recovery may only raise the watermark file.  That it does rests on the types
of what it reads, so the other parts say what segment files are when torn frames may be anywhere in them (`LooseDisk`), and that the
active one is neither sealed nor collected while it is written to.

`SinkDeliveryProofs`: from `LeaseFeedAssumption`, `KafkaAssumption`, `StarRocksAssumption`, `ElasticsearchAssumption` and `ParquetAssumption`, for any batches, faults, restarts, retry limits,
label probes, partition keys and limits of the writers.  `DeliveryInv` has one part per sink.  Kafka (`KafkaInv`): as long as nothing has failed, a slice the
cursor has passed is at the broker, or still queued and not yet awaited (`SlicesOnTheirWay`), so that at the acknowledgement none is
missing.  Iceberg (`IcebergInv`): the delivery tokens cover exactly what the table holds (`TokensMatch`), and of a lease that has passed the
duplicate check some batch is not in the table until its own commit (`SomethingNew`); this is why a snapshot always brings something
new, however leases are cut after a restart.  StarRocks (`StarRocksInv`): a label is used, remembered in `fallback_attempts` or carried by
a late request only when all labels of the same range with a smaller index are aborted, an aborted label stays aborted, and the visible loads are those of
the committed labels (`ServerOK`, `LateOK`, `TrackedOK`, `LoadOK`).  The lemma `OneCommits` concludes that of one
lease range a single label commits: the ones before it are aborted, and one after it is tried only when it is.  The lemmas about the server (`ServerMoves`,
`ServerCommits`) and about the sink (`StarRocksSucceeds`, `StarRocksFails`, `StarRocksGoesOn`) are separate, and every action combines one of each.
`OrderOK`: until a restart everything before the lease in hand is resolved and the lease itself is not, so nothing younger is visible.
Elasticsearch (`ElasticsearchInv`): the chunks of a task stand for the rows of its lease (`StandFor`): item k of a chunk is the row at `start_row` + k,
and every row that is not too large is an item of some chunk.  An item is still to be sent, or was refused, or is in the index (`ItemsKnown`), and
every answer to a bulk request keeps that, also one that retries some items and one that is lost.  When all chunks are answered, a row of the lease is
therefore too large, refused or stored, and the index `start_row + item_idx` quarantines the right one.  That the plan of the chunks stands for the
rows is a statement about a recursion over the rows of a lease (`PlanGoesOn`); an oversized row that did not end its chunk would break it.
Parquet (`ParquetInv`): a row that was received is in exactly one place (`RowsOnce`): still to be routed, in an open writer, in an upload that is not done,
or in one entry of what is stored; the places are disjoint, and none is missing unless the run already has an error to return.  The routing
list names each partition once, the eviction list each open writer once (`LruOK`), the memory counter is what the writers hold, and an
admitted part fits beside it (`AdmittedFits`), which is what makes the limit hold when its slices are written later.  `StagesOK` says what is already
empty at each stage of the final drain, so that at a clean end every row can only be stored.
The theorems: `AcknowledgedIsStored` (of `AckedIsStored`), `StoredOncePerLease` (of `OncePerLease`), `OrderIsKept` (of `StoredInOrder`),
`CleanStopIsComplete` (of `CleanStopStores`) and `WriterPoolIsBounded` (of `WriterPoolBounded`).  The first two
exclude a StarRocks table whose name is so long that a fallback label is cut (`LongTable`): there the labels of two leases
can be the same, `AckedIsStored` does not hold (the hazard at `starrocks-sink/src/lib.rs:103`), and the argument for the second,
which takes the range of a load from its label, does not apply.

`DataPathProofs`: the bulk call, from `BulkClientAssumption`, and the transformer, from `WasmAssumption` (positive capacities, and the
answers and policies the code knows).
`BulkAnswersAreTheClusters` rests on `SendsTheBusy`: the payload of a retry is, in the documents' order and each once, what the
cluster last called busy, and every other document has the answer the caller will get.  `ModulesAreCurrent` and
`BatchesMeetTheirFate` rest on `WasmInv`: a batch is in exactly one place (`Custody`), a worker's module is the one
of its generation (`RunsItsModule`), and as long as nothing interferes a worker ends only because it never started or its input has ended, and a batch that has left it has the
fate its guest's answer and the policies give it (`CalmWorkers`), so that the dispatcher's scan ends at an open worker (`CalmDispatch`).

`MetricsAccountForEmissions`, from `HostCallsAssumption`, for any number of guests, calls and names: two maps, of values and of exported handles, are read and written
in separate steps, so `MetricsAreExact` has to be stated of the emissions that have *passed* the value map.  `HostInv` adds that a call between its steps
is one that records something (`InsideRecords`), that a name's type is that of one of its emissions (`TypesAreTaken`), and that a name was
turned away only by a full map, which stays full (`DroppedWhenFull`).  The sums are saturating; `HelperTheorems` says that a saturated sum may be
saturated at every step.

The conversions are asked for and answered in one step, so their theorems are statements about operators, for any job that
satisfies the assumption on the set of jobs; the lemmas about them are the work.

- `GuestsAreContained`, from `GuestJobsAssumption`: the input has distinct column names; of the answer nothing is assumed but its shape.  What the guard lets
  through is shown column by column to have the input's columns first.  That a core column keeps its data needs that the guest gave one column of the name
  (`NamedOnce`): only then is the one that was verified the one that is taken.  A freed list is what an answer hands over, place by place (`TakenOnce`), so every buffer is in
  it (`KeptSome`), and once if one place has it (`KeptOnce`).
- `RowsAreInPlace`, from `RowLayoutAssumption` and `LayoutJobsAssumption`: rows are numbered, values are integers or Null, and no batch brings a `signal_type`
  column of its own.  A sort is a permutation whose neighbours are `InOrder`; that relation is transitive (`OrderIsTransitive`, for any keys, directions,
  nulls and missing columns), so any two rows are in order.  The rows of a sorted batch are `Spread` over the parts: a list of places of the batch for
  every part, which together name each place once.  Grouping by a key (Iceberg, Parquet) and cutting runs of equal lead keys (Kafka) are two such
  spreads, and runs of a sequence that is sorted by its lead key have different keys.  Rows of one part keep their order because their places ascend.
  A time lies in the hour and day of its directory by the bounds of a quotient, rounded down, also before 1970.
- `StartsAreSafe`, from `StartupAssumption` and `StartJobsAssumption`: numbers are words, the default buffer is valid, and the cluster is honest: what it lists and says of its
  templates is so.  `pattern_matches` is shown equal to its meaning, that the pattern's pieces cut the text, for patterns and texts of any length.
  A buffer that was resolved, raised for the sink and validated holds what V1 promises, the saturating products included.

What a recursive function computes for every argument is proved without an induction theorem (none can be instantiated here): the set of
arguments at which the claim fails, if not empty, has a least member (`LeastOf`), and the equation of the function refutes it.

**Only model-checked**:

- Liveness (`BlockedSendEnds`, `DrainCompletes`, `DrainEnds`, `EverythingIsResolved`, `RunReturns`): out of this prover's reach.
- `ReadsAsSent`: `OtlpCodec` and `VariantEncoding` recur over nested values, and the prover has no backend for a module with a RECURSIVE operator.

## 6. Findings

- `ReadinessGateStall` (code): `mark_admitted` clears the time a sender that blocked meanwhile has
  just stored; its stall is never reported.
- `DiskLogPartial` (code): after a `write_all` that fails half-way the segment goes on being
  used, and an accepted batch lies behind the torn bytes.
- `SupervisorDrain` (docs and code differ): the result of a transformer that fails during the drain
  is ignored; acknowledged batches of its channel are lost with exit status 0.

Each is quoted with its lines in `PROJECT.json`.  Smaller observations, which no run is about:

Buffer and supervisor

- The failed sync of a sealed segment is reported to one append only (`disk.rs:1425`); others of its group are
  answered Ok without having been synced, and a power loss then takes them.  The `DiskLog` run keeps
  that fault (kind `seal` of `DiskLog`) away from its power-loss scenario.
- Transient failures and dropped leases use up `max_attempts`, which `docs/buffer.md` says counts
  `Rejected` attempts.
- A sequence number survives a crash of the process (`SeqSurvivesCrash`), but not every power loss:
  without `sync_on_write`, or after a crash whose recovery does not sync the recovered segments, the
  frame of a delivered batch may go and its number be given to another one.
- A restarted process with the pid of the crashed one (the usual case in a container) takes the
  crashed one's temporary dead-letter files for its own and keeps them.  So does one whose pid happens to be a sequence
  number or the time in such a name, because `is_stale_tmp_file` looks for `_{pid}_` anywhere in it; `NoStaleTmp` says what does hold.
- `docs/buffer.md:242` (V2) wants a start to fail when the disk has less free space than `max_buffer_bytes`; no code looks at the free space.
- When the manifest of a quarantine fails and then the removal of the `.arrow` file fails too, its bytes are
  given back while the file stays.  The model assumes that removing a file succeeds.
- A send that is split into several disk frames and fails after some were accepted has stored those; a
  caller that retries sends them twice.
- Under `persist`, batches that are still in a channel when the drain times out are dropped with
  their transformer, and the process exits with status 0.
- The comment on `ensure_min_buffer_bytes` says that it also raises `segment_size_bytes`; it does not.

Transformer

- A worker that gives up empties its channel and then drops it; a batch that is sent in between is lost
  with it, as are batches whose output send failed, and those a worker holds when the drain times out,
  after which `run` returns Ok.
- When the reject DLQ fails and `on_error` is not `reroute`, the worker stops and drops what is queued for it.
- Two reloads at once (SIGHUP and REST) may publish in the other order than they read the file, and the
  older file stays.
- A candidate that cannot be instantiated is still recorded as the worker's generation, so the worker does
  not try it again until the next publication.
- A response with two columns of one name: the guard verifies the first, backfill takes the last.  A guest can so replace a nullable core column
  by an empty one of the same type; `GuestIsContained` promises a core column's data only where its name is given once.
- Of the pointers in a response only the outputs are compared, and with the input's only: a buffer that is named twice is freed twice, in the guest's own memory.
- `nullify_column` of the SDK may change nullability and metadata in a way the host's guard then refuses.
- A full metric registry may hold the value of one name and export another.

Sinks and codec

- StarRocks: the suffix of a fallback label is cut into a label that is too long, so labels of different
  leases may coincide (`lib.rs:103`); with `LongTable = TRUE` the model violates `AckedIsStored`.
  `inject_signal_type` adds a second column when one of that name exists.
- Elasticsearch: item statuses 502 and 504 are final although they are transient for a whole request;
  an error of signing or compression cools the endpoint like a network error; whether a start-up
  tier falls through to the next depends on the text of an error.
- A catalog that applies an Iceberg commit after the sink has given it up and looked for its token would
  let the retry commit the rows again; the model has no such late commit.
- Exponential histograms and summaries are skipped without a trace.  A remap can leave `service_name`
  unknown in a batch tagged verified, overwrites an existing target and depends on the order of the rules.
- A Variant integer above `i64::MAX` is written as the nearest double, and so is not read back exactly.
- The names of a bulk document's fields are written without escapes (`elasticsearch-sink/src/serializer.rs:141`); that a document is one line
  is checked of its values.
- Parquet's `format_partition_path` repeats the text behind an unclosed brace.
- Iceberg falls back to its default order when `order_by` does not parse; Elasticsearch's and Kafka's
  settings of that kind are not parsed by `--check` and fail at the start.
- Of several configured sinks only the first in main's order is validated and run.
- The check that telemetry is not exported to the program itself does not resolve host names.

## 7. Not modelled

- The round robin of one consumer over several signals (main starts one sink per signal), the split of a
  send into frames, the advisory lock and instance id of the buffer directory, buffer metrics.
- The admin server beyond its join, logging, configuration loading, TLS clients, exporter set-up: plain I/O.
  `Fanout` has no user in the program.
- File formats and encodings below the level of rows (Arrow IPC, CRC, Parquet pages, compression,
  NDJSON escapes, SigV4) and names of files and labels beyond what makes them equal or different.
- The bound of the WASM instance pool and epoch deadlines as such (a timeout is a trap), the guest's side
  of the ABI, the CLI.
- The destinations beyond what the sinks see of them: they are external actions next to each run loop.
