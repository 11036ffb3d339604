--------------------------- MODULE WasmDispatcher ---------------------------
(* WasmDispatcher::run over the workers of module WasmWorker: it starts them,  *)
(* hands each batch to the first worker with room, waits on a full one when    *)
(* there is none, and on the end of its input lets the workers finish.         *)
EXTENDS WasmWorker

VARIABLES
    phase,     \* Where run and dispatch_batch are.
    taken,     \* Batches received from the input.
    hand,      \* The batch being dispatched.
    nextWorker,
    offset,    \* Position of the loop over the workers.
    from,      \* Worker the loop counts from.
    firstFull, \* First full worker the loop met, or -1.
    result     \* What run returns.

dispatchVars == <<phase, taken, hand, nextWorker, offset, from, firstFull, result>>
vars == <<wasmVars, dispatchVars>>

Phases == {"validate", "init", "recv", "scan", "send", "rescan", "resend", "drain", "returned"}

DispatcherInit ==
    /\ phase = "validate"
    /\ taken = 0 /\ hand = None
    /\ nextWorker = 0 /\ offset = 0 /\ from = 0 /\ firstFull = -1
    /\ result = "Ok"

Init == WorkerInit /\ DispatcherInit

TypeOK ==
    /\ WorkerTypeOK
    /\ phase \in Phases
    /\ taken \in 0..MaxBatches /\ hand \in 0..MaxBatches
    /\ nextWorker \in Workers /\ from \in Workers /\ offset \in 0..Concurrency
    /\ firstFull \in Workers \cup {-1}
    /\ result \in {"Ok", "Err"}

-----------------------------------------------------------------------------
\* WasmTransformer::with_engine refuses policies that would drop what fails.
Acceptable(c) == c.onError = "passthrough" => c.allowUnmasked

Construct ==
    /\ phase = "validate"
    /\ IF Acceptable(config) THEN phase' = "init" /\ UNCHANGED result
       ELSE phase' = "returned" /\ result' = "Err"
    /\ UNCHANGED <<taken, hand, nextWorker, offset, from, firstFull, wasmVars>>

Reported(w) == worker[w].state # "starting" /\ (worker[w].state = "reloading" => worker[w].batch # None)
Started(w) == worker[w].alive

\* The start-up reports of all workers are in: one that started is enough.
AwaitWorkers ==
    /\ phase = "init" /\ \A w \in Workers : Reported(w)
    /\ IF \E w \in Workers : Started(w) THEN phase' = "recv" /\ UNCHANGED result
       ELSE phase' = "returned" /\ result' = "Err"
    /\ UNCHANGED <<taken, hand, nextWorker, offset, from, firstFull, wasmVars>>

TakeInput ==
    /\ phase = "recv" /\ taken < Len(guest)
    /\ taken' = taken + 1 /\ hand' = taken + 1
    /\ phase' = "scan" /\ offset' = 0 /\ from' = nextWorker /\ firstFull' = -1
    /\ UNCHANGED <<nextWorker, result, wasmVars>>

-----------------------------------------------------------------------------
(* dispatch_batch                                                              *)

ClosedChannel(w) == worker[w].state = "ended"
FullChannel(w) == Len(worker[w].queue) >= ChannelCapacity

\* Mutant: the batch stays pending although the channel took it.
SendKeepsPending(w) ==
    /\ worker' = [worker EXCEPT ![w].queue = Append(@, hand)]
    /\ nextWorker' = (w + 1) % Concurrency
    /\ phase' = "recv"
    /\ UNCHANGED <<hand, taken, offset, from, firstFull, result>>

\* The channel takes the batch.
Send(w) ==
    /\ worker' = [worker EXCEPT ![w].queue = Append(@, hand)]
    /\ nextWorker' = (w + 1) % Concurrency
    /\ phase' = "recv" /\ hand' = None
    /\ UNCHANGED <<taken, offset, from, firstFull, result>>

SameWorkers == UNCHANGED <<config, guest, engineVars, fate, causes, sendersOpen, outputOpen>>

\* try_send to the worker the loop is at.
TrySend ==
    /\ phase \in {"scan", "rescan"} /\ offset < Concurrency
    /\ LET w == (from + offset) % Concurrency IN
         \/ /\ ~ClosedChannel(w) /\ ~FullChannel(w)
            /\ Send(w)
         \/ /\ ClosedChannel(w) \/ FullChannel(w)
            /\ offset' = offset + 1
            /\ firstFull' = IF firstFull = -1 /\ ~ClosedChannel(w) THEN w ELSE firstFull
            /\ UNCHANGED <<phase, taken, hand, nextWorker, from, result, worker>>
    /\ SameWorkers

\* Mutant: run awaits its workers while it holds their senders.
KeepSenders == sendersOpen' = sendersOpen

\* drop(worker_txs), on either way out of run's loop.
DropSenders == sendersOpen' = FALSE

\* dispatch_batch returns false: the loop breaks and run drains the workers.
GiveUp ==
    /\ result' = "Err" /\ phase' = "drain" /\ hand' = None
    /\ DropSenders

\* No worker took it: wait on the first full one, or fail when all are closed.
ScanEnds ==
    /\ phase \in {"scan", "rescan"} /\ offset = Concurrency
    /\ \/ /\ firstFull # -1
          /\ phase' = IF phase = "scan" THEN "send" ELSE "resend"
          /\ UNCHANGED <<hand, result, sendersOpen, fate>>
       \/ /\ firstFull = -1
          /\ GiveUp
          /\ fate' = [fate EXCEPT ![hand] = "lost"]
    /\ UNCHANGED <<taken, nextWorker, offset, from, firstFull, config, guest, engineVars,
                   worker, causes, outputOpen>>

\* send(b).await on the full worker: room, or its channel closed meanwhile.  The
\* first time the other workers are tried again, the second time it is an error.
AwaitRoom ==
    /\ phase \in {"send", "resend"}
    /\ \/ /\ ~ClosedChannel(firstFull) /\ ~FullChannel(firstFull)
          /\ Send(firstFull)
          /\ UNCHANGED <<sendersOpen, fate>>
       \/ /\ ClosedChannel(firstFull) /\ phase = "send"
          /\ phase' = "rescan" /\ from' = firstFull /\ offset' = 1 /\ firstFull' = -1
          /\ UNCHANGED <<taken, hand, nextWorker, result, worker, sendersOpen, fate>>
       \/ /\ ClosedChannel(firstFull) /\ phase = "resend"
          /\ GiveUp
          /\ fate' = [fate EXCEPT ![hand] = "lost"]
          /\ UNCHANGED <<taken, nextWorker, offset, from, firstFull, worker>>
    /\ UNCHANGED <<config, guest, engineVars, causes, outputOpen>>

-----------------------------------------------------------------------------
\* The input is closed.
InputEnds ==
    /\ phase = "recv" /\ taken = Len(guest)
    /\ phase' = "drain" /\ DropSenders
    /\ UNCHANGED <<taken, hand, nextWorker, offset, from, firstFull, result, config, guest,
                   engineVars, workerVars, outputOpen>>

\* drain_workers: every task is joined.
DrainWorkers ==
    /\ phase = "drain"
    /\ \A w \in Workers : worker[w].state = "ended"
    /\ phase' = "returned"
    /\ UNCHANGED workerVars

\* The drain timeout aborts the tasks that are left; run's result is the same.
DrainTimeout ==
    /\ phase = "drain"
    /\ Fault("timeout")
    /\ EndTasks({w \in Workers : worker[w].state # "ended"})
    /\ phase' = "returned"

Drain ==
    /\ DrainWorkers \/ DrainTimeout
    /\ UNCHANGED <<taken, hand, nextWorker, offset, from, firstFull, result, config, guest,
                   engineVars, sendersOpen, outputOpen>>

DispatcherStep ==
    \/ Construct \/ AwaitWorkers \/ TakeInput \/ TrySend \/ ScanEnds \/ AwaitRoom
    \/ InputEnds \/ Drain

-----------------------------------------------------------------------------
\* Workers are spawned by run.
WorkersRun == phase \notin {"validate", "returned"}

Next ==
    \/ DispatcherStep
    \/ /\ WorkersRun
       /\ \/ \E w \in Workers : WorkerStep(w) \/ Panic(w)
          \/ EngineStep
          \/ CloseOutput
       /\ UNCHANGED dispatchVars

\* The runtime polls every task that can go on; a guest call ends, at the latest
\* by its epoch deadline.
Fairness ==
    /\ WF_vars(DispatcherStep)
    /\ \A w \in Workers : WF_vars(WorkersRun /\ WorkerStep(w) /\ UNCHANGED dispatchVars)

Spec == Init /\ [][Next]_vars /\ Fairness

-----------------------------------------------------------------------------
(* Properties                                                                  *)

\* The number of places batch b is in.
Places(b) ==
    LET queued == {p \in Workers \X (1..ChannelCapacity) :
                     p[2] <= Len(worker[p[1]].queue) /\ worker[p[1]].queue[p[2]] = b}
        running == {w \in Workers : worker[w].batch = b}
    IN  Cardinality(queued) + Cardinality(running)
        + (IF hand = b THEN 1 ELSE 0) + (IF fate[b] # "none" THEN 1 ELSE 0)

\* What the guest's answer and the policies say should become of a batch.
Due(b) ==
    CASE guest[b] \in {"emitted", "discarded"} -> guest[b]
      [] guest[b] \in {"rejected", "tooLarge"} ->
            IF config.onReject = "reroute" THEN "dlqReject" ELSE "dropped"
      [] guest[b] \in {"errored", "trap"} ->
            IF config.onError = "reroute" THEN "dlqError"
            ELSE IF config.onError = "passthrough" THEN "emitted" ELSE "dropped"

\* A batch that was taken from the input is in one place: with the dispatcher, in
\* one channel, in one worker, or settled; returned sends, retries over the
\* surviving workers and draining neither copy nor forget one.  As long as no
\* destination, panic, failed replacement or drain timeout interferes, it ends
\* where the guest's answer and the configured policies send it, and run returns
\* only when all have ended there.
OutcomesAreHonoured ==
    /\ \A b \in 1..taken : Places(b) = 1
    /\ causes \subseteq {"init", "candidate"} =>
          /\ \A b \in Batches : fate[b] \in {"none", Due(b)}
          /\ phase = "returned" /\ result = "Ok" => \A b \in Batches : fate[b] # "none"

\* A worker never transforms a batch with a module older than the one that was
\* published when it took the batch, and the module it runs is the one its
\* generation number stands for, unless that one could not be instantiated.
RunsPublishedModule ==
    \A w \in Workers :
        /\ worker[w].local > 0 /\ ~worker[w].stale => worker[w].module = published[worker[w].local]
        /\ worker[w].state = "executing" => worker[w].local >= worker[w].seen

\* run returns once its input has ended, whichever workers fail on the way.
RunReturns == <>(phase = "returned")

=============================================================================
