----------------------------- MODULE WasmWorker -----------------------------
(* The workers of one signal's WASM transformer and the engine cache they      *)
(* share with the two ways to reload a module: SIGHUP and the admin endpoint.  *)
(* A worker runs its batches one at a time on a blocking thread, adopts a      *)
(* newly published module between two batches, replaces its guest instance     *)
(* after a trap, and empties its queue when it cannot go on.                   *)
EXTENDS Integers, Sequences, FiniteSets

CONSTANTS
    Concurrency,       \* Workers.
    ChannelCapacity,   \* Batches a worker's channel holds.
    MaxBatches,        \* Batches the transformer receives.
    Scenarios,         \* Policies, what the guest answers to each batch, and who reloads.
    RejuvenateBatches, \* Batches after which an instance is replaced (0: never).
    Reloaders,         \* Concurrent sources of reloads.
    Versions,          \* Versions of the module file: 0 .. Versions.
    Unfit,             \* Versions that do not hash, compile or probe.
    FaultKinds         \* Kinds of faults one behaviour may meet, each any number of times.

\* What comes of a batch in the guest, its refusal for its size included.
GuestAnswers == {"emitted", "discarded", "rejected", "errored", "trap", "tooLarge"}

\* The part of the transformer's configuration that routes batches.
Policies ==
    [onError : {"reroute", "passthrough", "drop"}, onReject : {"reroute", "drop"},
     allowUnmasked : BOOLEAN]

ASSUME WasmAssumption ==
    /\ {Concurrency, ChannelCapacity, MaxBatches} \subseteq Nat \ {0}
    /\ {RejuvenateBatches, Versions, FaultKinds} \subseteq Nat
    /\ Unfit \subseteq 1..Versions
    /\ \A s \in Scenarios :
          /\ Len(s.guest) \in 1..MaxBatches
          /\ s.guest \in Seq(GuestAnswers)
          /\ s.config \in Policies
          /\ s.reloaders \subseteq Reloaders

Workers == 0..(Concurrency - 1)
None == 0
NoModule == [module |-> -1, generation |-> 0]

VARIABLES
    config,      \* [onError, onReject, allowUnmasked]
    guest,       \* The guest's answers in this behaviour.
    file,        \* Version of the module file on disk.
    published,   \* Modules in the order they were published; the last is the snapshot.
    reload,      \* Per source: the bytes it has read; -1 before, -2 once it has ended.
    worker,      \* Per worker: its task, its channel and its guest instance.
    sendersOpen, \* The dispatcher holds the senders of the workers' channels.
    outputOpen,  \* The sink buffer accepts batches.
    fate,        \* What became of each batch.
    causes       \* Faults that have happened, by kind.

\* The batches of this behaviour.
Batches == DOMAIN guest

engineVars == <<file, published, reload>>
workerVars == <<worker, fate, causes>>
wasmVars == <<config, guest, engineVars, workerVars, sendersOpen, outputOpen>>

Fates == {"none", "emitted", "discarded", "dlqError", "dlqReject", "dropped", "lost"}

WorkerInit ==
    /\ \E s \in Scenarios :
          /\ config = s.config
          /\ guest = s.guest
          /\ reload = [r \in Reloaders |-> IF r \in s.reloaders THEN -1 ELSE -2]
    /\ file = 0
    /\ published = <<0>>
    /\ worker = [w \in Workers |->
          [state |-> "starting", queue |-> <<>>, batch |-> None, seen |-> 1,
           module |-> -1, local |-> 0, target |-> NoModule, stale |-> FALSE,
           processed |-> 0, alive |-> TRUE]]
    /\ sendersOpen = TRUE
    /\ outputOpen = TRUE
    /\ fate = [b \in Batches |-> "none"]
    /\ causes = {}

WorkerStates == {"starting", "reloading", "idle", "executing", "routing",
                 "draining", "dying", "ending", "ended"}

WorkerTypeOK ==
    /\ file \in 0..Versions
    /\ published \in Seq(0..Versions)
    /\ reload \in [Reloaders -> -2..Versions]
    /\ \A w \in Workers :
          /\ worker[w].state \in WorkerStates
          /\ worker[w].queue \in Seq(Batches) /\ Len(worker[w].queue) <= ChannelCapacity
          /\ worker[w].batch \in Batches \cup {None}
          /\ worker[w].local \in 0..Len(published)
          /\ worker[w].processed \in 0..MaxBatches
    /\ {sendersOpen, outputOpen} \subseteq BOOLEAN
    /\ fate \in [Batches -> Fates]

-----------------------------------------------------------------------------
(* EngineCache and the reloads                                                 *)

\* module_generation and current_snapshot: publish_module changes both under
\* the write lock.
Generation == Len(published)
CurrentSnapshot == [module |-> published[Generation], generation |-> Generation]

\* The operator installs another version of the module.
ReplaceFile ==
    /\ file < Versions
    /\ \E r \in Reloaders : reload[r] # -2
    /\ file' = file + 1
    /\ UNCHANGED <<config, guest, published, reload, workerVars, sendersOpen, outputOpen>>

\* A signal or a request: the file is read before the module is compiled on a
\* blocking thread.
ReadModule(r) ==
    /\ reload[r] = -1
    /\ reload' = [reload EXCEPT ![r] = file]
    /\ UNCHANGED <<config, guest, file, published, workerVars, sendersOpen, outputOpen>>

\* instantiate_guest: the exports are there, the ABI version is the host's, and
\* datalake_init succeeds.
InstantiateGuest(bytes) == bytes \notin Unfit

\* The digest is the expected one, the module compiles, and a probe instance can
\* be made of it.
CompileAndProbe(bytes) == InstantiateGuest(bytes)

\* What a reload makes of the bytes it read: a candidate that fails its probe
\* leaves the published modules as they are.
Staged(bytes) == IF CompileAndProbe(bytes) THEN Append(published, bytes) ELSE published

\* stage_and_publish_module and reload_module.
StageAndPublish(r) ==
    /\ reload[r] >= 0
    /\ published' = Staged(reload[r])
    /\ reload' = [reload EXCEPT ![r] = -2]
    /\ UNCHANGED <<config, guest, file, workerVars, sendersOpen, outputOpen>>

-----------------------------------------------------------------------------
(* The environment                                                             *)

Fault(kind) == Cardinality(causes) < FaultKinds /\ causes' = causes \cup {kind}

\* The sink's buffer closes under the transformer.
CloseOutput ==
    /\ outputOpen /\ Fault("output")
    /\ outputOpen' = FALSE
    /\ UNCHANGED <<config, guest, engineVars, worker, fate, sendersOpen>>

-----------------------------------------------------------------------------
(* A worker's task                                                             *)

Same == UNCHANGED <<config, guest, engineVars, sendersOpen, outputOpen>>

Become(w, state) == worker' = [worker EXCEPT ![w].state = state]

\* WasmWorker::new: the snapshot's module, or the task reports its failure and
\* its channel closes.
NewWorker(w) ==
    /\ worker[w].state = "starting"
    /\ \/ /\ worker' = [worker EXCEPT ![w].state = "reloading",
                            ![w].module = CurrentSnapshot.module, ![w].local = Generation]
          /\ UNCHANGED causes
       \/ /\ Fault("init")
          /\ worker' = [worker EXCEPT ![w].state = "ended", ![w].alive = FALSE]
    /\ UNCHANGED fate
    /\ Same

\* wrx.recv().
Receive(w) ==
    /\ worker[w].state = "idle" /\ worker[w].queue # <<>>
    /\ worker' = [worker EXCEPT ![w].state = "reloading", ![w].batch = Head(worker[w].queue),
                                ![w].queue = Tail(@), ![w].seen = Generation]
    /\ UNCHANGED <<fate, causes>>
    /\ Same

\* recv returns None: the channel is empty and its sender is gone.
EndOfInput(w) ==
    /\ worker[w].state = "idle" /\ worker[w].queue = <<>> /\ ~sendersOpen
    /\ Become(w, "ended")
    /\ UNCHANGED <<fate, causes>>
    /\ Same

\* check_hot_reload compares the generations, then takes the snapshot.
ReadSnapshot(w) ==
    /\ worker[w].state = "reloading" /\ worker[w].target = NoModule
    /\ worker[w].local < Generation
    /\ worker' = [worker EXCEPT ![w].target = CurrentSnapshot]
    /\ UNCHANGED <<fate, causes>>
    /\ Same

\* Mutant: the generation is read again when the candidate is ready.
AdoptLatestNumber(w) ==
    worker' = [worker EXCEPT ![w].module = worker[w].target.module, ![w].local = Generation,
                             ![w].target = NoModule, ![w].stale = FALSE, ![w].processed = 0]

\* The candidate replaces the guest instance.
Adopt(w) ==
    worker' = [worker EXCEPT ![w].module = worker[w].target.module,
                             ![w].local = worker[w].target.generation,
                             ![w].target = NoModule, ![w].stale = FALSE, ![w].processed = 0]

\* Where execution goes on once the module is settled: WasmWorker::new returns,
\* or the batch is transformed.
AfterReload(w) == IF worker[w].batch = None THEN "idle" ELSE "executing"

\* The candidate is instantiated, and the loop looks again; or it cannot be,
\* and the active module stays, recorded as the generation that failed.
TryCandidate(w) ==
    /\ worker[w].state = "reloading" /\ worker[w].target # NoModule
    /\ \/ Adopt(w) /\ UNCHANGED causes
       \/ /\ Fault("candidate")
          /\ worker' = [worker EXCEPT ![w].local = worker[w].target.generation,
                            ![w].target = NoModule, ![w].stale = TRUE,
                            ![w].state = AfterReload(w)]
    /\ UNCHANGED fate
    /\ Same

HotReloaded(w) ==
    /\ worker[w].state = "reloading" /\ worker[w].target = NoModule
    /\ worker[w].local >= Generation
    /\ Become(w, AfterReload(w))
    /\ UNCHANGED <<fate, causes>>
    /\ Same

\* check_rejuvenation, by the number of batches on this instance.
RejuvenationIsDue(processed) == RejuvenateBatches > 0 /\ processed >= RejuvenateBatches

\* The end of execute_batch: the batch is counted, and rejuvenate restarts the
\* count, also when the replacement fails and the instance stays.
CountBatch(n) == IF RejuvenationIsDue(n + 1) THEN 0 ELSE n + 1

\* execute_batch.  max_batch_rows rejects a batch before the guest sees it; a
\* trap, a timeout or a malformed response is followed by rejuvenate, which may
\* fail.
Execute(w) ==
    /\ worker[w].state = "executing"
    /\ LET answer == guest[worker[w].batch] IN
         \/ /\ answer \notin {"trap", "tooLarge"}
            /\ worker' = [worker EXCEPT ![w].state = "routing", ![w].processed = CountBatch(@)]
            /\ UNCHANGED causes
         \/ /\ answer = "tooLarge"
            /\ Become(w, "routing")
            /\ UNCHANGED causes
         \/ /\ answer = "trap"
            /\ \/ /\ worker' = [worker EXCEPT ![w].state = "routing", ![w].processed = 0]
                  /\ UNCHANGED causes
               \/ /\ Fault("rejuvenation")
                  /\ worker' = [worker EXCEPT ![w].state = "routing", ![w].processed = 0,
                                              ![w].alive = FALSE]
    /\ UNCHANGED fate
    /\ Same

\* Batches of a worker that will never leave it.
Abandoned(w) ==
    {worker[w].queue[i] : i \in 1..Len(worker[w].queue)} \cup ({worker[w].batch} \ {None})

\* The task's receiver is dropped, and with it what the channel holds.
EndTasks(ws) ==
    /\ worker' = [w \in Workers |->
          IF w \in ws THEN [worker[w] EXCEPT !.state = "ended", !.queue = <<>>, !.batch = None,
                                             !.alive = FALSE]
          ELSE worker[w]]
    /\ fate' = [b \in Batches |-> IF b \in UNION {Abandoned(w) : w \in ws} THEN "lost" ELSE fate[b]]

\* The blocking thread panics: the worker is gone with it.
Panic(w) ==
    /\ worker[w].state = "executing"
    /\ Fault("panic")
    /\ EndTasks({w})
    /\ Same

-----------------------------------------------------------------------------
(* Where a batch goes.  Each routing operator gives the fates it may have and  *)
(* whether the destination is still healthy; "lost" is an unhealthy one.       *)

\* FileDlqSink::send persists the batch, or fails.
ToDlq(f) == {[fate |-> f, fault |-> FALSE], [fate |-> "lost", fault |-> TRUE]}
Certain(f) == {[fate |-> f, fault |-> FALSE]}

ToOutput == Certain(IF outputOpen THEN "emitted" ELSE "lost")

HandleRejected ==
    IF config.onReject = "reroute" THEN ToDlq("dlqReject") ELSE Certain("dropped")

\* Mutant: an errored batch is forwarded whatever the policy.
HandleErroredForwards ==
    IF config.onError = "reroute" THEN ToDlq("dlqError") ELSE ToOutput

HandleErrored ==
    CASE config.onError = "reroute" -> ToDlq("dlqError")
      [] config.onError = "passthrough" ->
            IF config.allowUnmasked THEN ToOutput ELSE Certain("dropped")
      [] config.onError = "drop" -> Certain("dropped")

\* handle_worker_outcome and the match on the result.
RouteOf(answer) ==
    CASE answer = "emitted" -> ToOutput
      [] answer = "discarded" -> Certain("discarded")
      [] answer \in {"rejected", "tooLarge"} -> HandleRejected
      [] answer \in {"errored", "trap"} -> HandleErrored

Settle(b, to) ==
    /\ fate' = [fate EXCEPT ![b] = to.fate]
    /\ IF to.fault THEN Fault("dlq") ELSE UNCHANGED causes

\* The result of a batch is sent on.  A worker whose instance could not be
\* replaced, or whose destination is gone, starts to empty its channel.
Route(w) ==
    /\ worker[w].state = "routing"
    /\ \E to \in RouteOf(guest[worker[w].batch]) :
          /\ Settle(worker[w].batch, to)
          /\ worker' = [worker EXCEPT ![w].batch = None,
                ![w].state = IF ~worker[w].alive THEN "dying"
                             ELSE IF to.fate = "lost" THEN "draining" ELSE "idle",
                ![w].alive = to.fate # "lost" /\ worker[w].alive]
    /\ Same

\* The error channel, when there is one, takes what a closed output cannot.
DivertQueued == IF config.onError = "reroute" THEN ToDlq("dlqError") ELSE Certain("lost")

\* One turn of a while let Ok(..) = wrx.try_recv() loop.
DrainOne(w) ==
    /\ worker[w].state \in {"draining", "dying"} /\ worker[w].queue # <<>>
    /\ \E to \in IF worker[w].state = "dying" THEN HandleErrored ELSE DivertQueued :
          Settle(Head(worker[w].queue), to)
    /\ worker' = [worker EXCEPT ![w].queue = Tail(@)]
    /\ Same

\* try_recv finds the channel empty: the loop ends, the receiver still exists.
DrainedEmpty(w) ==
    /\ worker[w].state \in {"draining", "dying"} /\ worker[w].queue = <<>>
    /\ Become(w, "ending")
    /\ UNCHANGED <<fate, causes>>
    /\ Same

\* The task returns; a batch sent since try_recv looked is dropped with it.
DropReceiver(w) ==
    /\ worker[w].state = "ending"
    /\ EndTasks({w})
    /\ UNCHANGED causes
    /\ Same

WorkerStep(w) ==
    \/ NewWorker(w) \/ Receive(w) \/ EndOfInput(w)
    \/ ReadSnapshot(w) \/ TryCandidate(w) \/ HotReloaded(w)
    \/ Execute(w) \/ Route(w) \/ DrainOne(w) \/ DrainedEmpty(w) \/ DropReceiver(w)

\* A request to wasm_reload_handler or a SIGHUP; one that is refused changes nothing.
Reload(r) == ReadModule(r) \/ StageAndPublish(r)

EngineStep == ReplaceFile \/ \E r \in Reloaders : Reload(r)

=============================================================================
