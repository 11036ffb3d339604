----------------------------- MODULE Supervisor -----------------------------
(***************************************************************************)
(* The whole pipeline as main.rs runs it: the OTLP receiver, one           *)
(* transformer and one sink per signal, and the supervisor that waits for  *)
(* the first of them to end or for SIGTERM, drains the pipeline within     *)
(* drain_timeout_sec, aborts what is left and finalizes the buffers.       *)
(*                                                                         *)
(* Of a batch only its place in the pipeline matters, so the state counts  *)
(* the batches of each signal at each place.  What a ring does inside      *)
(* (order, leases, retries, eviction) is SinkBuffer's matter; here it      *)
(* holds batches up to its capacity, under the Block policy.               *)
(***************************************************************************)
EXTENDS Integers, Sequences, SequencesExt, Sums

CONSTANTS
    SignalOrder,      \* the signals, in the order main.rs handles them
    Loads,            \* bound: how many requests clients make for each signal
    ChannelCapacity,  \* pipeline.channel_capacity
    RingCapacity,     \* per-signal budget of the buffer, in batches
    Modes,            \* buffer configurations: [disk, persist]
    MaxFaults         \* bound: tasks that fail or panic by themselves

Signals == Range(SignalOrder)

ASSUME SupervisorAssumption ==
    /\ Loads \subseteq [Signals -> Nat] /\ ChannelCapacity \in Nat \ {0}
    /\ RingCapacity \in Nat \ {0} /\ MaxFaults \in Nat
    /\ SignalOrder \in Seq(STRING) /\ IsInjective(SignalOrder)
    \* V3: persisting at the drain timeout needs the disk
    /\ Modes \subseteq {m \in [disk : BOOLEAN, persist : BOOLEAN] : m.persist => m.disk}

Source == [role |-> "source", sig |-> "all"]
Trans(s) == [role |-> "trans", sig |-> s]
Sink(s) == [role |-> "sink", sig |-> s]
Tasks == {Source} \cup {Trans(s) : s \in Signals} \cup {Sink(s) : s \in Signals}

\* The order in which the tasks are aborted after a drain timeout.
AbortOrder ==
    <<Source>> \o [i \in DOMAIN SignalOrder |-> Trans(SignalOrder[i])]
               \o [i \in DOMAIN SignalOrder |-> Sink(SignalOrder[i])]

VARIABLES
    mode,       \* the buffer configuration
    at,         \* how many batches of each signal are at each place
    accepting,  \* connections still bring new requests
    task,       \* what each spawned task is doing or returned
    shutdown,   \* the value of the shutdown watch channel
    phase,      \* where main() is
    done,       \* the tasks whose *_done flag is set
    awaited,    \* how often each join handle was awaited to its end (history)
    failedSinks,\* sinks whose *_drain_res is an error
    timedOut,   \* drain_outcome is an error
    nextAbort,  \* index into AbortOrder
    exitErr,    \* exit_err is Some
    faults      \* faults so far

tasks == <<task, faults>>
sup == <<shutdown, phase, done, awaited, failedSinks, timedOut, nextAbort, exitErr>>
vars == <<mode, at, accepting, tasks, sup>>

Running(t) == task[t] = "run"

\* Where a batch can be, from the client's request to its end.
Places == {"client", "handler", "refused", "chan", "trans", "append", "ring", "leased",
           "delivered", "lost", "discarded"}

\* One batch of signal s goes from one place to another.
Move(s, from, to) ==
    /\ at[s][from] > 0
    /\ at' = [at EXCEPT ![s][from] = @ - 1, ![s][to] = @ + 1]

\* All batches of signal s at the places from go to one other place.
Emptied(counts, from, to) ==
    [p \in Places |->
        IF p \in from THEN 0
        ELSE IF p = to THEN counts[p] + SumOf([q \in from |-> counts[q]])
        ELSE counts[p]]

NoHandler == \A s \in Signals : at[s]["handler"] = 0

\* Mutant: main keeps a clone of the channel's sender.
ChannelHeldByMain == phase = "exited"

\* recv() returns None once the receiver object and every connection, each with
\* clones of the senders, are gone.
ChannelClosed ==
    /\ ~Running(Source) /\ ~accepting
    /\ NoHandler

\* What the ring of signal s holds.
Buffered(s) == at[s]["append"] + at[s]["ring"] + at[s]["leased"]

Init ==
    /\ mode \in Modes
    /\ \E load \in Loads :
         at = [s \in Signals |-> [p \in Places |-> IF p = "client" THEN load[s] ELSE 0]]
    /\ accepting = TRUE
    /\ task = [t \in Tasks |-> "run"] /\ faults = 0
    /\ shutdown = FALSE /\ phase = "select"
    /\ done = {} /\ awaited = [t \in Tasks |-> 0] /\ failedSinks = {}
    /\ timedOut = FALSE /\ nextAbort = 1 /\ exitErr = FALSE

-----------------------------------------------------------------------------
(* The receiver: its handlers run in tasks of their connections, which       *)
(* outlive an aborted or failed source task.                                 *)

\* A request arrives and is decoded.
Request(s) ==
    /\ phase # "exited" /\ accepting
    /\ Move(s, "client", "handler")
    /\ UNCHANGED <<mode, accepting, tasks, sup>>

\* tx.send(batch).await succeeds, and the client is answered OK.
Accept(s) ==
    /\ phase # "exited" /\ Running(Trans(s))
    /\ at[s]["chan"] < ChannelCapacity
    /\ Move(s, "handler", "chan")
    /\ UNCHANGED <<mode, accepting, tasks, sup>>

\* The transformer has dropped the receiver: 503 or UNAVAILABLE.
Refuse(s) ==
    /\ phase # "exited" /\ ~Running(Trans(s))
    /\ Move(s, "handler", "refused")
    /\ UNCHANGED <<mode, accepting, tasks, sup>>

\* Both servers see the watch channel and stop taking requests.
StopAccepting ==
    /\ phase # "exited" /\ shutdown /\ accepting
    /\ accepting' = FALSE
    /\ UNCHANGED <<mode, at, tasks, sup>>

\* try_join! of the two servers ends when the last request is answered.
SourceEnds ==
    /\ phase # "exited" /\ Running(Source) /\ ~accepting
    /\ NoHandler
    /\ task' = [task EXCEPT ![Source] = "ok"]
    /\ UNCHANGED <<mode, at, accepting, faults, sup>>

-----------------------------------------------------------------------------
(* The transformer of signal s: receive a batch, send it to the buffer.      *)

TransformRecv(s) ==
    /\ phase # "exited" /\ Running(Trans(s))
    /\ at[s]["trans"] + at[s]["append"] = 0
    /\ Move(s, "chan", "trans")
    /\ UNCHANGED <<mode, accepting, tasks, sup>>

\* BufferSender::send finds room.  With a disk the frame goes to the writer thread,
\* which finishes it whether or not the sender still waits.
TransformSend(s) ==
    /\ phase # "exited" /\ Running(Trans(s)) /\ Running(Sink(s))
    /\ Buffered(s) < RingCapacity
    /\ Move(s, "trans", IF mode.disk THEN "append" ELSE "ring")
    /\ UNCHANGED <<mode, accepting, tasks, sup>>

AppendFinished(s) ==
    /\ phase # "exited"
    /\ Move(s, "append", "ring")
    /\ UNCHANGED <<mode, accepting, tasks, sup>>

\* What dropping the task's locals does.  A transformer drops the channel's receiver
\* with what is queued and the batch it holds; a sink drops its leases, which requeues.
Dropped(t) ==
    CASE t.role = "trans" -> [at EXCEPT ![t.sig] = Emptied(@, {"chan", "trans"}, "lost")]
      [] t.role = "sink" -> [at EXCEPT ![t.sig] = Emptied(@, {"leased"}, "ring")]
      [] OTHER -> at

\* Mutant: the transformer stops at the shutdown, with its channel not drained.
TransformEndsEarly(s) ==
    /\ phase # "exited" /\ Running(Trans(s))
    /\ ChannelClosed /\ at[s]["trans"] + at[s]["append"] = 0
    /\ task' = [task EXCEPT ![Trans(s)] = "ok"]
    /\ UNCHANGED <<mode, at, accepting, faults, sup>>

\* input.recv() returns None: the transformer returns Ok.
TransformEnds(s) ==
    /\ phase # "exited" /\ Running(Trans(s))
    /\ ChannelClosed /\ at[s]["chan"] + at[s]["trans"] + at[s]["append"] = 0
    /\ task' = [task EXCEPT ![Trans(s)] = "ok"]
    /\ UNCHANGED <<mode, at, accepting, faults, sup>>

\* The sink has dropped its buffer, so send fails: DownstreamClosed.
TransformDownstreamClosed(s) ==
    /\ phase # "exited" /\ Running(Trans(s)) /\ ~Running(Sink(s))
    /\ at[s]["trans"] > 0
    /\ task' = [task EXCEPT ![Trans(s)] = "err"]
    /\ at' = Dropped(Trans(s))
    /\ UNCHANGED <<mode, accepting, faults, sup>>

-----------------------------------------------------------------------------
(* The sink of signal s: lease, write, acknowledge or quarantine.            *)

\* Mutant: leases are taken by a detached task, which abort() does not reach.
SinkLeaseDetached(s) ==
    /\ phase # "exited" /\ at[s]["leased"] = 0
    /\ Move(s, "ring", "leased")
    /\ UNCHANGED <<mode, accepting, tasks, sup>>

SinkLease(s) ==
    /\ phase # "exited" /\ Running(Sink(s)) /\ at[s]["leased"] = 0
    /\ Move(s, "ring", "leased")
    /\ UNCHANGED <<mode, accepting, tasks, sup>>

SinkResolve(s) ==
    /\ phase # "exited" /\ Running(Sink(s))
    /\ Move(s, "leased", "delivered")
    /\ UNCHANGED <<mode, accepting, tasks, sup>>

\* next_lease() returns None: the sender is gone and the ring is empty.
SinkEnds(s) ==
    /\ phase # "exited" /\ Running(Sink(s))
    /\ ~Running(Trans(s)) /\ Buffered(s) = 0
    /\ task' = [task EXCEPT ![Sink(s)] = "ok"]
    /\ UNCHANGED <<mode, at, accepting, faults, sup>>

\* A task returns an error of its own or panics: a server that cannot bind, a
\* transformer whose workers are gone, a sink that met a fatal error.
TaskFails(t) ==
    /\ phase # "exited" /\ Running(t) /\ faults < MaxFaults
    /\ task' = [task EXCEPT ![t] = "err"]
    /\ at' = Dropped(t)
    /\ faults' = faults + 1
    /\ UNCHANGED <<mode, accepting, sup>>

-----------------------------------------------------------------------------
(* The supervisor.                                                           *)

\* select!: SIGINT or SIGTERM.
SelectSignal ==
    /\ phase = "select"
    /\ shutdown' = TRUE /\ phase' = "source"
    /\ UNCHANGED <<mode, at, accepting, tasks, done, awaited, failedSinks,
                   timedOut, nextAbort, exitErr>>

\* select!: a task ended, with whatever result.
SelectTask(t) ==
    /\ phase = "select" /\ ~Running(t)
    /\ done' = done \cup {t}
    /\ awaited' = [awaited EXCEPT ![t] = @ + 1]
    /\ exitErr' = TRUE
    /\ shutdown' = TRUE /\ phase' = "source"
    /\ UNCHANGED <<mode, at, accepting, tasks, failedSinks, timedOut, nextAbort>>

\* The drain waits for the source first; its result is only logged.
DrainSource ==
    /\ phase = "source" /\ (Source \in done \/ ~Running(Source))
    /\ done' = done \cup {Source}
    /\ awaited' = IF Source \in done THEN awaited ELSE [awaited EXCEPT ![Source] = @ + 1]
    /\ phase' = "join"
    /\ UNCHANGED <<mode, at, accepting, tasks, shutdown, failedSinks, timedOut,
                   nextAbort, exitErr>>

\* Mutant: a sink's result is ignored too.
DrainTaskBlindly(t) ==
    /\ phase = "join" /\ t \notin done /\ ~Running(t)
    /\ done' = done \cup {t}
    /\ awaited' = [awaited EXCEPT ![t] = @ + 1]
    /\ UNCHANGED <<mode, at, accepting, tasks, shutdown, phase, failedSinks, timedOut,
                   nextAbort, exitErr>>

\* One branch of join! ends.  A transformer's result is ignored, a sink's is kept.
DrainTask(t) ==
    /\ phase = "join" /\ t \notin done /\ ~Running(t)
    /\ done' = done \cup {t}
    /\ awaited' = [awaited EXCEPT ![t] = @ + 1]
    /\ failedSinks' = IF t.role = "sink" /\ task[t] = "err" THEN failedSinks \cup {t}
                      ELSE failedSinks
    /\ UNCHANGED <<mode, at, accepting, tasks, shutdown, phase, timedOut,
                   nextAbort, exitErr>>

\* drain_timeout_sec elapses before the join is complete.
DrainTimeout ==
    /\ phase \in {"source", "join"} /\ done # Tasks
    /\ timedOut' = TRUE /\ phase' = "abort"
    /\ exitErr' = (exitErr \/ failedSinks # {})
    /\ UNCHANGED <<mode, at, accepting, tasks, shutdown, done, awaited,
                   failedSinks, nextAbort>>

\* The join is complete.
DrainCompletes ==
    /\ phase = "join" /\ done = Tasks
    /\ phase' = "epilogue"
    /\ exitErr' = (exitErr \/ failedSinks # {})
    /\ UNCHANGED <<mode, at, accepting, tasks, shutdown, done, awaited,
                   failedSinks, timedOut, nextAbort>>

\* Mutant: the flags of what the drain has awaited are not consulted.
AbortRegardless ==
    /\ phase = "abort" /\ nextAbort \in DOMAIN AbortOrder
    /\ LET t == AbortOrder[nextAbort] IN
         /\ awaited' = [awaited EXCEPT ![t] = @ + 1]
         /\ task' = IF Running(t) THEN [task EXCEPT ![t] = "aborted"] ELSE task
         /\ at' = IF Running(t) THEN Dropped(t) ELSE at
    /\ nextAbort' = nextAbort + 1
    /\ UNCHANGED <<mode, accepting, faults, shutdown, phase, done, failedSinks,
                   timedOut, exitErr>>

\* Abort and await the next task unless its flag is set.  abort() of a task that has
\* ended already does nothing.
AbortNext ==
    /\ phase = "abort" /\ nextAbort \in DOMAIN AbortOrder
    /\ LET t == AbortOrder[nextAbort] IN
         IF t \in done THEN UNCHANGED <<task, at, awaited>>
         ELSE /\ awaited' = [awaited EXCEPT ![t] = @ + 1]
              /\ task' = IF Running(t) THEN [task EXCEPT ![t] = "aborted"] ELSE task
              /\ at' = IF Running(t) THEN Dropped(t) ELSE at
    /\ nextAbort' = nextAbort + 1
    /\ UNCHANGED <<mode, accepting, faults, shutdown, phase, done, failedSinks,
                   timedOut, exitErr>>

\* finalize_shutdown_timeout_async, Persist: the flush is queued behind the appends.
FinalizePersist ==
    /\ phase = "abort" /\ nextAbort > Len(AbortOrder) /\ mode.persist
    /\ at' = [s \in Signals |-> Emptied(at[s], {"append"}, "ring")]
    /\ phase' = "epilogue"
    /\ UNCHANGED <<mode, accepting, tasks, shutdown, done, awaited, failedSinks,
                   timedOut, nextAbort, exitErr>>

\* The flush, or the writer's shutdown, fails or takes longer than five seconds.
FinalizeFails ==
    /\ phase = "abort" /\ nextAbort > Len(AbortOrder) /\ mode.persist
    /\ faults < MaxFaults
    /\ faults' = faults + 1
    /\ phase' = "epilogue" /\ exitErr' = TRUE
    /\ UNCHANGED <<mode, at, accepting, task, shutdown, done, awaited, failedSinks,
                   timedOut, nextAbort>>

\* Mutant: the discard is not reported as an error.
DiscardQuietly ==
    /\ phase = "abort" /\ nextAbort > Len(AbortOrder) /\ ~mode.persist
    /\ at' = [s \in Signals |-> Emptied(at[s], {"append", "ring", "leased"}, "discarded")]
    /\ phase' = "epilogue"
    /\ UNCHANGED <<mode, accepting, tasks, shutdown, done, awaited, failedSinks, timedOut,
                   nextAbort, exitErr>>

\* finalize_shutdown_timeout_async, Discard: everything the rings hold is dropped and
\* counted, and the result is an error.
FinalizeDiscard ==
    /\ phase = "abort" /\ nextAbort > Len(AbortOrder) /\ ~mode.persist
    /\ at' = [s \in Signals |-> Emptied(at[s], {"append", "ring", "leased"}, "discarded")]
    /\ phase' = "epilogue" /\ exitErr' = TRUE
    /\ UNCHANGED <<mode, accepting, tasks, shutdown, done, awaited, failedSinks,
                   timedOut, nextAbort>>

\* The SIGHUP and admin tasks are joined, and main returns.
Exit ==
    /\ phase = "epilogue"
    /\ phase' = "exited"
    /\ UNCHANGED <<mode, at, accepting, tasks, shutdown, done, awaited, failedSinks,
                   timedOut, nextAbort, exitErr>>

-----------------------------------------------------------------------------
\* What the supervisor does of itself, the timer apart.
Supervise ==
    \/ \E t \in Tasks : SelectTask(t) \/ DrainTask(t)
    \/ DrainSource \/ DrainCompletes \/ AbortNext
    \/ FinalizePersist \/ FinalizeDiscard \/ Exit

Next ==
    \/ StopAccepting \/ SourceEnds
    \/ \E s \in Signals :
         \/ Request(s) \/ Accept(s) \/ Refuse(s)
         \/ TransformRecv(s) \/ TransformSend(s) \/ AppendFinished(s)
         \/ TransformEnds(s) \/ TransformDownstreamClosed(s)
         \/ SinkLease(s) \/ SinkResolve(s) \/ SinkEnds(s)
    \/ \E t \in Tasks : TaskFails(t)
    \/ Supervise
    \/ SelectSignal \/ DrainTimeout \/ FinalizeFails

\* Tokio runs what is ready, and a sink that holds a lease resolves it.  Nothing is
\* assumed of clients, of SIGTERM, of failures or of the drain timer.
Fairness ==
    /\ WF_vars(Supervise)
    /\ WF_vars(StopAccepting) /\ WF_vars(SourceEnds)
    /\ \A s \in Signals :
         /\ WF_vars(Accept(s)) /\ WF_vars(Refuse(s))
         /\ WF_vars(TransformRecv(s)) /\ WF_vars(TransformSend(s))
         /\ WF_vars(AppendFinished(s)) /\ WF_vars(TransformEnds(s))
         /\ WF_vars(TransformDownstreamClosed(s))
         /\ WF_vars(SinkLease(s)) /\ WF_vars(SinkResolve(s)) /\ WF_vars(SinkEnds(s))

Spec == Init /\ [][Next]_vars /\ Fairness

-----------------------------------------------------------------------------
(* Properties.                                                               *)

\* Every variable has its type.
TypeOK ==
    /\ mode \in Modes
    /\ at \in [Signals -> [Places -> Nat]] /\ accepting \in BOOLEAN
    /\ task \in [Tasks -> {"run", "ok", "err", "aborted"}] /\ faults \in 0..MaxFaults
    /\ shutdown \in BOOLEAN
    /\ phase \in {"select", "source", "join", "abort", "epilogue", "exited"}
    /\ done \subseteq Tasks /\ awaited \in [Tasks -> Nat] /\ failedSinks \subseteq Tasks
    /\ timedOut \in BOOLEAN /\ nextAbort \in 1..(Len(AbortOrder) + 1) /\ exitErr \in BOOLEAN

\* A join handle may be polled to its end only once: whichever of select!, the drain
\* and the abort met it, every handle of main.rs is awaited exactly once before the exit.
HandlesAwaitedOnce ==
    /\ \A t \in Tasks : awaited[t] <= 1
    /\ phase \in {"epilogue", "exited"} => \A t \in Tasks : awaited[t] = 1 /\ ~Running(t)

\* Exit status 0 means that nothing a ring had accepted is lost: it was delivered or
\* quarantined, or it is in the segments for the next start (finalize_shutdown_timeout).
ExitZeroKeepsBuffered ==
    phase = "exited" /\ ~exitErr =>
        \A s \in Signals :
            /\ at[s]["discarded"] + at[s]["append"] + at[s]["leased"] = 0
            /\ at[s]["ring"] > 0 => mode.persist /\ timedOut

\* A drain that ends in time, no task having failed, has delivered every batch whose
\* client was told OK, and has left no request without an answer.
CleanDrainDelivers ==
    (phase = "exited" /\ ~timedOut /\ \A t \in Tasks : task[t] = "ok") =>
        \A s \in Signals, p \in Places \ {"client", "delivered"} : at[s][p] = 0

\* A sink that fails, before a drain that ends in time or during it, is in the exit
\* status of main.
FailuresAreReported ==
    phase = "exited" /\ ~timedOut /\ (\E s \in Signals : task[Sink(s)] = "err") => exitErr

\* The buffers are finalized when nobody uses them any more: once the process goes on to
\* exit with status 0 after a drain timeout, no batch enters or leaves a ring.
FinalizedIsFinal ==
    [][timedOut /\ ~exitErr /\ phase \in {"epilogue", "exited"} =>
         \A s \in Signals : at'[s]["ring"] = at[s]["ring"]]_vars

\* However full the channels and rings are and whichever task dies, the drain of main.rs
\* ends by itself: nobody waits for a task that waits for him.  The timer is not needed.
DrainEnds == shutdown ~> (phase = "exited")

\* docs/ARCHITECTURE.md: transformer and sink tasks "continue until their input channels
\* are drained, ensuring at-least-once delivery for in-flight data".  A drain that ends in
\* time and with exit status 0 has lost no batch whose client was told OK.
AckedSurvivesDrain ==
    phase = "exited" /\ ~exitErr /\ ~timedOut => \A s \in Signals : at[s]["lost"] = 0
=============================================================================
