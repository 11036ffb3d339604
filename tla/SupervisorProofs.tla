-------------------------- MODULE SupervisorProofs --------------------------
(***************************************************************************)
(* Every join handle of main.rs is awaited exactly once, and an exit with  *)
(* status 0 leaves behind what it promises: the failures of the sinks are  *)
(* reported, buffered batches are kept, a drain that ends in time has      *)
(* delivered them.  For any number of signals, any load, any buffer        *)
(* configuration and any number of faults.  And what /readyz is told of a  *)
(* ring: no blocked-since time is left on one that nobody waits for.       *)
(***************************************************************************)
EXTENDS Supervisor, ReadinessGate, SequenceTheorems, HelperTheorems

N == Len(SignalOrder)

\* The tasks the abort loop has passed.
Passed == {AbortOrder[i] : i \in 1..(nextAbort - 1)}

\* The types of the variables the argument is about.
HandleTypes ==
    /\ DOMAIN task = Tasks
    /\ awaited \in [Tasks -> Nat]
    /\ done \subseteq Tasks
    /\ nextAbort \in 1..(Len(AbortOrder) + 1)

\* A handle was awaited once if its flag is set or the abort loop has passed it, and
\* otherwise not at all; an awaited task has ended.
AwaitedExact ==
    \A t \in Tasks :
        /\ awaited[t] = (IF t \in done \union Passed THEN 1 ELSE 0)
        /\ t \in done \union Passed => ~Running(t)

\* select! comes first; the abort loop has not begun before its phase; at the epilogue the join is
\* complete or the loop has passed every task.
PhasesInOrder ==
    /\ phase = "select" => done = {}
    /\ phase \in {"select", "source", "join"} => nextAbort = 1
    /\ phase \in {"epilogue", "exited"} => done = Tasks \/ nextAbort = Len(AbortOrder) + 1

\* The inductive invariant.
IInv == HandleTypes /\ AwaitedExact /\ PhasesInOrder

-----------------------------------------------------------------------------
\* The abort order of main.rs as a list: the source, the transformers, the sinks.
LEMMA AbortOrderShape ==
    /\ N \in Nat /\ DOMAIN SignalOrder = 1..N
    /\ AbortOrder \in Seq(Tasks)
    /\ Len(AbortOrder) = 2 * N + 1
    /\ DOMAIN AbortOrder = 1..(2 * N + 1)
    /\ AbortOrder[1] = Source
    /\ \A i \in 1..N : AbortOrder[1 + i] = Trans(SignalOrder[i])
    /\ \A i \in 1..N : AbortOrder[1 + N + i] = Sink(SignalOrder[i])
<1>1. N \in Nat /\ DOMAIN SignalOrder = 1..N
  BY SupervisorAssumption DEF N
<1>2. \A i \in 1..N : SignalOrder[i] \in Signals
  BY <1>1 DEF Signals, Range
<1> DEFINE T == [i \in 1..N |-> Trans(SignalOrder[i])]
           K == [i \in 1..N |-> Sink(SignalOrder[i])]
<1>3. T \in Seq(Tasks) /\ K \in Seq(Tasks) /\ Len(T) = N /\ Len(K) = N
  BY <1>1, <1>2 DEF Tasks
<1>4. <<Source>> \in Seq(Tasks) /\ Len(<<Source>>) = 1 /\ <<Source>>[1] = Source
  BY DEF Tasks
<1>5. AbortOrder = (<<Source>> \o T) \o K
  BY <1>1 DEF AbortOrder
<1> HIDE DEF T, K
<1> DEFINE A == <<Source>> \o T
<1>6. A \in Seq(Tasks) /\ Len(A) = N + 1 /\ A[1] = Source
      /\ \A i \in 1..N : A[1 + i] = T[i]
  BY <1>1, <1>3, <1>4
<1> HIDE DEF A
<1>7. A \o K \in Seq(Tasks) /\ Len(A \o K) = 2 * N + 1
      /\ (\A i \in 1..(N + 1) : (A \o K)[i] = A[i])
      /\ \A i \in 1..N : (A \o K)[1 + N + i] = K[i]
  <2>1. /\ A \o K \in Seq(Tasks)
        /\ Len(A \o K) = Len(A) + Len(K)
        /\ \A i \in 1..(Len(A) + Len(K)) : (A \o K)[i] =
              IF i <= Len(A) THEN A[i] ELSE K[i - Len(A)]
    BY <1>3, <1>6, ConcatProperties
  <2>2. Len(A) = N + 1 /\ Len(K) = N
    BY <1>3, <1>6
  <2>3. \A i \in 1..(N + 1) : i \in 1..(Len(A) + Len(K)) /\ i <= Len(A)
    BY <1>1, <2>2
  <2>4. Len(A \o K) = 2 * N + 1
    BY <1>1, <2>1, <2>2
  <2>5. ASSUME NEW i \in 1..(N + 1) PROVE (A \o K)[i] = A[i]
    <3>1. i \in 1..(Len(A) + Len(K)) /\ i <= Len(A)
      BY <2>3
    <3> QED BY <2>1, <3>1
  <2>6. ASSUME NEW i \in 1..N PROVE (A \o K)[1 + N + i] = K[i]
    <3>1. PICK j : j = 1 + N + i
      OBVIOUS
    <3>2. j \in 1..(Len(A) + Len(K)) /\ ~(j <= Len(A)) /\ j - Len(A) = i
      BY <1>1, <2>2, <3>1
    <3>3. PICK C, n, m : C = A \o K /\ n = Len(A) /\ m = Len(K)
      OBVIOUS
    <3>4. /\ \A k \in 1..(n + m) : C[k] = IF k <= n THEN A[k] ELSE K[k - n]
          /\ j \in 1..(n + m) /\ ~(j <= n) /\ j - n = i
      BY <2>1, <3>2, <3>3
    <3>5. C[j] = K[i]
      BY <3>4
    <3> QED BY <3>1, <3>3, <3>5
  <2> QED BY <2>1, <2>4, <2>5, <2>6
<1>8. AbortOrder = A \o K
  BY <1>5 DEF A
<1>9. (\A i \in 1..N : T[i] = Trans(SignalOrder[i])) /\ \A i \in 1..N : K[i] = Sink(SignalOrder[i])
  BY DEF T, K
<1>10. DOMAIN AbortOrder = 1..(2 * N + 1)
  BY <1>1, <1>7, <1>8
<1>11. \A i \in 1..N : 1 + i \in 1..(N + 1)
  BY <1>1
<1>12. 1 \in 1..(N + 1)
  BY <1>1
<1> QED
  BY <1>1, <1>6, <1>7, <1>8, <1>9, <1>10, <1>11, <1>12

\* Every task is aborted exactly once: the abort order has no duplicates and misses none.
LEMMA AbortOrderIsOnce ==
    /\ \A i, j \in 1..Len(AbortOrder) : AbortOrder[i] = AbortOrder[j] => i = j
    /\ Tasks = {AbortOrder[i] : i \in 1..Len(AbortOrder)}
<1> USE AbortOrderShape
<1>1. \A i, j \in 1..N : SignalOrder[i] = SignalOrder[j] => i = j
  BY SupervisorAssumption DEF IsInjective
<1>2. \A i \in 1..Len(AbortOrder) :
        \/ i = 1
        \/ \E k \in 1..N : i = 1 + k
        \/ \E k \in 1..N : i = 1 + N + k
  <2> TAKE i \in 1..Len(AbortOrder)
  <2>1. CASE i = 1 BY <2>1
  <2>2. CASE i \in 2..(N + 1)
    <3>1. i - 1 \in 1..N /\ i = 1 + (i - 1) BY <2>2
    <3> QED BY <3>1
  <2>3. CASE i \in (N + 2)..(2 * N + 1)
    <3>1. i - 1 - N \in 1..N /\ i = 1 + N + (i - 1 - N) BY <2>3
    <3> QED BY <3>1
  <2> QED BY <2>1, <2>2, <2>3
<1>3. \A a, b : Trans(a) = Trans(b) => a = b
  BY DEF Trans
<1>4. \A a, b : Sink(a) = Sink(b) => a = b
  BY DEF Sink
<1>5. \A a, b : Trans(a) # Sink(b) /\ Source # Trans(a) /\ Source # Sink(a)
  BY DEF Trans, Sink, Source
<1>6. ASSUME NEW i \in 1..Len(AbortOrder), NEW j \in 1..Len(AbortOrder),
             AbortOrder[i] = AbortOrder[j]
      PROVE  i = j
  <2>1. CASE i = 1
    <3>1. ASSUME NEW k \in 1..N, j = 1 + k \/ j = 1 + N + k PROVE FALSE
      <4>1. AbortOrder[j] = Trans(SignalOrder[k]) \/ AbortOrder[j] = Sink(SignalOrder[k])
        BY <3>1
      <4>2. AbortOrder[j] = Source
        BY <1>6, <2>1
      <4> QED BY <1>5, <4>1, <4>2
    <3> QED BY <1>2, <2>1, <3>1
  <2>2. ASSUME NEW k \in 1..N, i = 1 + k PROVE i = j
    <3>1. AbortOrder[j] = Trans(SignalOrder[k])
      BY <1>6, <2>2
    <3>2. j # 1
      BY <1>5, <3>1
    <3>3. ASSUME NEW m \in 1..N, j = 1 + m PROVE i = j
      <4>1. Trans(SignalOrder[m]) = Trans(SignalOrder[k])
        BY <3>1, <3>3
      <4>2. SignalOrder[m] = SignalOrder[k]
        BY ONLY <1>3, <4>1
      <4> QED BY <1>1, <2>2, <3>3, <4>2
    <3>4. ASSUME NEW m \in 1..N, j = 1 + N + m PROVE FALSE
      BY <1>5, <3>1, <3>4
    <3> QED BY <1>2, <3>2, <3>3, <3>4
  <2>3. ASSUME NEW k \in 1..N, i = 1 + N + k PROVE i = j
    <3>1. AbortOrder[j] = Sink(SignalOrder[k])
      BY <1>6, <2>3
    <3>2. j # 1
      BY <1>5, <3>1
    <3>3. ASSUME NEW m \in 1..N, j = 1 + m PROVE FALSE
      BY <1>5, <3>1, <3>3, ZenonT(60)
    <3>4. ASSUME NEW m \in 1..N, j = 1 + N + m PROVE i = j
      <4>1. Sink(SignalOrder[m]) = Sink(SignalOrder[k])
        BY <3>1, <3>4
      <4>2. SignalOrder[m] = SignalOrder[k]
        BY ONLY <1>4, <4>1
      <4> QED BY <1>1, <2>3, <3>4, <4>2
    <3> QED BY <1>2, <3>2, <3>3, <3>4
  <2> QED BY <1>2, <2>1, <2>2, <2>3
<1>7. ASSUME NEW t \in Tasks PROVE \E i \in 1..Len(AbortOrder) : AbortOrder[i] = t
  <2>1. CASE t = Source
    BY <2>1
  <2>2. ASSUME NEW s \in Signals, t = Trans(s) \/ t = Sink(s)
        PROVE  \E i \in 1..Len(AbortOrder) : AbortOrder[i] = t
    <3>1. PICK k \in 1..N : SignalOrder[k] = s
      BY DEF Signals, Range
    <3>2. 1 + k \in 1..Len(AbortOrder) /\ 1 + N + k \in 1..Len(AbortOrder)
      OBVIOUS
    <3> QED BY <2>2, <3>1, <3>2
  <2> QED BY <2>1, <2>2 DEF Tasks
<1>8. \A i \in 1..Len(AbortOrder) : AbortOrder[i] \in Tasks
  OBVIOUS
<1> QED BY <1>6, <1>7, <1>8

-----------------------------------------------------------------------------
\* What the abort loop has passed, when it has not begun and after one more task.
LEMMA PassedSteps ==
    /\ nextAbort = 1 => Passed = {}
    /\ nextAbort' = nextAbort => Passed' = Passed
    /\ nextAbort \in DOMAIN AbortOrder /\ nextAbort' = nextAbort + 1 =>
          /\ Passed' = Passed \union {AbortOrder[nextAbort]}
          /\ AbortOrder[nextAbort] \notin Passed
    /\ nextAbort = Len(AbortOrder) + 1 => Passed = Tasks
<1> USE AbortOrderShape, AbortOrderIsOnce
<1>1. nextAbort = 1 => Passed = {}
  BY DEF Passed
<1>2. nextAbort' = nextAbort => Passed' = Passed
  BY DEF Passed
<1>3. ASSUME nextAbort \in DOMAIN AbortOrder, nextAbort' = nextAbort + 1
      PROVE  /\ Passed' = Passed \union {AbortOrder[nextAbort]}
             /\ AbortOrder[nextAbort] \notin Passed
  <2>1. 1..(nextAbort' - 1) = 1..(nextAbort - 1) \union {nextAbort}
    BY <1>3, SMTT(60)
  <2>2. Passed' = {AbortOrder[i] : i \in 1..(nextAbort' - 1)}
    BY DEF Passed
  <2>3. \A i \in 1..(nextAbort - 1) : i \in 1..Len(AbortOrder) /\ i # nextAbort
    BY <1>3
  <2> QED BY <1>3, <2>1, <2>2, <2>3 DEF Passed
<1>4. nextAbort = Len(AbortOrder) + 1 => Passed = Tasks
  BY DEF Passed
<1> QED BY <1>1, <1>2, <1>3, <1>4

\* A task that ends by itself disturbs no flag.
LEMMA TaskEnds ==
    ASSUME IInv, NEW t \in Tasks, NEW x, x # "run",
           task' = [task EXCEPT ![t] = x], UNCHANGED sup
    PROVE  IInv'
<1>1. Passed' = Passed
  BY PassedSteps DEF sup
<1> QED BY <1>1 DEF IInv, HandleTypes, AwaitedExact, PhasesInOrder, Running, sup

\* Steps that neither end a task nor are the supervisor's.
LEMMA OthersKeep ==
    ASSUME IInv, UNCHANGED <<task, sup>>
    PROVE  IInv'
<1>1. Passed' = Passed
  BY PassedSteps DEF sup
<1> QED BY <1>1 DEF IInv, HandleTypes, AwaitedExact, PhasesInOrder, Running, sup

\* The handlers, the transformers and the sinks.
LEMMA PipelineKeeps ==
    ASSUME IInv, NEW s \in Signals,
           \/ Request(s) \/ Accept(s) \/ Refuse(s)
           \/ TransformRecv(s) \/ TransformSend(s) \/ AppendFinished(s)
           \/ TransformEnds(s) \/ TransformDownstreamClosed(s)
           \/ SinkLease(s) \/ SinkResolve(s) \/ SinkEnds(s)
    PROVE  IInv'
<1>1. Trans(s) \in Tasks /\ Sink(s) \in Tasks
  BY DEF Tasks
<1>2. CASE Request(s) \/ Accept(s) \/ Refuse(s) \/ TransformRecv(s)
           \/ TransformSend(s) \/ AppendFinished(s) \/ SinkLease(s) \/ SinkResolve(s)
  <2>1. UNCHANGED <<task, sup>>
    BY <1>2 DEF Request, Accept, Refuse, TransformRecv, TransformSend,
                AppendFinished, SinkLease, SinkResolve, tasks
  <2> QED BY <2>1, OthersKeep
<1>4. CASE TransformEnds(s)
  <2>1. task' = [task EXCEPT ![Trans(s)] = "ok"] /\ UNCHANGED sup
    BY <1>4 DEF TransformEnds
  <2> QED BY <1>1, <2>1, TaskEnds
<1>5. CASE TransformDownstreamClosed(s)
  <2>1. task' = [task EXCEPT ![Trans(s)] = "err"] /\ UNCHANGED sup
    BY <1>5 DEF TransformDownstreamClosed
  <2> QED BY <1>1, <2>1, TaskEnds
<1>6. CASE SinkEnds(s)
  <2>1. task' = [task EXCEPT ![Sink(s)] = "ok"] /\ UNCHANGED sup
    BY <1>6 DEF SinkEnds
  <2> QED BY <1>1, <2>1, TaskEnds
<1> QED BY <1>2, <1>4, <1>5, <1>6

\* The supervisor takes the result of a task that has ended and sets its flag.
LEMMA FlagIsSet ==
    ASSUME IInv, NEW t \in Tasks, t \notin done, ~Running(t), nextAbort = 1,
           done' = done \union {t},
           awaited' = [awaited EXCEPT ![t] = @ + 1],
           phase' \in {"source", "join"},
           UNCHANGED <<task, nextAbort>>
    PROVE  IInv'
<1>1. Passed = {} /\ Passed' = {}
  BY PassedSteps
<1>2. HandleTypes'
  BY DEF IInv, HandleTypes
<1>3. AwaitedExact'
  <2> SUFFICES ASSUME NEW u \in Tasks
               PROVE  /\ awaited'[u] = (IF u \in done' THEN 1 ELSE 0)
                      /\ u \in done' => ~(task'[u] = "run")
    BY <1>1 DEF AwaitedExact, Running
  <2>1. awaited[u] = (IF u \in done THEN 1 ELSE 0) /\ (u \in done => ~Running(u))
    BY <1>1 DEF IInv, AwaitedExact
  <2>2. awaited'[u] = (IF u = t THEN awaited[u] + 1 ELSE awaited[u])
    BY DEF IInv, HandleTypes
  <2> QED BY <2>1, <2>2 DEF Running
<1>4. PhasesInOrder'
  BY DEF PhasesInOrder
<1> QED BY <1>2, <1>3, <1>4 DEF IInv

\* The supervisor goes on to another phase and touches no handle.
LEMMA PhaseChanges ==
    ASSUME IInv, UNCHANGED <<task, done, awaited, nextAbort>>,
           PhasesInOrder'
    PROVE  IInv'
<1>1. Passed' = Passed
  BY PassedSteps
<1> QED BY <1>1 DEF IInv, HandleTypes, AwaitedExact, Running

\* One round of the abort loop.
LEMMA AbortKeeps ==
    ASSUME IInv, AbortNext
    PROVE  IInv'
<1> DEFINE t == AbortOrder[nextAbort]
<1>1. t \in Tasks /\ nextAbort' = nextAbort + 1 /\ phase' = phase /\ done' = done
      /\ nextAbort \in DOMAIN AbortOrder /\ phase = "abort"
  BY AbortOrderShape DEF AbortNext
<1>2. Passed' = Passed \union {t} /\ t \notin Passed
  BY <1>1, PassedSteps
<1>3. DOMAIN task' = Tasks /\ ~(task'[t] = "run") /\ \A u \in Tasks \ {t} : task'[u] = task[u]
  <2>1. CASE t \in done
    BY <1>1, <2>1 DEF AbortNext, IInv, HandleTypes, AwaitedExact, Running
  <2>2. CASE t \notin done
    BY <1>1, <2>2 DEF AbortNext, IInv, HandleTypes, Running
  <2> QED BY <2>1, <2>2
<1>4. awaited' \in [Tasks -> Nat] /\ awaited'[t] = 1
      /\ \A u \in Tasks \ {t} : awaited'[u] = awaited[u]
  <2>0. awaited[t] = (IF t \in done THEN 1 ELSE 0)
    BY <1>1, <1>2 DEF IInv, AwaitedExact
  <2>1. CASE t \in done
    BY <1>1, <2>0, <2>1 DEF AbortNext, IInv, HandleTypes
  <2>2. CASE t \notin done
    BY <1>1, <2>0, <2>2 DEF AbortNext, IInv, HandleTypes
  <2> QED BY <2>1, <2>2
<1> HIDE DEF t
<1>5. HandleTypes'
  BY <1>1, <1>3, <1>4, AbortOrderShape, SMTT(60) DEF IInv, HandleTypes
<1>6. AwaitedExact'
  BY <1>1, <1>2, <1>3, <1>4 DEF IInv, AwaitedExact, Running
<1>7. PhasesInOrder'
  BY <1>1 DEF PhasesInOrder
<1> QED BY <1>5, <1>6, <1>7 DEF IInv

\* The supervisor's own steps.
LEMMA SupervisorKeeps ==
    ASSUME IInv,
           \/ Supervise \/ SelectSignal \/ DrainTimeout \/ FinalizeFails
    PROVE  IInv'
<1>1. ASSUME NEW t \in Tasks, SelectTask(t) PROVE IInv'
  <2>1. t \notin done /\ nextAbort = 1
    BY <1>1 DEF SelectTask, IInv, PhasesInOrder
  <2>2. /\ ~Running(t) /\ done' = done \union {t} /\ phase' \in {"source", "join"}
        /\ awaited' = [awaited EXCEPT ![t] = @ + 1]
        /\ UNCHANGED <<task, nextAbort>>
    BY <1>1 DEF SelectTask, tasks
  <2> QED BY <2>1, <2>2, FlagIsSet
<1>2. ASSUME NEW t \in Tasks, DrainTask(t) PROVE IInv'
  <2>1. nextAbort = 1
    BY <1>2 DEF DrainTask, IInv, PhasesInOrder
  <2>2. /\ t \notin done /\ ~Running(t) /\ done' = done \union {t}
        /\ phase' \in {"source", "join"}
        /\ awaited' = [awaited EXCEPT ![t] = @ + 1]
        /\ UNCHANGED <<task, nextAbort>>
    BY <1>2 DEF DrainTask, tasks
  <2> QED BY <2>1, <2>2, FlagIsSet
<1>3. CASE DrainSource
  <2>1. nextAbort = 1 /\ Source \in Tasks
    BY <1>3 DEF DrainSource, IInv, PhasesInOrder, Tasks
  <2>2. CASE Source \in done
    <3>1. UNCHANGED <<task, done, awaited, nextAbort>> /\ phase' = "join"
      BY <1>3, <2>2 DEF DrainSource, tasks
    <3>2. PhasesInOrder'
      BY <2>1, <3>1 DEF PhasesInOrder
    <3> QED BY <3>1, <3>2, PhaseChanges
  <2>3. CASE Source \notin done
    <3>1. /\ ~Running(Source) /\ done' = done \union {Source} /\ phase' \in {"source", "join"}
          /\ awaited' = [awaited EXCEPT ![Source] = @ + 1]
          /\ UNCHANGED <<task, nextAbort>>
      BY <1>3, <2>3 DEF DrainSource, tasks
    <3> QED BY <2>1, <2>3, <3>1, FlagIsSet
  <2> QED BY <2>2, <2>3
<1>4. CASE SelectSignal \/ DrainTimeout \/ DrainCompletes
  <2>1. UNCHANGED <<task, done, awaited, nextAbort>>
    BY <1>4 DEF SelectSignal, DrainTimeout, DrainCompletes, tasks
  <2>2. PhasesInOrder'
    BY <1>4, <2>1 DEF SelectSignal, DrainTimeout, DrainCompletes, IInv, PhasesInOrder
  <2> QED BY <2>1, <2>2, PhaseChanges
<1>5. CASE AbortNext
  BY <1>5, AbortKeeps
<1>6. CASE FinalizePersist \/ FinalizeFails \/ FinalizeDiscard \/ Exit
  <2>1. UNCHANGED <<task, done, awaited, nextAbort>>
    BY <1>6 DEF FinalizePersist, FinalizeFails, FinalizeDiscard, Exit, tasks
  <2>2. nextAbort > Len(AbortOrder) => nextAbort = Len(AbortOrder) + 1
    BY AbortOrderShape DEF IInv, HandleTypes
  <2>3. PhasesInOrder'
    BY <1>6, <2>1, <2>2 DEF FinalizePersist, FinalizeFails, FinalizeDiscard, Exit, IInv,
                           PhasesInOrder
  <2> QED BY <2>1, <2>3, PhaseChanges
<1> QED BY <1>1, <1>2, <1>3, <1>4, <1>5, <1>6 DEF Supervise

-----------------------------------------------------------------------------
\* IInv holds in every behaviour of the process: the flags of main.rs and its abort loop
\* say exactly which handles were awaited.
THEOREM HandleInvariant == Spec => []IInv
<1>1. Init => IInv
  <2> SUFFICES ASSUME Init PROVE IInv
    OBVIOUS
  <2>1. nextAbort = 1 /\ Passed = {}
    BY PassedSteps DEF Init
  <2> QED BY <2>1, AbortOrderShape
          DEF Init, IInv, HandleTypes, AwaitedExact, PhasesInOrder
<1>2. IInv /\ [Next]_vars => IInv'
  <2> SUFFICES ASSUME IInv, [Next]_vars PROVE IInv'
    OBVIOUS
  <2>1. CASE StopAccepting \/ SourceEnds
    <3>1. CASE StopAccepting
      BY <3>1, OthersKeep DEF StopAccepting, tasks
    <3>2. CASE SourceEnds
      <4>1. task' = [task EXCEPT ![Source] = "ok"] /\ UNCHANGED sup /\ Source \in Tasks
        BY <3>2 DEF SourceEnds, Tasks
      <4> QED BY <4>1, TaskEnds
    <3> QED BY <2>1, <3>1, <3>2
  <2>2. ASSUME NEW s \in Signals,
               \/ Request(s) \/ Accept(s) \/ Refuse(s)
               \/ TransformRecv(s) \/ TransformSend(s) \/ AppendFinished(s)
               \/ TransformEnds(s) \/ TransformDownstreamClosed(s)
               \/ SinkLease(s) \/ SinkResolve(s) \/ SinkEnds(s)
        PROVE  IInv'
    BY <2>2, PipelineKeeps
  <2>3. ASSUME NEW t \in Tasks, TaskFails(t) PROVE IInv'
    <3>1. task' = [task EXCEPT ![t] = "err"] /\ UNCHANGED sup
      BY <2>3 DEF TaskFails
    <3> QED BY <3>1, TaskEnds
  <2>4. CASE Supervise \/ SelectSignal \/ DrainTimeout \/ FinalizeFails
    BY <2>4, SupervisorKeeps
  <2>5. CASE UNCHANGED vars
    BY <2>5, OthersKeep DEF vars, tasks
  <2> QED BY <2>1, <2>2, <2>3, <2>4, <2>5 DEF Next
<1> QED BY <1>1, <1>2, PTL DEF Spec

\* For any number of signals, every join handle of main.rs is awaited at most once, and
\* before the process exits, or finalized buffers are left behind, every task has ended
\* and its handle was awaited.
THEOREM HandlesAreAwaitedOnce == Spec => []HandlesAwaitedOnce
<1>1. IInv => HandlesAwaitedOnce
  <2> SUFFICES ASSUME IInv PROVE HandlesAwaitedOnce
    OBVIOUS
  <2>1. \A t \in Tasks : awaited[t] <= 1
    BY DEF IInv, AwaitedExact
  <2>2. ASSUME phase \in {"epilogue", "exited"}, NEW t \in Tasks
        PROVE  awaited[t] = 1 /\ ~Running(t)
    <3>1. t \in done \union Passed
      BY <2>2, PassedSteps DEF IInv, PhasesInOrder
    <3> QED BY <3>1 DEF IInv, AwaitedExact
  <2> QED BY <2>1, <2>2 DEF HandlesAwaitedOnce
<1> QED BY <1>1, HandleInvariant, PTL

-----------------------------------------------------------------------------
(* What the rings hold is final once the buffers are finalized.              *)

\* The counts are functions of signal and place.
Shape == at = [s \in Signals |-> [p \in Places |-> at[s][p]]]

\* Persisted: after a drain timeout and a finalization without error no append is left.
NoAppendLeft ==
    timedOut /\ ~exitErr /\ phase \in {"epilogue", "exited"} =>
        \A s \in Signals : at[s]["append"] = 0

\* The timer has not fired before the abort.
TimerInOrder == phase \in {"select", "source", "join"} => ~timedOut

FInv == Shape /\ NoAppendLeft /\ TimerInOrder

\* Moving one batch touches two counts.
LEMMA MoveChanges ==
    ASSUME Shape, NEW s \in Signals, NEW from \in Places, NEW to \in Places, from # to,
           Move(s, from, to)
    PROVE  /\ Shape'
           /\ at[s][from] > 0
           /\ \A r \in Signals, p \in Places :
                 r # s \/ (p # from /\ p # to) => at'[r][p] = at[r][p]
BY DEF Move, Shape

\* The pipeline once every task has ended and no append is left: only requests come in
\* and are refused.
LEMMA QuietPipeline ==
    ASSUME Shape, NEW s \in Signals, \A t \in Tasks : ~Running(t),
           \/ Request(s) \/ Accept(s) \/ Refuse(s)
           \/ TransformRecv(s) \/ TransformSend(s) \/ AppendFinished(s)
           \/ TransformEnds(s) \/ TransformDownstreamClosed(s)
           \/ SinkLease(s) \/ SinkResolve(s) \/ SinkEnds(s),
           \A r \in Signals : at[r]["append"] = 0
    PROVE  \A r \in Signals : at'[r]["append"] = 0 /\ at'[r]["ring"] = at[r]["ring"]
<1>1. ~Running(Trans(s)) /\ ~Running(Sink(s))
  BY DEF Tasks
<1>2. CASE Request(s)
  <2>1. Move(s, "client", "handler") BY <1>2, SMTT(60) DEF Request
  <2> QED BY <2>1, MoveChanges, SMTT(60) DEF Places
<1>3. CASE Refuse(s)
  <2>1. Move(s, "handler", "refused") BY <1>3 DEF Refuse
  <2> QED BY <2>1, MoveChanges DEF Places
<1>4. ~AppendFinished(s)
  BY DEF AppendFinished, Move
<1>5. ~Accept(s) /\ ~TransformRecv(s) /\ ~TransformSend(s) /\ ~TransformEnds(s)
      /\ ~TransformDownstreamClosed(s) /\ ~SinkLease(s) /\ ~SinkResolve(s) /\ ~SinkEnds(s)
  BY <1>1 DEF Accept, TransformRecv, TransformSend, TransformEnds,
              TransformDownstreamClosed, SinkLease, SinkResolve, SinkEnds
<1> QED BY <1>2, <1>3, <1>4, <1>5

\* No step of the process spoils the shape of the counts.
LEMMA ShapeKept ==
    ASSUME Shape, [Next]_vars
    PROVE  Shape'
<1>1. ASSUME NEW s \in Signals,
             \/ Request(s) \/ Accept(s) \/ Refuse(s) \/ TransformRecv(s) \/ TransformSend(s)
             \/ AppendFinished(s) \/ SinkLease(s) \/ SinkResolve(s)
      PROVE  Shape'
  <2>1. PICK from \in Places, to \in Places : from # to /\ Move(s, from, to)
    BY <1>1, SMTT(60) DEF Request, Accept, Refuse, TransformRecv, TransformSend, AppendFinished,
                SinkLease, SinkResolve, Places
  <2> QED BY <2>1, MoveChanges
<1>2. \A t : at' = Dropped(t) => Shape'
  BY ZenonT(60) DEF Dropped, Emptied, Shape
<1>3. ASSUME NEW from, NEW to, at' = [s \in Signals |-> Emptied(at[s], from, to)]
      PROVE  Shape'
  BY <1>3 DEF Emptied, Shape
<1>4. at' = at => Shape'
  BY DEF Shape
<1>5. CASE StopAccepting \/ SourceEnds \/ UNCHANGED vars
  BY <1>4, <1>5 DEF StopAccepting, SourceEnds, vars
<1>6. ASSUME NEW s \in Signals, TransformEnds(s) \/ TransformDownstreamClosed(s) \/ SinkEnds(s)
      PROVE  Shape'
  BY <1>2, <1>4, <1>6 DEF TransformEnds, TransformDownstreamClosed, SinkEnds
<1>7. ASSUME NEW t \in Tasks, TaskFails(t) \/ SelectTask(t) \/ DrainTask(t)
      PROVE  Shape'
  BY <1>2, <1>4, <1>7 DEF TaskFails, SelectTask, DrainTask
<1>8. CASE DrainSource \/ DrainCompletes \/ Exit \/ SelectSignal \/ DrainTimeout \/ FinalizeFails
  BY <1>4, <1>8 DEF DrainSource, DrainCompletes, Exit, SelectSignal, DrainTimeout, FinalizeFails
<1>9. CASE AbortNext
  BY <1>2, <1>4, <1>9 DEF AbortNext
<1>10. CASE FinalizePersist \/ FinalizeDiscard
  BY <1>3, <1>10 DEF FinalizePersist, FinalizeDiscard
<1> QED BY <1>1, <1>5, <1>6, <1>7, <1>8, <1>9, <1>10 DEF Next, Supervise

\* Once the process goes on to exit 0 after a drain timeout, its rings do not change.
LEMMA FinalStep ==
    ASSUME HandlesAwaitedOnce, FInv, [Next]_vars,
           timedOut, ~exitErr, phase \in {"epilogue", "exited"}
    PROVE  \A r \in Signals : at'[r]["append"] = 0 /\ at'[r]["ring"] = at[r]["ring"]
<1>1. \A t \in Tasks : ~Running(t)
  BY DEF HandlesAwaitedOnce
<1>2. \A r \in Signals : at[r]["append"] = 0
  BY DEF FInv, NoAppendLeft
<1>3. CASE at' = at
  BY <1>2, <1>3
<1>4. ASSUME NEW s \in Signals,
             \/ Request(s) \/ Accept(s) \/ Refuse(s)
             \/ TransformRecv(s) \/ TransformSend(s) \/ AppendFinished(s)
             \/ TransformEnds(s) \/ TransformDownstreamClosed(s)
             \/ SinkLease(s) \/ SinkResolve(s) \/ SinkEnds(s)
      PROVE  \A r \in Signals : at'[r]["append"] = 0 /\ at'[r]["ring"] = at[r]["ring"]
  BY <1>1, <1>2, <1>4, QuietPipeline DEF FInv
<1>5. \A t \in Tasks : ~TaskFails(t) /\ ~SelectTask(t) /\ ~DrainTask(t)
  BY <1>1 DEF TaskFails, SelectTask, DrainTask
<1>6. ~DrainSource /\ ~DrainCompletes /\ ~SelectSignal /\ ~DrainTimeout /\ ~AbortNext
      /\ ~FinalizePersist /\ ~FinalizeFails /\ ~FinalizeDiscard
  BY DEF DrainSource, DrainCompletes, SelectSignal, DrainTimeout, AbortNext,
         FinalizePersist, FinalizeFails, FinalizeDiscard
<1>7. CASE StopAccepting \/ SourceEnds \/ Exit \/ UNCHANGED vars
  BY <1>3, <1>7 DEF StopAccepting, SourceEnds, Exit, vars
<1> QED BY <1>4, <1>5, <1>6, <1>7 DEF Next, Supervise

\* The finalization itself leaves no append, and nothing else reaches the epilogue after
\* a drain timeout without an error.
LEMMA FInvKept ==
    ASSUME HandlesAwaitedOnce, FInv, [Next]_vars
    PROVE  FInv'
<1>1. Shape'
  BY ShapeKept DEF FInv
<1>2. TimerInOrder'
  <2>1. CASE UNCHANGED <<phase, timedOut>>
    BY <2>1 DEF FInv, TimerInOrder
  <2>2. CASE phase = "select" /\ phase' = "source" /\ timedOut' = timedOut
    BY <2>2 DEF FInv, TimerInOrder
  <2>3. CASE phase = "source" /\ phase' = "join" /\ timedOut' = timedOut
    BY <2>3 DEF FInv, TimerInOrder
  <2>4. CASE phase' \in {"abort", "epilogue", "exited"}
    BY <2>4 DEF TimerInOrder
  <2>5. \/ UNCHANGED <<phase, timedOut>>
        \/ phase = "select" /\ phase' = "source" /\ timedOut' = timedOut
        \/ phase = "source" /\ phase' = "join" /\ timedOut' = timedOut
        \/ phase' \in {"abort", "epilogue", "exited"}
    BY DEF Next, Supervise, vars, sup, Request, Accept, Refuse, StopAccepting, SourceEnds,
           TransformRecv, TransformSend, AppendFinished, TransformEnds,
           TransformDownstreamClosed, SinkLease, SinkResolve, SinkEnds, TaskFails,
           SelectTask, DrainTask, DrainSource, DrainCompletes, AbortNext, FinalizePersist,
           FinalizeDiscard, Exit, SelectSignal, DrainTimeout, FinalizeFails
  <2> QED BY <2>1, <2>2, <2>3, <2>4, <2>5
<1>3. NoAppendLeft'
  <2> SUFFICES ASSUME timedOut', ~exitErr', phase' \in {"epilogue", "exited"}
               PROVE  \A r \in Signals : at'[r]["append"] = 0
    BY DEF NoAppendLeft
  <2>1. CASE FinalizePersist
    <3>1. at' = [s \in Signals |-> Emptied(at[s], {"append"}, "ring")]
      BY <2>1 DEF FinalizePersist
    <3> QED BY <3>1 DEF Emptied, Places
  <2>2. CASE phase \in {"epilogue", "exited"} /\ UNCHANGED <<timedOut, exitErr>>
    BY <2>2, FinalStep
  <2>3. FinalizePersist \/ (phase \in {"epilogue", "exited"} /\ UNCHANGED <<timedOut, exitErr>>)
    <3>1. CASE UNCHANGED sup
      BY <3>1 DEF sup
    <3>2. CASE Exit
      BY <3>2 DEF Exit
    <3>3. ~DrainCompletes
      BY DEF DrainCompletes, FInv, TimerInOrder
    <3>4. (\A t \in Tasks : ~SelectTask(t) /\ ~DrainTask(t)) /\ ~DrainSource /\ ~AbortNext
          /\ ~FinalizeDiscard /\ ~SelectSignal /\ ~DrainTimeout /\ ~FinalizeFails
      BY DEF SelectTask, DrainTask, DrainSource, AbortNext, FinalizeDiscard, SelectSignal,
             DrainTimeout, FinalizeFails
    <3>5. UNCHANGED sup \/ Exit \/ FinalizePersist
      BY <3>3, <3>4 DEF Next, Supervise, vars, Request, Accept, Refuse, StopAccepting,
           SourceEnds, TransformRecv, TransformSend, AppendFinished, TransformEnds,
           TransformDownstreamClosed, SinkLease, SinkResolve, SinkEnds, TaskFails
    <3> QED BY <3>1, <3>2, <3>5
  <2> QED BY <2>1, <2>2, <2>3
<1> QED BY <1>1, <1>2, <1>3 DEF FInv

\* The timer fires at most once and no append is left behind, in every behaviour.
THEOREM FinalInvariant == Spec => []FInv
<1>1. Init => FInv
  BY DEF Init, FInv, Shape, NoAppendLeft, TimerInOrder
<1>2. HandlesAwaitedOnce /\ FInv /\ [Next]_vars => FInv'
  BY FInvKept
<1> QED BY <1>1, <1>2, HandlesAreAwaitedOnce, PTL DEF Spec

\* Once main.rs has finalized the buffers after a drain timeout and goes on to exit with
\* status 0, nothing enters or leaves a ring, for any number of signals and any load.
THEOREM RingsAreFinal == Spec => FinalizedIsFinal
<1>1. HandlesAwaitedOnce /\ FInv /\ [Next]_vars =>
        [timedOut /\ ~exitErr /\ phase \in {"epilogue", "exited"} =>
           \A s \in Signals : at'[s]["ring"] = at[s]["ring"]]_vars
  BY FinalStep
<1> QED BY <1>1, FinalInvariant, HandlesAreAwaitedOnce, PTL DEF Spec, FinalizedIsFinal

-----------------------------------------------------------------------------
(* Where the batches are when the drain is over.                            *)

\* The counts are natural numbers.
Counts == at \in [Signals -> [Places -> Nat]]

\* Only a drain timeout leads to the abort and to the discarding of batches, and a
\* finalization without error persists them.
TimeoutOnly ==
    /\ phase = "abort" => timedOut
    /\ \A t \in Tasks : task[t] = "aborted" => timedOut
    /\ phase \in {"epilogue", "exited"} /\ ~timedOut => done = Tasks
    /\ \A s \in Signals : at[s]["discarded"] # 0 => timedOut /\ exitErr
    /\ phase \in {"epilogue", "exited"} /\ timedOut /\ ~exitErr => mode.persist

\* The result of a sink that was awaited is kept until it is the exit status.
ResultsKept ==
    /\ \A s \in Signals :
          Sink(s) \in done /\ task[Sink(s)] = "err" => exitErr \/ Sink(s) \in failedSinks
    /\ phase \in {"abort", "epilogue", "exited"} /\ failedSinks # {} => exitErr

\* A transformer that ended well has left its channel empty and closed.
TransformerDrained ==
    \A s \in Signals :
        /\ task[Trans(s)] \in {"run", "ok"} => at[s]["refused"] = 0 /\ at[s]["lost"] = 0
        /\ task[Trans(s)] = "ok" =>
              /\ ~accepting /\ NoHandler
              /\ at[s]["chan"] = 0 /\ at[s]["trans"] = 0 /\ at[s]["append"] = 0

\* A sink that ended has no lease, and one that ended well has left its ring empty.
SinkDrained ==
    \A s \in Signals :
        /\ ~Running(Sink(s)) => at[s]["leased"] = 0
        /\ task[Sink(s)] = "ok" /\ ~timedOut =>
              ~Running(Trans(s)) /\ at[s]["append"] = 0 /\ at[s]["ring"] = 0

DInv == Counts /\ TimeoutOnly /\ ResultsKept /\ TransformerDrained /\ SinkDrained

\* One batch that moves changes two counts, and both stay natural numbers.
LEMMA MoveCounts ==
    ASSUME Counts, NEW s \in Signals, NEW from \in Places, NEW to \in Places, from # to,
           Move(s, from, to)
    PROVE  /\ Counts'
           /\ at[s][from] > 0 /\ at'[s][from] = at[s][from] - 1
           /\ at'[s][to] = at[s][to] + 1
           /\ \A r \in Signals, p \in Places :
                 r # s \/ (p # from /\ p # to) => at'[r][p] = at[r][p]
<1>1. at[s] \in [Places -> Nat] /\ at[s][from] \in Nat /\ at[s][to] \in Nat
  BY DEF Counts
<1>2. at[s][from] > 0 /\ at' = [at EXCEPT ![s][from] = @ - 1, ![s][to] = @ + 1]
  BY DEF Move
<1>3. at'[s] = [at[s] EXCEPT ![from] = @ - 1, ![to] = @ + 1]
  BY <1>2 DEF Counts
<1>4. at'[s] \in [Places -> Nat]
  <2>1. at[s][from] - 1 \in Nat /\ at[s][to] + 1 \in Nat
    BY <1>1, <1>2
  <2>2. at'[s] = [p \in Places |-> IF p = to THEN at[s][to] + 1
                                  ELSE IF p = from THEN at[s][from] - 1 ELSE at[s][p]]
    BY <1>1, <1>3
  <2> QED BY <1>1, <2>1, <2>2
<1>5. \A r \in Signals : r # s => at'[r] = at[r]
  BY <1>2 DEF Counts
<1>6. Counts'
  BY <1>2, <1>4, <1>5 DEF Counts
<1> QED BY <1>1, <1>2, <1>3, <1>5, <1>6, ZenonT(60)

\* What the places from hold goes to another place, or none of it does.
LEMMA EmptiedCounts ==
    ASSUME NEW c \in [Places -> Nat], NEW from \in SUBSET Places, IsFiniteSet(from),
           NEW to \in Places \ from
    PROVE  /\ Emptied(c, from, to) \in [Places -> Nat]
           /\ \A p \in from : Emptied(c, from, to)[p] = 0
           /\ \A p \in Places \ (from \union {to}) : Emptied(c, from, to)[p] = c[p]
<1>1. IsFiniteWeight([q \in from |-> c[q]])
  BY DEF IsFiniteWeight
<1>2. SumOf([q \in from |-> c[q]]) \in Nat
  BY <1>1, SumType
<1> QED BY <1>2 DEF Emptied

\* What is dropped with a task: the transformer's channel and batch are lost, the sink's
\* leases go back to the ring.
LEMMA DroppedCounts ==
    ASSUME Counts, NEW t \in Tasks, at' = Dropped(t)
    PROVE  /\ Counts'
           /\ t = Source => at' = at
           /\ \A s \in Signals : t = Trans(s) =>
                 /\ \A r \in Signals \ {s} : at'[r] = at[r]
                 /\ \A p \in Places \ {"chan", "trans", "lost"} : at'[s][p] = at[s][p]
                 /\ at'[s]["chan"] = 0 /\ at'[s]["trans"] = 0
           /\ \A s \in Signals : t = Sink(s) =>
                 /\ \A r \in Signals \ {s} : at'[r] = at[r]
                 /\ \A p \in Places \ {"leased", "ring"} : at'[s][p] = at[s][p]
                 /\ at'[s]["leased"] = 0
<1>1. \A s : Trans(s) # Source /\ Sink(s) # Source /\ \A r : Sink(s) # Trans(r)
  BY DEF Trans, Sink, Source
<1>2. CASE t = Source
  <2>1. at' = at
    BY <1>2 DEF Dropped, Source
  <2> QED BY <1>1, <1>2, <2>1 DEF Counts
<1>3. ASSUME NEW s \in Signals, t = Trans(s)
      PROVE  /\ Counts'
             /\ \A r \in Signals \ {s} : at'[r] = at[r]
             /\ \A p \in Places \ {"chan", "trans", "lost"} : at'[s][p] = at[s][p]
             /\ at'[s]["chan"] = 0 /\ at'[s]["trans"] = 0
  <2> DEFINE e == Emptied(at[s], {"chan", "trans"}, "lost")
  <2>1. at' = [at EXCEPT ![s] = e]
    BY <1>3 DEF Dropped, Trans
  <2>2. IsFiniteSet({"chan", "trans"})
    <3>1. IsFiniteSet({"chan"}) /\ {"chan", "trans"} = {"chan"} \union {"trans"}
      BY FS_Singleton
    <3> QED BY <3>1, FS_AddElement
  <2>3. /\ {"chan", "trans"} \in SUBSET Places /\ "lost" \in Places \ {"chan", "trans"}
        /\ at[s] \in [Places -> Nat]
    BY DEF Places, Counts
  <2>4. /\ e \in [Places -> Nat] /\ e["chan"] = 0 /\ e["trans"] = 0
        /\ \A p \in Places \ {"chan", "trans", "lost"} : e[p] = at[s][p]
    BY <2>2, <2>3, EmptiedCounts
  <2> HIDE DEF e
  <2> QED BY <2>1, <2>4 DEF Counts
<1>4. ASSUME NEW s \in Signals, t = Sink(s)
      PROVE  /\ Counts'
             /\ \A r \in Signals \ {s} : at'[r] = at[r]
             /\ \A p \in Places \ {"leased", "ring"} : at'[s][p] = at[s][p]
             /\ at'[s]["leased"] = 0
  <2> DEFINE e == Emptied(at[s], {"leased"}, "ring")
  <2>1. at' = [at EXCEPT ![s] = e]
    BY <1>4 DEF Dropped, Sink
  <2>2. IsFiniteSet({"leased"})
    BY FS_Singleton
  <2>3. /\ {"leased"} \in SUBSET Places /\ "ring" \in Places \ {"leased"}
        /\ at[s] \in [Places -> Nat]
    BY DEF Places, Counts
  <2>4. /\ e \in [Places -> Nat] /\ e["leased"] = 0
        /\ \A p \in Places \ {"leased", "ring"} : e[p] = at[s][p]
    BY <2>2, <2>3, EmptiedCounts
  <2> HIDE DEF e
  <2> QED BY <2>1, <2>4 DEF Counts
<1>5. \A s, r : Sink(s) = Sink(r) => s = r
  BY DEF Sink
<1>6. \A s, r : Trans(s) = Trans(r) => s = r
  BY DEF Trans
<1> QED BY <1>1, <1>2, <1>3, <1>4, <1>5, <1>6 DEF Tasks

\* Tasks of different roles or signals are different.
LEMMA TasksApart ==
    /\ \A s \in Signals : Trans(s) \in Tasks /\ Sink(s) \in Tasks
    /\ \A s, r : Trans(s) # Source /\ Sink(s) # Source /\ Sink(s) # Trans(r)
    /\ \A s, r : (Trans(s) = Trans(r) => s = r) /\ (Sink(s) = Sink(r) => s = r)
<1>1. \A s \in Signals : Trans(s) \in Tasks /\ Sink(s) \in Tasks
  BY DEF Tasks
<1>2. \A s, r : Trans(s) # Source /\ Sink(s) # Source /\ Sink(s) # Trans(r)
  BY DEF Trans, Sink, Source
<1>3. \A s, r : Trans(s) = Trans(r) => s = r
  BY DEF Trans
<1>4. \A s, r : Sink(s) = Sink(r) => s = r
  BY DEF Sink
<1> QED BY <1>1, <1>2, <1>3, <1>4

\* A batch that moves on: no request reaches a transformer that ended well, nothing enters
\* the ring of a sink that ended well, and only a running sink holds a lease.
LEMMA MovesDrain ==
    ASSUME DInv, NEW s \in Signals,
           \/ Request(s) \/ Accept(s) \/ Refuse(s)
           \/ TransformRecv(s) \/ TransformSend(s) \/ AppendFinished(s)
           \/ SinkLease(s) \/ SinkResolve(s)
    PROVE  DInv'
<1> DEFINE Moved(from, to) ==
             /\ at[s][from] > 0 /\ at'[s][from] = at[s][from] - 1
             /\ at'[s][to] = at[s][to] + 1
             /\ \A r \in Signals, p \in Places :
                   r # s \/ (p # from /\ p # to) => at'[r][p] = at[r][p]
<1>0. /\ Counts /\ TimeoutOnly /\ ResultsKept /\ TransformerDrained /\ SinkDrained
      /\ UNCHANGED <<mode, accepting, task, phase, done, failedSinks, timedOut, exitErr>>
  BY DEF DInv, Request, Accept, Refuse, TransformRecv, TransformSend, AppendFinished, SinkLease,
         SinkResolve, tasks, sup
<1>1. ASSUME NEW from \in Places, NEW to \in Places, from # to, Move(s, from, to)
      PROVE  Counts' /\ Moved(from, to)
  BY <1>0, <1>1, MoveCounts
<1>2. {"client", "handler", "refused", "chan", "trans", "append", "ring", "leased", "delivered",
       "lost", "discarded"} = Places
  BY DEF Places
<1>3. \A r \in Signals, p \in Places : at[r][p] \in Nat
  BY <1>0 DEF Counts
<1> HIDE DEF Moved
<1>4. ASSUME Counts', \A r \in Signals : at'[r]["discarded"] = at[r]["discarded"],
             TransformerDrained', SinkDrained'
      PROVE  DInv'
  BY <1>0, <1>4 DEF DInv, TimeoutOnly, ResultsKept
<1>5. CASE Request(s)
  <2>1. accepting /\ Move(s, "client", "handler")
    BY <1>5 DEF Request
  <2>2. Counts' /\ Moved("client", "handler")
    BY <1>1, <1>2, <2>1
  <2>3. TransformerDrained'
    BY <1>0, <1>2, <2>1, <2>2 DEF TransformerDrained, NoHandler, Moved
  <2>4. SinkDrained' /\ \A r \in Signals : at'[r]["discarded"] = at[r]["discarded"]
    BY <1>0, <1>2, <2>2 DEF SinkDrained, Running, Moved
  <2> QED BY <1>4, <2>2, <2>3, <2>4
<1>6. CASE Accept(s)
  <2>1. Running(Trans(s)) /\ Move(s, "handler", "chan")
    BY <1>6 DEF Accept
  <2>2. Counts' /\ Moved("handler", "chan")
    BY <1>1, <1>2, <2>1
  <2>3. TransformerDrained'
    BY <1>0, <1>2, <2>1, <2>2 DEF TransformerDrained, NoHandler, Moved, Running
  <2>4. SinkDrained' /\ \A r \in Signals : at'[r]["discarded"] = at[r]["discarded"]
    BY <1>0, <1>2, <2>2 DEF SinkDrained, Running, Moved
  <2> QED BY <1>4, <2>2, <2>3, <2>4
<1>7. CASE Refuse(s)
  <2>1. ~Running(Trans(s)) /\ Move(s, "handler", "refused")
    BY <1>7 DEF Refuse
  <2>2. Counts' /\ Moved("handler", "refused")
    BY <1>1, <1>2, <2>1
  <2>3. TransformerDrained'
    BY <1>0, <1>2, <2>1, <2>2 DEF TransformerDrained, NoHandler, Moved, Running
  <2>4. SinkDrained' /\ \A r \in Signals : at'[r]["discarded"] = at[r]["discarded"]
    BY <1>0, <1>2, <2>2 DEF SinkDrained, Running, Moved
  <2> QED BY <1>4, <2>2, <2>3, <2>4
<1>8. CASE TransformRecv(s)
  <2>1. Running(Trans(s)) /\ Move(s, "chan", "trans")
    BY <1>8 DEF TransformRecv
  <2>2. Counts' /\ Moved("chan", "trans")
    BY <1>1, <1>2, <2>1
  <2>3. TransformerDrained'
    BY <1>0, <1>2, <2>1, <2>2 DEF TransformerDrained, NoHandler, Moved, Running
  <2>4. SinkDrained' /\ \A r \in Signals : at'[r]["discarded"] = at[r]["discarded"]
    BY <1>0, <1>2, <2>2 DEF SinkDrained, Running, Moved
  <2> QED BY <1>4, <2>2, <2>3, <2>4
<1>9. CASE TransformSend(s)
  <2>1. /\ Running(Trans(s)) /\ Running(Sink(s))
        /\ Move(s, "trans", "append") \/ Move(s, "trans", "ring")
    BY <1>9 DEF TransformSend
  <2>2. Counts' /\ (Moved("trans", "append") \/ Moved("trans", "ring"))
    BY <1>1, <1>2, <2>1
  <2>3. TransformerDrained'
    BY <1>0, <1>2, <2>1, <2>2 DEF TransformerDrained, NoHandler, Moved, Running
  <2>4. SinkDrained' /\ \A r \in Signals : at'[r]["discarded"] = at[r]["discarded"]
    BY <1>0, <1>2, <2>1, <2>2 DEF SinkDrained, Running, Moved
  <2> QED BY <1>4, <2>2, <2>3, <2>4
<1>10. CASE AppendFinished(s)
  <2>1. Move(s, "append", "ring")
    BY <1>10 DEF AppendFinished
  <2>2. Counts' /\ Moved("append", "ring")
    BY <1>1, <1>2, <2>1
  <2>3. TransformerDrained'
    BY <1>0, <1>2, <1>3, <2>2 DEF TransformerDrained, NoHandler, Moved, Running
  <2>4. SinkDrained' /\ \A r \in Signals : at'[r]["discarded"] = at[r]["discarded"]
    BY <1>0, <1>2, <1>3, <2>2 DEF SinkDrained, Running, Moved
  <2> QED BY <1>4, <2>2, <2>3, <2>4
<1>11. CASE SinkLease(s)
  <2>1. Running(Sink(s)) /\ Move(s, "ring", "leased")
    BY <1>11 DEF SinkLease
  <2>2. Counts' /\ Moved("ring", "leased")
    BY <1>1, <1>2, <2>1
  <2>3. TransformerDrained'
    BY <1>0, <1>2, <2>2 DEF TransformerDrained, NoHandler, Moved, Running
  <2>4. SinkDrained' /\ \A r \in Signals : at'[r]["discarded"] = at[r]["discarded"]
    BY <1>0, <1>2, <2>1, <2>2 DEF SinkDrained, Running, Moved
  <2> QED BY <1>4, <2>2, <2>3, <2>4
<1>12. CASE SinkResolve(s)
  <2>1. Running(Sink(s)) /\ Move(s, "leased", "delivered")
    BY <1>12 DEF SinkResolve
  <2>2. Counts' /\ Moved("leased", "delivered")
    BY <1>1, <1>2, <2>1
  <2>3. TransformerDrained'
    BY <1>0, <1>2, <2>2 DEF TransformerDrained, NoHandler, Moved, Running
  <2>4. SinkDrained' /\ \A r \in Signals : at'[r]["discarded"] = at[r]["discarded"]
    BY <1>0, <1>2, <2>1, <2>2 DEF SinkDrained, Running, Moved
  <2> QED BY <1>4, <2>2, <2>3, <2>4
<1> QED BY <1>5, <1>6, <1>7, <1>8, <1>9, <1>10, <1>11, <1>12

\* A task that fails or is aborted drops what it holds; no result of its kind was taken.
LEMMA TaskDropped ==
    ASSUME IInv, DInv, NEW t \in Tasks, Running(t), NEW x \in {"err", "aborted"},
           x = "aborted" => timedOut,
           task' = [task EXCEPT ![t] = x], at' = Dropped(t),
           UNCHANGED <<mode, accepting, phase, done, failedSinks, timedOut, exitErr>>
    PROVE  DInv'
<1>0. /\ Counts /\ TimeoutOnly /\ ResultsKept /\ TransformerDrained /\ SinkDrained
      /\ t \notin done /\ DOMAIN task = Tasks
  BY DEF DInv, IInv, AwaitedExact, HandleTypes
<1>1. task'[t] = x /\ \A u \in Tasks \ {t} : task'[u] = task[u]
  BY <1>0
<1>2. x # "run" /\ x # "ok"
  OBVIOUS
<1>3. \A p \in {"handler", "refused", "append", "discarded"} :
        p \in Places \ {"chan", "trans", "lost"} /\ p \in Places \ {"leased", "ring"}
  BY DEF Places
<1>4. "ring" \in Places \ {"chan", "trans", "lost"} /\ "leased" \in Places \ {"chan", "trans", "lost"}
      /\ \A p \in {"chan", "trans", "lost"} : p \in Places \ {"leased", "ring"}
  BY DEF Places
<1>5. Counts' /\ \A r \in Signals : \A p \in {"handler", "refused", "append", "discarded"} :
        at'[r][p] = at[r][p]
  BY <1>0, <1>3, DroppedCounts DEF Tasks
<1>6. TimeoutOnly' /\ ResultsKept'
  BY <1>0, <1>1, <1>5, TasksApart DEF TimeoutOnly, ResultsKept
<1>7. TransformerDrained'
  <2> SUFFICES ASSUME NEW s \in Signals
               PROVE  /\ task'[Trans(s)] \in {"run", "ok"} => at'[s]["refused"] = 0 /\ at'[s]["lost"] = 0
                      /\ task'[Trans(s)] = "ok" =>
                            /\ ~accepting /\ \A r \in Signals : at'[r]["handler"] = 0
                            /\ at'[s]["chan"] = 0 /\ at'[s]["trans"] = 0 /\ at'[s]["append"] = 0
    BY DEF TransformerDrained, NoHandler
  <2>1. CASE t = Trans(s)
    BY <1>1, <1>2, <2>1
  <2>2. CASE t # Trans(s)
    <3>1. task'[Trans(s)] = task[Trans(s)]
      BY <1>1, <2>2, TasksApart
    <3>2. \A p \in {"chan", "trans", "lost"} : at'[s][p] = at[s][p]
      BY <1>0, <1>4, <2>2, DroppedCounts DEF Tasks
    <3> QED BY <1>0, <1>5, <3>1, <3>2 DEF TransformerDrained, NoHandler
  <2> QED BY <2>1, <2>2
<1>8. SinkDrained'
  <2> SUFFICES ASSUME NEW s \in Signals
               PROVE  /\ task'[Sink(s)] # "run" => at'[s]["leased"] = 0
                      /\ task'[Sink(s)] = "ok" /\ ~timedOut =>
                            task'[Trans(s)] # "run" /\ at'[s]["append"] = 0 /\ at'[s]["ring"] = 0
    BY DEF SinkDrained, Running
  <2>1. CASE t = Sink(s)
    BY <1>0, <1>1, <1>2, <2>1, DroppedCounts
  <2>2. CASE t # Sink(s)
    <3>1. task'[Sink(s)] = task[Sink(s)] /\ (task[Trans(s)] # "run" => task'[Trans(s)] # "run")
      BY <1>1, <1>2, <2>2, TasksApart
    <3>2. at'[s]["leased"] = at[s]["leased"] /\ at'[s]["ring"] = at[s]["ring"]
      BY <1>0, <1>4, <2>2, DroppedCounts DEF Tasks
    <3> QED BY <1>0, <1>5, <3>1, <3>2 DEF SinkDrained, Running
  <2> QED BY <2>1, <2>2
<1> QED BY <1>5, <1>6, <1>7, <1>8 DEF DInv

\* The source ends, a transformer finds its channel closed and empty, or a sink its ring.
LEMMA EndsDrain ==
    ASSUME IInv, DInv,
           SourceEnds \/ \E s \in Signals : TransformEnds(s) \/ SinkEnds(s)
    PROVE  DInv'
<1>0. /\ Counts /\ TimeoutOnly /\ ResultsKept /\ TransformerDrained /\ SinkDrained
      /\ DOMAIN task = Tasks /\ \A t \in done : ~Running(t)
      /\ \A r \in Signals, p \in Places : at[r][p] \in Nat
  BY DEF DInv, IInv, HandleTypes, AwaitedExact, Counts
<1>1. ASSUME NEW t \in Tasks, Running(t), task' = [task EXCEPT ![t] = "ok"],
             UNCHANGED <<mode, at, accepting, sup>>
      PROVE  /\ Counts' /\ TimeoutOnly' /\ ResultsKept'
             /\ task'[t] = "ok" /\ \A u \in Tasks \ {t} : task'[u] = task[u]
  <2>1. task'[t] = "ok" /\ (\A u \in Tasks \ {t} : task'[u] = task[u]) /\ t \notin done
    BY <1>0, <1>1
  <2> QED BY <1>0, <1>1, <2>1, TasksApart DEF Counts, TimeoutOnly, ResultsKept, sup
<1>2. CASE SourceEnds
  <2>1. /\ Source \in Tasks /\ Running(Source) /\ task' = [task EXCEPT ![Source] = "ok"]
        /\ UNCHANGED <<mode, at, accepting, sup>> /\ timedOut' = timedOut
    BY <1>2 DEF SourceEnds, Tasks, sup
  <2>2. \A s \in Signals : task'[Trans(s)] = task[Trans(s)] /\ task'[Sink(s)] = task[Sink(s)]
    BY <1>1, <2>1, TasksApart
  <2>3. TransformerDrained' /\ SinkDrained'
    BY <1>0, <2>1, <2>2 DEF TransformerDrained, SinkDrained, NoHandler, Running
  <2> QED BY <1>1, <2>1, <2>3 DEF DInv
<1>3. ASSUME NEW s \in Signals, TransformEnds(s) PROVE DInv'
  <2>1. /\ Trans(s) \in Tasks /\ Running(Trans(s)) /\ task' = [task EXCEPT ![Trans(s)] = "ok"]
        /\ UNCHANGED <<mode, at, accepting, sup>> /\ timedOut' = timedOut
        /\ ~accepting /\ NoHandler /\ at[s]["chan"] + at[s]["trans"] + at[s]["append"] = 0
    BY <1>3, TasksApart DEF TransformEnds, ChannelClosed, sup
  <2>2. at[s]["chan"] = 0 /\ at[s]["trans"] = 0 /\ at[s]["append"] = 0
    <3>1. at[s]["chan"] \in Nat /\ at[s]["trans"] \in Nat /\ at[s]["append"] \in Nat
      BY <1>0 DEF Places
    <3> QED BY <2>1, <3>1
  <2>3. /\ task'[Trans(s)] = "ok" /\ task[Trans(s)] = "run"
        /\ \A r \in Signals \ {s} : task'[Trans(r)] = task[Trans(r)]
        /\ \A r \in Signals : task'[Sink(r)] = task[Sink(r)]
    BY <1>1, <2>1, TasksApart, ZenonT(60) DEF Running
  <2>4. TransformerDrained'
    BY <1>0, <2>1, <2>2, <2>3 DEF TransformerDrained, NoHandler
  <2>5. SinkDrained'
    BY <1>0, <2>1, <2>3 DEF SinkDrained, Running
  <2> QED BY <1>1, <2>1, <2>4, <2>5 DEF DInv
<1>4. ASSUME NEW s \in Signals, SinkEnds(s) PROVE DInv'
  <2>1. /\ Sink(s) \in Tasks /\ Running(Sink(s)) /\ task' = [task EXCEPT ![Sink(s)] = "ok"]
        /\ UNCHANGED <<mode, at, accepting, sup>> /\ timedOut' = timedOut
        /\ ~Running(Trans(s)) /\ at[s]["append"] + at[s]["ring"] + at[s]["leased"] = 0
    BY <1>4, TasksApart DEF SinkEnds, Buffered, sup
  <2>2. at[s]["append"] = 0 /\ at[s]["ring"] = 0 /\ at[s]["leased"] = 0
    <3>1. at[s]["append"] \in Nat /\ at[s]["ring"] \in Nat /\ at[s]["leased"] \in Nat
      BY <1>0 DEF Places
    <3> QED BY <2>1, <3>1
  <2>3. /\ task'[Sink(s)] = "ok" /\ \A r \in Signals : task'[Trans(r)] = task[Trans(r)]
        /\ \A r \in Signals \ {s} : task'[Sink(r)] = task[Sink(r)]
    BY <1>1, <2>1, TasksApart
  <2>4. TransformerDrained'
    BY <1>0, <2>1, <2>3 DEF TransformerDrained, NoHandler
  <2>5. SinkDrained'
    BY <1>0, <2>1, <2>2, <2>3 DEF SinkDrained, Running
  <2> QED BY <1>1, <2>1, <2>4, <2>5 DEF DInv
<1> QED BY <1>2, <1>3, <1>4

\* The supervisor's steps before it finalizes: results are kept or become the exit status.
LEMMA SupervisorDrain ==
    ASSUME IInv, DInv, TimerInOrder,
           \/ StopAccepting \/ UNCHANGED vars
           \/ \E t \in Tasks : SelectTask(t) \/ DrainTask(t)
           \/ DrainSource \/ DrainCompletes \/ Exit \/ SelectSignal \/ DrainTimeout
    PROVE  DInv'
<1>0. /\ Counts /\ TimeoutOnly /\ ResultsKept /\ TransformerDrained /\ SinkDrained
      /\ UNCHANGED <<mode, at, task>> /\ (accepting' => accepting)
  BY DEF DInv, StopAccepting, vars, SelectTask, DrainTask, DrainSource, DrainCompletes, Exit,
         SelectSignal, DrainTimeout, tasks
<1>1. timedOut => timedOut'
  BY DEF StopAccepting, vars, SelectTask, DrainTask, DrainSource, DrainCompletes, Exit,
         SelectSignal, DrainTimeout, sup
<1>2. Counts' /\ TransformerDrained' /\ SinkDrained'
  BY <1>0, <1>1 DEF Counts, TransformerDrained, SinkDrained, NoHandler, Running
<1>3. TimeoutOnly' /\ ResultsKept'
  <2>1. CASE StopAccepting \/ UNCHANGED vars
    BY <1>0, <2>1 DEF StopAccepting, vars, sup, TimeoutOnly, ResultsKept
  <2>2. ASSUME NEW t \in Tasks, SelectTask(t) PROVE TimeoutOnly' /\ ResultsKept'
    BY <1>0, <2>2 DEF SelectTask, TimeoutOnly, ResultsKept
  <2>3. ASSUME NEW t \in Tasks, DrainTask(t) PROVE TimeoutOnly' /\ ResultsKept'
    <3>1. \A s \in Signals : Sink(s).role = "sink"
      BY DEF Sink
    <3> QED BY <1>0, <2>3, <3>1 DEF DrainTask, TimeoutOnly, ResultsKept
  <2>4. CASE DrainSource
    BY <1>0, <2>4, TasksApart DEF DrainSource, TimeoutOnly, ResultsKept
  <2>5. CASE DrainCompletes
    BY <1>0, <2>5 DEF DrainCompletes, TimeoutOnly, ResultsKept, TimerInOrder
  <2>6. CASE Exit
    BY <1>0, <2>6 DEF Exit, TimeoutOnly, ResultsKept
  <2>7. CASE SelectSignal
    BY <1>0, <2>7 DEF SelectSignal, TimeoutOnly, ResultsKept
  <2>8. CASE DrainTimeout
    BY <1>0, <2>8 DEF DrainTimeout, TimeoutOnly, ResultsKept, TimerInOrder
  <2> QED BY <2>1, <2>2, <2>3, <2>4, <2>5, <2>6, <2>7, <2>8
<1> QED BY <1>2, <1>3 DEF DInv

\* What finalize_shutdown_timeout_async does to the rings, and what the exit status says.
LEMMA FinalizeDrain ==
    ASSUME DInv, FinalizePersist \/ FinalizeFails \/ FinalizeDiscard
    PROVE  DInv'
<1>0. /\ Counts /\ TimeoutOnly /\ ResultsKept /\ TransformerDrained /\ SinkDrained
      /\ phase = "abort" /\ timedOut
      /\ UNCHANGED <<mode, accepting, task, done, failedSinks, timedOut>>
      /\ phase' = "epilogue"
  BY DEF DInv, FinalizePersist, FinalizeFails, FinalizeDiscard, TimeoutOnly, tasks
<1>1. CASE FinalizeFails
  BY <1>0, <1>1 DEF FinalizeFails, DInv, Counts, TimeoutOnly, ResultsKept, TransformerDrained,
                    SinkDrained, NoHandler, Running
<1>2. CASE FinalizePersist
  <2>1. at' = [s \in Signals |-> Emptied(at[s], {"append"}, "ring")] /\ mode.persist /\ exitErr' = exitErr
    BY <1>2 DEF FinalizePersist
  <2>2. IsFiniteSet({"append"}) /\ {"append"} \in SUBSET Places /\ "ring" \in Places \ {"append"}
    BY FS_Singleton DEF Places
  <2>3. ASSUME NEW s \in Signals
        PROVE  /\ at'[s] \in [Places -> Nat] /\ at'[s]["append"] = 0
               /\ \A p \in Places \ {"append", "ring"} : at'[s][p] = at[s][p]
    <3>1. at[s] \in [Places -> Nat] /\ at'[s] = Emptied(at[s], {"append"}, "ring")
      BY <1>0, <2>1 DEF Counts
    <3> QED BY <2>2, <3>1, EmptiedCounts
  <2>4. \A s \in Signals : \A p \in {"handler", "refused", "chan", "trans", "leased", "lost", "discarded"} :
          at'[s][p] = at[s][p]
    BY <2>3 DEF Places
  <2>5. Counts'
    BY <2>1, <2>3 DEF Counts
  <2>6. TimeoutOnly' /\ ResultsKept'
    BY <1>0, <2>1, <2>4 DEF TimeoutOnly, ResultsKept
  <2>7. TransformerDrained' /\ SinkDrained'
    BY <1>0, <2>3, <2>4 DEF TransformerDrained, SinkDrained, NoHandler, Running
  <2> QED BY <2>5, <2>6, <2>7 DEF DInv
<1>3. CASE FinalizeDiscard
  <2> DEFINE held == {"append", "ring", "leased"}
  <2>1. at' = [s \in Signals |-> Emptied(at[s], held, "discarded")] /\ exitErr' = TRUE
    BY <1>3 DEF FinalizeDiscard
  <2>2. IsFiniteSet(held) /\ held \in SUBSET Places /\ "discarded" \in Places \ held
    <3>1. IsFiniteSet({"append"}) /\ {"append"} \union {"ring"} = {"append", "ring"}
      BY FS_Singleton
    <3>2. IsFiniteSet({"append", "ring"}) /\ {"append", "ring"} \union {"leased"} = held
      BY <3>1, FS_AddElement
    <3>3. IsFiniteSet(held)
      BY <3>2, FS_AddElement
    <3> QED BY <3>3 DEF Places
  <2>3. ASSUME NEW s \in Signals
        PROVE  /\ at'[s] \in [Places -> Nat] /\ at'[s]["append"] = 0 /\ at'[s]["leased"] = 0
               /\ \A p \in Places \ {"append", "ring", "leased", "discarded"} : at'[s][p] = at[s][p]
    <3>1. at[s] \in [Places -> Nat] /\ at'[s] = Emptied(at[s], held, "discarded")
      BY <1>0, <2>1 DEF Counts
    <3> QED BY <2>2, <3>1, EmptiedCounts
  <2>4. \A s \in Signals : \A p \in {"handler", "refused", "chan", "trans", "lost"} :
          at'[s][p] = at[s][p]
    BY <2>3 DEF Places
  <2>5. Counts'
    BY <2>1, <2>3 DEF Counts
  <2>6. TimeoutOnly' /\ ResultsKept'
    BY <1>0, <2>1 DEF TimeoutOnly, ResultsKept
  <2>7. TransformerDrained' /\ SinkDrained'
    BY <1>0, <2>3, <2>4 DEF TransformerDrained, SinkDrained, NoHandler, Running
  <2> QED BY <2>5, <2>6, <2>7 DEF DInv
<1> QED BY <1>1, <1>2, <1>3

\* Every step of the process keeps the drain's invariant.
LEMMA DrainStep ==
    ASSUME IInv, TimerInOrder, DInv, [Next]_vars
    PROVE  DInv'
<1>1. CASE StopAccepting \/ UNCHANGED vars \/ DrainSource \/ DrainCompletes \/ Exit \/ SelectSignal
           \/ DrainTimeout \/ \E t \in Tasks : SelectTask(t) \/ DrainTask(t)
  BY <1>1, SupervisorDrain
<1>2. CASE SourceEnds \/ \E s \in Signals : TransformEnds(s) \/ SinkEnds(s)
  BY <1>2, EndsDrain
<1>3. ASSUME NEW s \in Signals,
             \/ Request(s) \/ Accept(s) \/ Refuse(s)
             \/ TransformRecv(s) \/ TransformSend(s) \/ AppendFinished(s)
             \/ SinkLease(s) \/ SinkResolve(s)
      PROVE  DInv'
  BY <1>3, MovesDrain
<1>4. ASSUME NEW s \in Signals, TransformDownstreamClosed(s) PROVE DInv'
  <2>1. /\ Trans(s) \in Tasks /\ Running(Trans(s))
        /\ task' = [task EXCEPT ![Trans(s)] = "err"] /\ at' = Dropped(Trans(s))
        /\ UNCHANGED <<mode, accepting, phase, done, failedSinks, timedOut, exitErr>>
    BY <1>4, TasksApart DEF TransformDownstreamClosed, sup
  <2> QED BY <2>1, TaskDropped
<1>5. ASSUME NEW t \in Tasks, TaskFails(t) PROVE DInv'
  <2>1. /\ Running(t) /\ task' = [task EXCEPT ![t] = "err"] /\ at' = Dropped(t)
        /\ UNCHANGED <<mode, accepting, phase, done, failedSinks, timedOut, exitErr>>
    BY <1>5 DEF TaskFails, sup
  <2> QED BY <2>1, TaskDropped
<1>6. CASE AbortNext
  <2> DEFINE t == AbortOrder[nextAbort]
  <2>1. /\ t \in Tasks /\ timedOut
        /\ UNCHANGED <<mode, accepting, phase, done, failedSinks, timedOut, exitErr>>
    BY <1>6, AbortOrderShape DEF AbortNext, DInv, TimeoutOnly
  <2>2. CASE t \notin done /\ Running(t)
    <3>1. task' = [task EXCEPT ![t] = "aborted"] /\ at' = Dropped(t)
      BY <1>6, <2>2 DEF AbortNext
    <3> QED BY <2>1, <2>2, <3>1, TaskDropped
  <2>3. CASE ~(t \notin done /\ Running(t))
    <3>1. UNCHANGED <<task, at>>
      BY <1>6, <2>3 DEF AbortNext
    <3> QED BY <2>1, <3>1 DEF DInv, Counts, TimeoutOnly, ResultsKept, TransformerDrained, SinkDrained,
                              NoHandler, Running
  <2> QED BY <2>2, <2>3
<1>7. CASE FinalizePersist \/ FinalizeFails \/ FinalizeDiscard
  BY <1>7, FinalizeDrain
<1> QED BY <1>1, <1>2, <1>3, <1>4, <1>5, <1>6, <1>7 DEF Next, Supervise

\* The drain's invariant holds in every behaviour of the process.
THEOREM DrainInvariant == Spec => []DInv
<1>1. Init => DInv
  <2> SUFFICES ASSUME Init PROVE DInv
    OBVIOUS
  <2>1. PICK load \in Loads :
          at = [s \in Signals |-> [p \in Places |-> IF p = "client" THEN load[s] ELSE 0]]
    BY DEF Init
  <2>2. Counts
    BY <2>1, SupervisorAssumption DEF Counts
  <2>3. \A s \in Signals : \A p \in Places \ {"client"} : at[s][p] = 0
    BY <2>1
  <2>4. \A s \in Signals : at[s]["discarded"] = 0 /\ at[s]["refused"] = 0 /\ at[s]["lost"] = 0
    BY <2>3 DEF Places
  <2>5. \A t \in Tasks : task[t] = "run"
    BY DEF Init
  <2>6. TimeoutOnly /\ ResultsKept
    BY <2>4, <2>5, TasksApart DEF Init, TimeoutOnly, ResultsKept
  <2>7. TransformerDrained /\ SinkDrained
    BY <2>4, <2>5, TasksApart DEF TransformerDrained, SinkDrained, Running
  <2> QED BY <2>2, <2>6, <2>7 DEF DInv
<1>2. IInv /\ FInv /\ DInv /\ [Next]_vars => DInv'
  BY DrainStep DEF FInv
<1> QED BY <1>1, <1>2, HandleInvariant, FinalInvariant, PTL DEF Spec

\* A sink's error, met by select! or by the drain, is in the exit status of main unless
\* the drain timed out: it is kept in *_drain_res until exit_err is decided.
THEOREM SinkErrorsReported == Spec => []FailuresAreReported
<1>1. IInv /\ DInv => FailuresAreReported
  <2> SUFFICES ASSUME DInv, phase = "exited", ~timedOut,
                      NEW s \in Signals, task[Sink(s)] = "err"
               PROVE  exitErr
    BY DEF FailuresAreReported
  <2>1. Sink(s) \in done
    BY TasksApart DEF DInv, TimeoutOnly
  <2>2. exitErr \/ failedSinks # {}
    BY <2>1 DEF DInv, ResultsKept
  <2> QED BY <2>2 DEF DInv, ResultsKept
<1> QED BY <1>1, HandleInvariant, DrainInvariant, PTL

\* The types of what the handles and the counts leave out.
OtherTypes ==
    /\ mode \in Modes /\ accepting \in BOOLEAN
    /\ task \in [Tasks -> {"run", "ok", "err", "aborted"}]
    /\ shutdown \in BOOLEAN
    /\ phase \in {"select", "source", "join", "abort", "epilogue", "exited"}
    /\ failedSinks \subseteq Tasks /\ timedOut \in BOOLEAN /\ exitErr \in BOOLEAN

\* The failures so far.
FaultsBounded == faults \in 0..MaxFaults

\* Every variable of the process keeps its type: the counts stay natural numbers although
\* every move takes one away.
THEOREM SupervisorTypes == Spec => []TypeOK
<1>1. Init => OtherTypes
  BY DEF Init, OtherTypes
<1>2. IInv /\ OtherTypes /\ [Next]_vars => OtherTypes'
  <2> SUFFICES ASSUME IInv, OtherTypes, [Next]_vars PROVE OtherTypes'
    OBVIOUS
  <2>1. CASE StopAccepting \/ SourceEnds \/ UNCHANGED vars
    BY <2>1 DEF StopAccepting, SourceEnds, vars, tasks, sup, OtherTypes
  <2>2. ASSUME NEW s \in Signals,
               \/ Request(s) \/ Accept(s) \/ Refuse(s)
               \/ TransformRecv(s) \/ TransformSend(s) \/ AppendFinished(s)
               \/ TransformEnds(s) \/ TransformDownstreamClosed(s)
               \/ SinkLease(s) \/ SinkResolve(s) \/ SinkEnds(s)
        PROVE  OtherTypes'
    BY <2>2 DEF Request, Accept, Refuse, TransformRecv, TransformSend, AppendFinished, TransformEnds,
                TransformDownstreamClosed, SinkLease, SinkResolve, SinkEnds, tasks, sup, OtherTypes
  <2>3. ASSUME NEW t \in Tasks, TaskFails(t) \/ SelectTask(t) \/ DrainTask(t) PROVE OtherTypes'
    BY <2>3 DEF TaskFails, SelectTask, DrainTask, tasks, sup, OtherTypes
  <2>4. CASE DrainSource \/ DrainCompletes \/ Exit \/ SelectSignal \/ DrainTimeout
    BY <2>4 DEF DrainSource, DrainCompletes, Exit, SelectSignal, DrainTimeout, tasks, OtherTypes
  <2>5. CASE AbortNext
    BY <2>5 DEF AbortNext, OtherTypes
  <2>6. CASE FinalizePersist \/ FinalizeDiscard \/ FinalizeFails
    BY <2>6 DEF FinalizePersist, FinalizeDiscard, FinalizeFails, tasks, OtherTypes
  <2> QED BY <2>1, <2>2, <2>3, <2>4, <2>5, <2>6 DEF Next, Supervise
<1>3. Spec => []FaultsBounded
  <2>1. MaxFaults \in Nat
    BY SupervisorAssumption
  <2>2. Init => FaultsBounded
    BY <2>1 DEF Init, FaultsBounded
  <2>3. FaultsBounded /\ [Next]_vars => FaultsBounded'
    <3>1. ASSUME [Next]_vars PROVE faults' = faults \/ (faults < MaxFaults /\ faults' = faults + 1)
      BY <3>1 DEF Next, Supervise, vars, tasks, Request, Accept, Refuse, StopAccepting, SourceEnds,
             TransformRecv, TransformSend, AppendFinished, TransformEnds,
             TransformDownstreamClosed, SinkLease, SinkResolve, SinkEnds, TaskFails,
             SelectTask, DrainTask, DrainSource, DrainCompletes, AbortNext, FinalizePersist,
             FinalizeDiscard, Exit, SelectSignal, DrainTimeout, FinalizeFails
    <3>2. ASSUME NEW n, n \in 0..MaxFaults, n < MaxFaults PROVE n + 1 \in 0..MaxFaults
      BY <2>1, <3>2
    <3> QED BY <3>1, <3>2 DEF FaultsBounded
  <2> QED BY <2>2, <2>3, PTL DEF Spec
<1>4. IInv /\ DInv /\ OtherTypes /\ FaultsBounded => TypeOK
  BY DEF FaultsBounded, IInv, HandleTypes, DInv, Counts, OtherTypes, TypeOK
<1> QED BY <1>1, <1>2, <1>3, <1>4, HandleInvariant, DrainInvariant, PTL DEF Spec

\* Exit status 0 loses nothing a ring had taken in: after a drain in time the rings are
\* empty, after a timeout they were flushed for the next start.
THEOREM ExitZeroKeeps == Spec => []ExitZeroKeepsBuffered
<1>1. HandlesAwaitedOnce /\ FInv /\ DInv /\ TypeOK => ExitZeroKeepsBuffered
  <2> SUFFICES ASSUME TypeOK, HandlesAwaitedOnce, FInv, DInv, phase = "exited", ~exitErr, NEW s \in Signals
               PROVE  /\ at[s]["discarded"] + at[s]["append"] + at[s]["leased"] = 0
                      /\ at[s]["ring"] > 0 => mode.persist /\ timedOut
    BY DEF ExitZeroKeepsBuffered
  <2>1. at[s]["discarded"] = 0 /\ at[s]["leased"] = 0
    <3>1. ~Running(Sink(s))
      BY TasksApart DEF HandlesAwaitedOnce
    <3> QED BY <3>1 DEF DInv, TimeoutOnly, SinkDrained
  <2>2. CASE timedOut
    BY <2>1, <2>2 DEF FInv, NoAppendLeft, DInv, TimeoutOnly
  <2>3. CASE ~timedOut
    <3>1. Sink(s) \in done /\ Sink(s) \in Tasks
      BY <2>3, TasksApart DEF DInv, TimeoutOnly
    <3>2. task[Sink(s)] # "err" /\ task[Sink(s)] # "aborted" /\ task[Sink(s)] # "run"
      BY <2>3, <3>1 DEF DInv, TimeoutOnly, ResultsKept, HandlesAwaitedOnce, Running
    <3>3. task[Sink(s)] = "ok"
      BY <3>1, <3>2 DEF TypeOK
    <3>4. at[s]["append"] = 0 /\ at[s]["ring"] = 0
      BY <2>3, <3>3 DEF DInv, SinkDrained
    <3> QED BY <2>1, <3>4
  <2> QED BY <2>2, <2>3
<1> QED BY <1>1, HandlesAreAwaitedOnce, FinalInvariant, DrainInvariant, SupervisorTypes, PTL

\* A drain that ends in time with every task well has delivered all that was accepted:
\* each stage ends only when the one before it has ended and has left it nothing.
THEOREM DrainDelivers == Spec => []CleanDrainDelivers
<1>1. HandlesAwaitedOnce /\ DInv => CleanDrainDelivers
  <2> SUFFICES ASSUME DInv, ~timedOut, \A t \in Tasks : task[t] = "ok",
                      NEW s \in Signals, NEW p \in Places \ {"client", "delivered"}
               PROVE  at[s][p] = 0
    BY DEF CleanDrainDelivers
  <2>1. task[Trans(s)] = "ok" /\ task[Sink(s)] = "ok" /\ ~Running(Sink(s))
    BY TasksApart DEF Running
  <2>2. /\ at[s]["refused"] = 0 /\ at[s]["lost"] = 0 /\ at[s]["handler"] = 0
        /\ at[s]["chan"] = 0 /\ at[s]["trans"] = 0
    BY <2>1 DEF DInv, TransformerDrained, NoHandler
  <2>3. at[s]["append"] = 0 /\ at[s]["ring"] = 0 /\ at[s]["leased"] = 0
    BY <2>1 DEF DInv, SinkDrained
  <2>4. at[s]["discarded"] = 0
    BY DEF DInv, TimeoutOnly
  <2> QED BY <2>2, <2>3, <2>4 DEF Places
<1> QED BY <1>1, HandlesAreAwaitedOnce, DrainInvariant, PTL

-----------------------------------------------------------------------------
(* The readiness gate                                                       *)

(* fetch_add and fetch_sub keep the count of the senders that wait. *)
CountExact == blockedSenders = Cardinality(Blocked)

(* A time that is set has someone to clear it: a sender that still waits, or one  *)
(* on its way to store 0 or to look at the count.                                  *)
SomeoneClears ==
    blockedSince # 0 =>
        \/ blockedSenders > 0
        \/ \E s \in Senders : pc[s] \in {"clear", "recheck"}

GateInv == GateTypeOK /\ CountExact /\ SomeoneClears

(* The count is a natural number, and positive while somebody waits. *)
LEMMA BlockedFinite ==
    ASSUME GateInv
    PROVE  /\ IsFiniteSet(Blocked)
           /\ \A s \in Blocked : blockedSenders > 0
           /\ Blocked = {} <=> blockedSenders = 0
  <1>1. IsFiniteSet(Blocked)
    BY GateAssumption, FS_Subset DEF Blocked
  <1>2. Cardinality(Blocked) \in Nat /\ (Cardinality(Blocked) = 0 <=> Blocked = {})
    BY <1>1, FS_CardinalityType, FS_EmptySet
  <1> QED BY <1>1, <1>2 DEF GateInv, CountExact

(* The gate starts with nobody blocked and no time set. *)
THEOREM InitGateInv == GateInit => GateInv
  <1> SUFFICES ASSUME GateInit PROVE GateInv
    OBVIOUS
  <1>1. GateTypeOK
    BY GateAssumption DEF GateInit, GateTypeOK
  <1>2. Blocked = {}
    BY DEF GateInit, Blocked
  <1>3. CountExact
    BY <1>2, FS_EmptySet DEF GateInit, CountExact
  <1>4. SomeoneClears
    BY DEF GateInit, SomeoneClears
  <1> QED BY <1>1, <1>3, <1>4 DEF GateInv

(* A sender that starts to wait is counted. *)
LEMMA EnterStep == ASSUME GateInv, NEW s \in Senders, MarkBlocked(s) PROVE GateInv'
  <1>1. GateTypeOK'
    BY GateAssumption DEF GateInv, GateTypeOK, MarkBlocked, Goto
  <1>2. s \notin Blocked /\ Blocked' = Blocked \union {s}
    BY DEF GateInv, GateTypeOK, MarkBlocked, Goto, Blocked
  <1>3. CountExact'
    BY <1>2, BlockedFinite, FS_AddElement DEF GateInv, CountExact, MarkBlocked
  <1>4. blockedSenders' > 0
    BY DEF GateInv, GateTypeOK, MarkBlocked
  <1> QED BY <1>1, <1>3, <1>4 DEF GateInv, SomeoneClears

(* A sender that stops waiting, admitted or not, is no longer counted, and sees to *)
(* the time when it was the last.                                                   *)
LEMMA LeaveStep ==
    ASSUME GateInv, NEW s \in Senders, MarkAdmitted(s) \/ DropGuard(s)
    PROVE  GateInv'
  <1>1. s \in Blocked
    BY DEF MarkAdmitted, DropGuard, Blocked
  <1>2. blockedSenders > 0
    BY <1>1, BlockedFinite
  <1>3. GateTypeOK'
    BY <1>2, GateAssumption DEF GateInv, GateTypeOK, MarkAdmitted, DropGuard, Goto
  <1>4. Blocked' = Blocked \ {s}
    BY DEF GateInv, GateTypeOK, MarkAdmitted, DropGuard, Goto, Blocked
  <1>5. CountExact'
    BY <1>1, <1>4, BlockedFinite, FS_RemoveElement
    DEF GateInv, CountExact, MarkAdmitted, DropGuard
  <1>6. SomeoneClears'
    <2>1. CASE blockedSenders <= 1
      <3>1. pc'[s] = "clear"
        BY <2>1 DEF GateInv, GateTypeOK, MarkAdmitted, DropGuard, Goto
      <3> QED BY <3>1 DEF SomeoneClears
    <2>2. CASE ~(blockedSenders <= 1)
      <3>1. blockedSenders' > 0
        BY <2>2 DEF GateInv, GateTypeOK, MarkAdmitted, DropGuard
      <3> QED BY <3>1 DEF SomeoneClears
    <2> QED BY <2>1, <2>2
  <1> QED BY <1>3, <1>5, <1>6 DEF GateInv

(* The stores and the load of a guard count nobody. *)
LEMMA GuardStep ==
    ASSUME GateInv, NEW s \in Senders, Stamp(s) \/ Restamp(s) \/ Recheck(s) \/ Clear(s)
    PROVE  GateInv'
  <1>1. GateTypeOK'
    BY GateAssumption DEF GateInv, GateTypeOK, Stamp, Restamp, Recheck, Clear, Goto
  <1>2. Blocked' = Blocked /\ blockedSenders' = blockedSenders
    BY DEF GateInv, GateTypeOK, Stamp, Restamp, Recheck, Clear, Goto, Blocked
  <1>3. CountExact'
    BY <1>2 DEF GateInv, CountExact
  <1>4. SomeoneClears'
    <2>1. CASE Stamp(s)
      <3>1. s \in Blocked
        BY <2>1 DEF Stamp, Blocked
      <3>2. blockedSenders' > 0
        BY <1>2, <3>1, BlockedFinite
      <3> QED BY <3>2 DEF SomeoneClears
    <2>2. CASE Restamp(s)
      <3>1. pc'[s] = "recheck"
        BY <2>2 DEF GateInv, GateTypeOK, Restamp, Goto
      <3> QED BY <3>1 DEF SomeoneClears
    <2>3. CASE Recheck(s)
      <3>1. blockedSenders' > 0 \/ pc'[s] = "clear"
        BY <2>3 DEF GateInv, GateTypeOK, Recheck, Goto
      <3> QED BY <3>1 DEF SomeoneClears
    <2>4. CASE Clear(s)
      BY <2>4 DEF Clear, SomeoneClears
    <2> QED BY <2>1, <2>2, <2>3, <2>4
  <1> QED BY <1>1, <1>3, <1>4 DEF GateInv

(* Every step of a guard keeps the count exact and leaves nobody to clear a time    *)
(* only when there is none.                                                          *)
THEOREM StepGateInv == GateInv /\ [GateNext]_gateVars => GateInv'
  <1> SUFFICES ASSUME GateInv, [GateNext]_gateVars PROVE GateInv'
    OBVIOUS
  <1>1. CASE Tick
    <2>1. GateTypeOK'
      BY <1>1, GateAssumption DEF GateInv, GateTypeOK, Tick
    <2>2. Blocked' = Blocked
      BY <1>1 DEF Tick, Blocked
    <2> QED BY <1>1, <2>1, <2>2 DEF GateInv, CountExact, SomeoneClears, Tick
  <1>2. CASE UNCHANGED gateVars
    <2>1. Blocked' = Blocked
      BY <1>2 DEF gateVars, Blocked
    <2> QED BY <1>2, <2>1 DEF gateVars, GateInv, GateTypeOK, CountExact, SomeoneClears
  <1>3. ASSUME NEW s \in Senders, MarkBlocked(s) PROVE GateInv'
    BY <1>3, EnterStep
  <1>4. ASSUME NEW s \in Senders, MarkAdmitted(s) \/ DropGuard(s) PROVE GateInv'
    BY <1>4, LeaveStep
  <1>5. ASSUME NEW s \in Senders, Stamp(s) \/ Restamp(s) \/ Recheck(s) \/ Clear(s)
        PROVE  GateInv'
    BY <1>5, GuardStep
  <1> QED BY <1>1, <1>2, <1>3, <1>4, <1>5 DEF GateNext

(* For any number of senders whose guards interleave in any way, no time stays behind *)
(* on a ring that nobody waits for: mark_admitted's second look at the count is enough. *)
THEOREM UnblockedIsZero == GateSpec => []ZeroWhenUnblocked
  <1>1. GateInv => ZeroWhenUnblocked
    <2> SUFFICES ASSUME GateInv, Quiescent, Blocked = {} PROVE blockedSince = 0
      BY DEF ZeroWhenUnblocked
    <2>1. blockedSenders = 0
      BY BlockedFinite
    <2> QED BY <2>1 DEF GateInv, SomeoneClears, Quiescent
  <1> QED BY <1>1, InitGateInv, StepGateInv, PTL DEF GateSpec

=============================================================================
