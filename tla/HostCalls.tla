----------------------------- MODULE HostCalls -----------------------------
(* The host functions a guest may call while it runs, and the MetricRegistry   *)
(* that the guests of all workers share.  An emitted metric is written to the  *)
(* map of values and then to the map of exported instruments, each looked up   *)
(* without and, when it is missing, again with the registration lock.          *)
EXTENDS Naturals, Sequences, FiniteSets, FiniteSetsExt, Sums

CONSTANTS
    Guests,         \* Running guest instances.
    MaxEntries,     \* MAX_METRIC_ENTRIES.
    U64Max,         \* Where additions saturate.
    GuestPrograms   \* Calls of each guest: functions from Guests to sequences.

\* A call of a host function, with the arguments it has.
Calls ==
    [fn : {"metric", "log", "has_capability", "now_nanos"}, memory : {"inside", "outside"},
     name : STRING, type : STRING, value : 0..U64Max, level : STRING]

ASSUME HostCallsAssumption ==
    /\ MaxEntries \in Nat \ {0} /\ U64Max \in Nat \ {0}
    /\ IsFiniteSet(Guests)
    /\ \A p \in GuestPrograms : p \in [Guests -> Seq(Calls)]

VARIABLES
    program,    \* The calls the guests make.
    at,         \* Call each guest is in.
    step,       \* Where in the call it is.
    metrics,    \* Values by name.
    handles,    \* Type of the exported instrument by name.
    exported,   \* Observations each instrument was given.
    events      \* Log events, as pairs of guest and level.

hostVars == <<program, at, step, metrics, handles, exported, events>>

Call(g) == program[g][at[g]]
InCall(g) == at[g] <= Len(program[g])

\* A name is read as at most MAX_METRIC_NAME_LEN bytes of the guest's memory.
Readable(c) == c.memory = "inside"
IsValidMetricName(name) == name \notin {"", "bad-name"}

MetricTypes == {"counter", "gauge", "duration"}
LogLevels == {"ERROR", "WARN", "INFO", "DEBUG", "TRACE"}

HostInit ==
    /\ program \in GuestPrograms
    /\ at = [g \in Guests |-> 1] /\ step = [g \in Guests |-> "call"]
    /\ metrics = << >> /\ handles = << >> /\ exported = << >>
    /\ events = {}

HostTypeOK ==
    /\ \A g \in Guests : step[g] \in {"call", "register", "handle", "registerHandle"}
    /\ \A n \in DOMAIN metrics : metrics[n].type \in MetricTypes
    /\ \A n \in DOMAIN handles : handles[n] \in MetricTypes

-----------------------------------------------------------------------------
(* The value map                                                              *)

Saturated(n) == IF n > U64Max THEN U64Max ELSE n
Least(a, b) == IF a < b THEN a ELSE b
Greatest(a, b) == IF a > b THEN a ELSE b

NewValue(c) ==
    CASE c.type = "counter" -> [type |-> "counter", value |-> c.value]
      [] c.type = "gauge" -> [type |-> "gauge", value |-> c.value]
      [] c.type = "duration" -> [type |-> "duration", count |-> 1, sum |-> c.value,
                                 min |-> c.value, max |-> c.value, last |-> c.value]

\* update_fn of the three record functions: another type starts anew.
UpdatedValue(old, c) ==
    CASE c.type = "counter" /\ old.type = "counter" ->
            [old EXCEPT !.value = Saturated(@ + c.value)]
      [] c.type = "duration" /\ old.type = "duration" ->
            [old EXCEPT !.count = Saturated(@ + 1), !.sum = Saturated(@ + c.value),
                        !.min = Least(@, c.value), !.max = Greatest(@, c.value), !.last = c.value]
      [] OTHER -> NewValue(c)

With(f, n, v) == [m \in DOMAIN f \cup {n} |-> IF m = n THEN v ELSE f[m]]

GoTo(g, s) == step' = [step EXCEPT ![g] = s]
NextCall(g) == /\ at' = [at EXCEPT ![g] = @ + 1] /\ GoTo(g, "call")

\* handle_host_metric_emit and the checks of record_counter, _gauge, _duration.
Recordable(c) ==
    c.fn = "metric" /\ Readable(c) /\ IsValidMetricName(c.name) /\ c.type \in MetricTypes

IgnoreMetric(g) ==
    /\ InCall(g) /\ step[g] = "call" /\ Call(g).fn = "metric" /\ ~Recordable(Call(g))
    /\ NextCall(g)
    /\ UNCHANGED <<program, metrics, handles, exported, events>>

\* update_or_register_metric without the lock.
UpdateMetric(g) ==
    /\ InCall(g) /\ step[g] = "call" /\ Recordable(Call(g))
    /\ LET c == Call(g) IN
         \/ /\ c.name \in DOMAIN metrics
            /\ metrics' = [metrics EXCEPT ![c.name] = UpdatedValue(@, c)]
            /\ GoTo(g, "handle")
         \/ /\ c.name \notin DOMAIN metrics
            /\ GoTo(g, "register") /\ UNCHANGED metrics
    /\ UNCHANGED <<program, at, handles, exported, events>>

\* Mutant: the entry is not looked up again under the lock.
RegisterUnchecked(c) ==
    IF Cardinality(DOMAIN metrics) >= MaxEntries THEN metrics
    ELSE With(metrics, c.name, NewValue(c))

\* Under the lock: another guest may have registered the name meanwhile.
Register(c) ==
    IF c.name \in DOMAIN metrics THEN [metrics EXCEPT ![c.name] = UpdatedValue(@, c)]
    ELSE IF Cardinality(DOMAIN metrics) >= MaxEntries THEN metrics
    ELSE With(metrics, c.name, NewValue(c))

RegisterMetric(g) ==
    /\ step[g] = "register"
    /\ metrics' = Register(Call(g))
    /\ GoTo(g, "handle")
    /\ UNCHANGED <<program, at, handles, exported, events>>

-----------------------------------------------------------------------------
(* The exported instruments                                                   *)

\* An instrument of another type under the name takes nothing.
Export(c, type) ==
    IF type = c.type THEN [exported EXCEPT ![c.name] = @ + 1] ELSE exported

\* get_or_register_handle without the lock.
UseHandle(g) ==
    /\ step[g] = "handle"
    /\ LET c == Call(g) IN
         \/ /\ c.name \in DOMAIN handles
            /\ exported' = Export(c, handles[c.name])
            /\ NextCall(g)
         \/ /\ c.name \notin DOMAIN handles
            /\ GoTo(g, "registerHandle") /\ UNCHANGED <<at, exported>>
    /\ UNCHANGED <<program, metrics, handles, events>>

RegisterHandle(g) ==
    /\ step[g] = "registerHandle"
    /\ LET c == Call(g) IN
         \/ /\ c.name \in DOMAIN handles
            /\ exported' = Export(c, handles[c.name]) /\ UNCHANGED handles
         \/ /\ c.name \notin DOMAIN handles /\ Cardinality(DOMAIN handles) >= MaxEntries
            /\ UNCHANGED <<handles, exported>>
         \/ /\ c.name \notin DOMAIN handles /\ Cardinality(DOMAIN handles) < MaxEntries
            /\ handles' = With(handles, c.name, c.type)
            /\ exported' = With(exported, c.name, 1)
    /\ NextCall(g)
    /\ UNCHANGED <<program, metrics, events>>

-----------------------------------------------------------------------------
(* The other host functions                                                   *)

\* emit_structured_event and handle_legacy_host_log: unknown levels are traced.
EventLevel(level) == IF level \in LogLevels THEN level ELSE "TRACE"

\* decode_log_record and the strings it points to: all or nothing.
HostLog(g) ==
    /\ InCall(g) /\ step[g] = "call" /\ Call(g).fn = "log"
    /\ events' = IF Readable(Call(g)) THEN events \cup {<<g, EventLevel(Call(g).level)>>} ELSE events
    /\ NextCall(g)
    /\ UNCHANGED <<program, metrics, handles, exported>>

\* No capability is known, in either phase; the clock changes nothing.
HostQuery(g) ==
    /\ InCall(g) /\ step[g] = "call" /\ Call(g).fn \in {"has_capability", "now_nanos"}
    /\ NextCall(g)
    /\ UNCHANGED <<program, metrics, handles, exported, events>>

HostNext ==
    \E g \in Guests :
        \/ IgnoreMetric(g) \/ UpdateMetric(g) \/ RegisterMetric(g)
        \/ UseHandle(g) \/ RegisterHandle(g)
        \/ HostLog(g) \/ HostQuery(g)

HostSpec == HostInit /\ [][HostNext]_hostVars

-----------------------------------------------------------------------------
CallOf(e) == program[e[1]][e[2]]
ValueOf(e) == CallOf(e).value

\* The emissions that have passed the value map, and those of a name.
Passed ==
    {e \in UNION {{g} \X (1..Len(program[g])) : g \in Guests} :
        /\ Recordable(CallOf(e))
        /\ e[2] < at[e[1]] \/ (e[2] = at[e[1]] /\ step[e[1]] \in {"handle", "registerHandle"})}
Recorded(n) == {e \in Passed : CallOf(e).name = n}

\* What a value of the map says of the emissions it has taken.
Accounts(v, all) ==
    LET sum == Saturated(SumOf([e \in all |-> ValueOf(e)]))
    IN  CASE v.type = "counter" -> v.value = sum
          [] v.type = "gauge" -> \E e \in all : v.value = ValueOf(e)
          [] v.type = "duration" ->
               /\ v.count = Saturated(Cardinality(all)) /\ v.sum = sum
               /\ v.min = Min({ValueOf(e) : e \in all})
               /\ v.max = Max({ValueOf(e) : e \in all})

\* The registry holds at most MaxEntries names, and for a name that is used with
\* one type only it accounts for every emission of every worker: two workers that
\* register it at the same time lose none of their observations.
MetricsAreExact ==
    /\ Cardinality(DOMAIN metrics) <= MaxEntries
    /\ Cardinality(DOMAIN handles) <= MaxEntries
    /\ \A n \in DOMAIN metrics :
         (\A e \in Recorded(n) : CallOf(e).type = metrics[n].type) => Accounts(metrics[n], Recorded(n))

=============================================================================
