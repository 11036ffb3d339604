---- MODULE MCSupervisor ----
\* Two signals stand for three: no action relates more than two of them.
EXTENDS Supervisor

Order == <<"logs", "traces">>
\* Four batches fill a handler, the channel, the transformer and the ring of one signal;
\* the other load has something on its way in both signals.
SomeLoads == {[logs |-> 4, traces |-> 0], [logs |-> 1, traces |-> 1]}
Memory == [disk |-> FALSE, persist |-> FALSE]
Persist == [disk |-> TRUE, persist |-> TRUE]
Discard == [disk |-> TRUE, persist |-> FALSE]
AllModes == {Memory, Persist, Discard}
====
