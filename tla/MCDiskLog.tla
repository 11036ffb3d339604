------------------------------ MODULE MCDiskLog ------------------------------
(* Two signals whose frames share the segments: with a segment of size 3, one frame  *)
(* of each signal fills a segment, which is sealed after the write, and two frames   *)
(* of "logs" leave no room for one of "traces", which seals the segment before it.   *)
EXTENDS DiskLog

TwoSignals == [logs |-> 1, traces |-> 2]

\* Processes that crash, twice, and so also while they recover.
Crashes ==
    [syncOnWrite |-> FALSE, powerLoss |-> FALSE, faultKinds |-> {},
     msgs |-> 3, crashes |-> 2, faults |-> 0, finalizes |-> 0]

\* A call that fails, and a crash before or after it.
FailingCalls ==
    [Crashes EXCEPT !.faultKinds = {"write", "seal", "watermark"}, !.crashes = 1, !.faults = 1]

\* Power losses with sync_on_write, with a failing call and a shutdown that is finalized.
PowerLosses ==
    [syncOnWrite |-> TRUE, powerLoss |-> TRUE, faultKinds |-> {"write", "sync", "watermark"},
     msgs |-> 2, crashes |-> 2, faults |-> 1, finalizes |-> 1]

AllScenarios == {Crashes, FailingCalls, PowerLosses}

\* A write that fails half-way.
PartialWrite ==
    {[Crashes EXCEPT !.faultKinds = {"partial"}, !.msgs = 2, !.crashes = 1, !.faults = 1]}

=============================================================================
