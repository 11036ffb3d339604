---------------------------- MODULE StarRocksSink ----------------------------
(* The StarRocks sink: each lease is one Stream Load under a label made from   *)
(* the lease's identity, so that a retry of a load that did commit is          *)
(* recognised by the server.  V1 is one request; V2 is a transaction: begin,   *)
(* load, prepare, commit.  A label the server aborted cannot be used again, so *)
(* the sink moves on to a numbered fallback label.                             *)
EXTENDS LeaseFeed

CONSTANTS
    MaxProbes,    \* MAX_ABORTED_LABEL_PROBES_PER_ATTEMPT.
    MaxTracked,   \* MAX_TRACKED_FALLBACK_LABELS.
    LongTable     \* The table's name fills the label up to its 128 characters.

ASSUME StarRocksAssumption ==
    {MaxProbes, MaxTracked} \subseteq Nat \ {0} /\ LongTable \in BOOLEAN

VARIABLES
    mode,         \* transaction_mode: "V1" or "V2".
    load,         \* The send in progress: its next call, fallback index and probes.
    tracked,      \* fallback_attempts: lease range -> fallback index.
    labels,       \* Server: label -> what became of the load under it.
    late          \* Requests the sink gave up on that may still reach the server.

starRocksVars == <<mode, load, tracked, labels, late>>

Calls == {"idle", "send", "confirm", "begin", "load", "prepare", "commit",
          "completeOrConfirm", "complete", "recheck"}

NoSend == [call |-> "idle", idx |-> 0, probes |-> 0]

StarRocksTypeOK ==
    /\ mode \in {"V1", "V2"}
    /\ load \in [call : Calls, idx : 0..(1 + MaxFaults + MaxRestarts), probes : 0..MaxProbes]
    /\ Cardinality(DOMAIN tracked) <= MaxTracked
    /\ \A lb \in DOMAIN labels :
           labels[lb].state \in {"running", "begun", "loaded", "prepared", "committed", "aborted"}

StarRocksInit ==
    /\ mode \in {"V1", "V2"}
    /\ load = NoSend
    /\ tracked = << >>
    /\ labels = << >>
    /\ late = {}

-----------------------------------------------------------------------------
(* Labels and errors                                                          *)

LeaseRange(l) == [first |-> l.first, last |-> l.last]

\* Mutant: the label carries the delivery attempt.
LabelPerAttempt(l, idx) ==
    [range |-> LeaseRange(l), idx |-> idx, attempt |-> l.attempt]

\* format_lease_label and format_attempt_lease_label.  A fallback label cuts its
\* base to make room for the suffix: what the cut takes is the end of the base,
\* where the sequence numbers stand.
Label(l, idx) ==
    IF idx > 0 /\ LongTable
    THEN [range |-> [first |-> 0, last |-> 0], idx |-> idx]
    ELSE [range |-> LeaseRange(l), idx |-> idx]

\* classify_stream_load_error, for the kinds of error the calls below end with.
\* "exists" is the answer to a label in use, "uncommitted" the error built for a
\* label that is in use and not committed.
Classify(err) ==
    CASE err \in {"network", "uncommitted", "busy"} -> "Transient"
      [] err \in {"denied", "badUrl"} -> "Fatal"
      [] err \in {"exists", "invalid", "refused"} -> "Rejected"

StateOf(lb) == IF lb \in DOMAIN labels THEN labels[lb].state ELSE "none"

TheLease == CHOOSE l \in held : TRUE
ActiveLabel == Label(TheLease, load.idx)

\* The map f with key k set to v.
Insert(f, k, v) == [x \in DOMAIN f \cup {k} |-> IF x = k THEN v ELSE f[x]]

SetLabel(lb, l, state) ==
    labels' = Insert(labels, lb, [state |-> state, range |-> LeaseRange(l)])

\* The load under lb becomes visible to queries.
Commit(lb, l) ==
    /\ SetLabel(lb, l, "committed")
    /\ Visible(l.first, l.last, 0)

SameServer == UNCHANGED <<labels, stored>>
SameFeed == UNCHANGED <<configured, workload, arrived, done, quarantined, held, nacked, loop, restarts>>

\* Everything but the next call and the server's answer stays as it is.
Goto(call) ==
    /\ load' = [load EXCEPT !.call = call]
    /\ SameFeed /\ UNCHANGED <<mode, tracked>>

Forget(l) == [r \in DOMAIN tracked \ {LeaseRange(l)} |-> tracked[r]]

\* run, after a failed send: what is remembered of the fallback labels tried.
Remember(l, class) ==
    IF class = "Transient" /\ load.idx > 0
    THEN Insert(IF Cardinality(DOMAIN tracked) >= MaxTracked /\ LeaseRange(l) \notin DOMAIN tracked
                THEN << >> ELSE tracked,
                LeaseRange(l), load.idx)
    ELSE Forget(l)

\* send_v1 or send_v2 returned Ok.
Succeed ==
    /\ tracked' = Forget(TheLease)
    /\ Ack(TheLease)
    /\ load' = NoSend
    /\ UNCHANGED <<mode, configured, workload, arrived, restarts>>

\* send_v1 or send_v2 returned Err(err).
Fail(err) ==
    /\ tracked' = Remember(TheLease, Classify(err))
    /\ Nack(TheLease, Classify(err))
    /\ load' = NoSend
    /\ UNCHANGED <<mode, configured, workload, arrived, restarts>>

-----------------------------------------------------------------------------
(* run: from the lease to the first call                                      *)

StartLoad(l) ==
    /\ load.call = "idle" /\ held = {}
    /\ Take(l)
    /\ ~(Seqs(l) \subseteq Empty)
    /\ Seqs(l) \cap Malformed = {}
    /\ load' = [call |-> IF mode = "V1" THEN "send" ELSE "begin",
                idx |-> IF LeaseRange(l) \in DOMAIN tracked THEN tracked[LeaseRange(l)] ELSE 0,
                probes |-> 0]
    /\ UNCHANGED <<configured, workload, arrived, done, quarantined, loop, faults, restarts, stored,
                   mode, tracked, labels, late>>

RejectLoad(l) ==
    /\ load.call = "idle"
    /\ RejectUnprepared(l)
    /\ UNCHANGED starRocksVars

SkipEmpty(l) ==
    /\ load.call = "idle"
    /\ AckEmpty(l)
    /\ UNCHANGED starRocksVars

-----------------------------------------------------------------------------
(* send_v1                                                                    *)

\* The request is answered, or it ends without an answer: it never left, it is
\* still under way, the server works on it, or the server finished it.
SendV1 ==
    /\ load.call = "send"
    /\ StateOf(ActiveLabel) = "none"
    /\ \/ /\ Commit(ActiveLabel, TheLease) /\ Succeed
          /\ UNCHANGED <<faults, late>>
       \/ /\ Fault /\ Fail("network")
          /\ \/ SameServer /\ UNCHANGED late
             \/ SameServer /\ late' = late \cup {[op |-> "send", label |-> ActiveLabel, lease |-> TheLease]}
             \/ SetLabel(ActiveLabel, TheLease, "running") /\ UNCHANGED <<stored, late>>
             \/ Commit(ActiveLabel, TheLease) /\ UNCHANGED late
       \/ /\ Fault /\ \E err \in {"busy", "denied", "invalid"} : Fail(err)
          /\ SetLabel(ActiveLabel, TheLease, "aborted")
          /\ UNCHANGED <<stored, late>>

SendV1Exists ==
    /\ load.call = "send"
    /\ StateOf(ActiveLabel) # "none"
    /\ Goto("confirm")
    /\ SameServer /\ UNCHANGED <<faults, late>>

\* A label that is aborted: the next fallback label, unless this attempt has
\* probed enough of them.
Probe(call) ==
    IF load.probes + 1 >= MaxProbes
    THEN Fail("exists")
    ELSE /\ load' = [call |-> call, idx |-> load.idx + 1, probes |-> load.probes + 1]
         /\ SameFeed /\ UNCHANGED <<mode, tracked>>

\* Mutant: a label that exists counts as committed.
ConfirmV1AnyLabel ==
    /\ load.call = "confirm"
    /\ Succeed
    /\ SameServer /\ UNCHANGED <<faults, late>>

\* confirm_v1_label_committed.
ConfirmV1 ==
    /\ load.call = "confirm"
    /\ SameServer /\ UNCHANGED late
    /\ \/ StateOf(ActiveLabel) = "committed" /\ Succeed /\ UNCHANGED faults
       \/ StateOf(ActiveLabel) = "aborted" /\ Probe("send") /\ UNCHANGED faults
       \/ StateOf(ActiveLabel) \notin {"committed", "aborted"}
            /\ Fail("uncommitted") /\ UNCHANGED faults
       \/ Fault /\ Fail("network")

-----------------------------------------------------------------------------
(* send_v2                                                                    *)

BeginV2 ==
    /\ load.call = "begin"
    /\ UNCHANGED <<stored, late>>
    /\ \/ /\ StateOf(ActiveLabel) = "none"
          /\ SetLabel(ActiveLabel, TheLease, "begun")
          /\ \/ Goto("load") /\ UNCHANGED faults
             \/ Fault /\ Fail("network")
       \/ /\ StateOf(ActiveLabel) # "none"
          /\ Goto("completeOrConfirm") /\ UNCHANGED <<labels, faults>>
       \/ /\ Fault /\ \E err \in {"network", "denied"} : Fail(err)
          /\ UNCHANGED labels

\* The transaction of lb is rolled back if the server can still do it; the
\* request may fail as well.
RollbackOr(lb, state) ==
    \/ state \in {"begun", "loaded", "prepared"} /\ SetLabel(lb, TheLease, "aborted")
    \/ SetLabel(lb, TheLease, state)

\* load_transaction_data and prepare_transaction: a step of the transaction on
\* the server, and a rollback when it fails or its answer is lost.
Advance(from, to) ==
    LET state == StateOf(ActiveLabel)
    IN  \/ state = from /\ SetLabel(ActiveLabel, TheLease, to)
             /\ Goto(IF to = "loaded" THEN "prepare" ELSE "commit")
             /\ UNCHANGED faults
        \/ /\ state = from /\ Fault
           /\ \E err \in {"network", "busy", "refused"} : Fail(err)
           /\ \E reached \in {from, to} : RollbackOr(ActiveLabel, reached)
        \/ /\ state # from
           /\ \E err \in {"busy", "refused"} : Fail(err)
           /\ RollbackOr(ActiveLabel, state)
           /\ UNCHANGED faults

LoadV2 ==
    /\ load.call = "load"
    /\ Advance("begun", "loaded")
    /\ UNCHANGED <<stored, late>>

PrepareV2 ==
    /\ load.call = "prepare"
    /\ Advance("loaded", "prepared")
    /\ UNCHANGED <<stored, late>>

\* Mutant: a transaction whose commit failed counts as committed.
CommitV2Optimistic ==
    /\ load.call \in {"commit", "complete"}
    /\ Succeed
    /\ SameServer /\ UNCHANGED <<faults, late>>

\* commit_transaction, from send_v2 and from confirm_or_complete_v2_label.  A
\* failure leaves the prepared transaction alone.
CommitV2 ==
    /\ load.call \in {"commit", "complete"}
    /\ \/ /\ StateOf(ActiveLabel) = "prepared"
          /\ Commit(ActiveLabel, TheLease)
          /\ \/ Succeed /\ UNCHANGED faults
             \/ Fault /\ Fail("network")
          /\ UNCHANGED late
       \/ /\ StateOf(ActiveLabel) = "prepared"
          /\ Fault /\ Fail("network") /\ SameServer
          /\ late' \in {late, late \cup {[op |-> "commit", label |-> ActiveLabel, lease |-> TheLease]}}
       \/ /\ StateOf(ActiveLabel) = "committed"
          /\ Goto(IF load.call = "commit" THEN "completeOrConfirm" ELSE "recheck")
          /\ SameServer /\ UNCHANGED <<faults, late>>
       \/ /\ StateOf(ActiveLabel) \notin {"prepared", "committed"}
          /\ \E err \in {"busy", "refused"} : Fail(err)
          /\ SameServer /\ UNCHANGED <<faults, late>>

\* confirm_or_complete_v2_label.  The states PREPARE and PREPARED both lead to a
\* commit; an answer that names no known state leads to a rollback.
ConfirmOrCompleteV2 ==
    /\ load.call = "completeOrConfirm"
    /\ UNCHANGED <<stored, late>>
    /\ \/ StateOf(ActiveLabel) = "committed" /\ Succeed /\ UNCHANGED <<labels, faults>>
       \/ StateOf(ActiveLabel) \in {"begun", "loaded", "prepared"}
            /\ Goto("complete") /\ UNCHANGED <<labels, faults>>
       \/ StateOf(ActiveLabel) = "aborted" /\ Probe("begin") /\ UNCHANGED <<labels, faults>>
       \/ Fault /\ Fail("uncommitted") /\ RollbackOr(ActiveLabel, StateOf(ActiveLabel))
       \/ Fault /\ Fail("network") /\ UNCHANGED labels

RecheckV2 ==
    /\ load.call = "recheck"
    /\ SameServer /\ UNCHANGED late
    /\ \/ StateOf(ActiveLabel) = "committed" /\ Succeed /\ UNCHANGED faults
       \/ Fault /\ \E err \in {"network", "uncommitted"} : Fail(err)

-----------------------------------------------------------------------------
(* The server                                                                 *)

\* A request the sink gave up on reaches the server, or is lost for good.
LateRequest ==
    \E r \in late :
        /\ late' = late \ {r}
        /\ \/ /\ StateOf(r.label) = (IF r.op = "send" THEN "none" ELSE "prepared")
              /\ Commit(r.label, r.lease)
           \/ SameServer
        /\ SameFeed /\ UNCHANGED <<mode, load, tracked, faults>>

\* A load that is still running ends; a transaction nobody finishes times out,
\* and the one the sink is working on may.
ServerEndsLoad ==
    \E lb \in DOMAIN labels :
        LET l == labels[lb].range
            busy == load.call \in {"load", "prepare", "commit"} /\ lb = ActiveLabel
        IN  /\ \/ labels[lb].state = "running" /\ Commit(lb, l) /\ UNCHANGED faults
               \/ /\ labels[lb].state \in {"running", "begun", "loaded", "prepared"}
                  /\ SetLabel(lb, l, "aborted")
                  /\ IF busy THEN Fault ELSE UNCHANGED faults
                  /\ UNCHANGED stored
            /\ SameFeed /\ UNCHANGED <<mode, load, tracked, late>>

\* A restarted sink has no memory of the fallback labels it tried.
RestartStarRocks ==
    /\ Restart
    /\ load' = NoSend
    /\ tracked' = << >>
    /\ UNCHANGED <<mode, labels, late>>

StarRocksSteps ==
    \/ \E l \in NextLeases : StartLoad(l) \/ RejectLoad(l) \/ SkipEmpty(l)
    \/ SendV1 \/ SendV1Exists \/ ConfirmV1
    \/ BeginV2 \/ LoadV2 \/ PrepareV2 \/ CommitV2 \/ ConfirmOrCompleteV2 \/ RecheckV2

StarRocksNext ==
    \/ StarRocksSteps
    \/ LateRequest \/ ServerEndsLoad
    \/ RestartStarRocks
    \/ Arrive /\ UNCHANGED starRocksVars

=============================================================================
