---------------------------- MODULE ReadinessGate ----------------------------
(***************************************************************************)
(* How one signal ring tells /readyz that its senders are stuck.           *)
(*                                                                         *)
(* BlockedSendGuard keeps two atomics of SignalRingState, the number of    *)
(* blocked senders and the instant since when there are any, without the   *)
(* ring's lock: every load, store and read-modify-write below is a step of *)
(* its own, and the clock moves between reading it and storing the time.   *)
(***************************************************************************)
EXTENDS Integers, FiniteSets

CONSTANTS
    Senders,    \* concurrent sends on one ring
    Stall,      \* readiness_stall_sec, in ticks
    MaxTime     \* bound: the last tick of the clock

ASSUME GateAssumption ==
    /\ IsFiniteSet(Senders)
    /\ Stall \in Nat \ {0}
    /\ MaxTime \in Nat \ {0}

VARIABLES
    blockedSenders,   \* SignalRingState.blocked_senders
    blockedSince,     \* SignalRingState.blocked_since_unix_ms
    pc,               \* where each sender is in its BlockedSendGuard
    nowMs,            \* the clock as each sender last read it
    clock,            \* current_unix_ms()
    waitingFrom       \* when each blocked send started to wait (history)

gateVars == <<blockedSenders, blockedSince, pc, nowMs, clock, waitingFrom>>

GateInit ==
    /\ blockedSenders = 0
    /\ blockedSince = 0
    /\ pc = [s \in Senders |-> "free"]
    /\ nowMs = [s \in Senders |-> 0]
    /\ clock = 1
    /\ waitingFrom = [s \in Senders |-> 0]

Goto(s, label) == pc' = [pc EXCEPT ![s] = label]

\* mark_blocked: fetch_add, and the first to block takes the time.
MarkBlocked(s) ==
    /\ pc[s] = "free"
    /\ blockedSenders' = blockedSenders + 1
    /\ waitingFrom' = [waitingFrom EXCEPT ![s] = clock]
    /\ IF blockedSenders = 0
       THEN Goto(s, "stamp") /\ nowMs' = [nowMs EXCEPT ![s] = clock]
       ELSE Goto(s, "blocked") /\ UNCHANGED nowMs
    /\ UNCHANGED <<blockedSince, clock>>

\* mark_blocked's store
Stamp(s) ==
    /\ pc[s] = "stamp"
    /\ blockedSince' = nowMs[s]
    /\ Goto(s, "blocked")
    /\ UNCHANGED <<blockedSenders, nowMs, clock, waitingFrom>>

\* mark_admitted: fetch_sub; the last clears the time, any other takes it anew.
MarkAdmitted(s) ==
    /\ pc[s] = "blocked"
    /\ blockedSenders' = blockedSenders - 1
    /\ IF blockedSenders <= 1
       THEN Goto(s, "clear") /\ UNCHANGED nowMs
       ELSE Goto(s, "restamp") /\ nowMs' = [nowMs EXCEPT ![s] = clock]
    /\ UNCHANGED <<blockedSince, clock, waitingFrom>>

\* Mutant: the time is stored and nobody looks whether the ring is blocked still.
RestampBlindly(s) ==
    /\ pc[s] = "restamp"
    /\ blockedSince' = nowMs[s]
    /\ Goto(s, "free")
    /\ UNCHANGED <<blockedSenders, nowMs, clock, waitingFrom>>

Restamp(s) ==
    /\ pc[s] = "restamp"
    /\ blockedSince' = nowMs[s]
    /\ Goto(s, "recheck")
    /\ UNCHANGED <<blockedSenders, nowMs, clock, waitingFrom>>

\* The load that undoes the store when the last sender has left meanwhile.
Recheck(s) ==
    /\ pc[s] = "recheck"
    /\ Goto(s, IF blockedSenders = 0 THEN "clear" ELSE "free")
    /\ UNCHANGED <<blockedSenders, blockedSince, nowMs, clock, waitingFrom>>

Clear(s) ==
    /\ pc[s] = "clear"
    /\ blockedSince' = 0
    /\ Goto(s, "free")
    /\ UNCHANGED <<blockedSenders, nowMs, clock, waitingFrom>>

\* BlockedSendGuard::drop of a send that is refused or cancelled while it waits.
DropGuard(s) ==
    /\ pc[s] = "blocked"
    /\ blockedSenders' = blockedSenders - 1
    /\ Goto(s, IF blockedSenders <= 1 THEN "clear" ELSE "free")
    /\ UNCHANGED <<blockedSince, nowMs, clock, waitingFrom>>

Tick ==
    /\ clock < MaxTime
    /\ clock' = clock + 1
    /\ UNCHANGED <<blockedSenders, blockedSince, pc, nowMs, waitingFrom>>

GateNext ==
    \/ \E s \in Senders :
        \/ MarkBlocked(s) \/ Stamp(s)
        \/ MarkAdmitted(s) \/ Restamp(s) \/ Recheck(s) \/ Clear(s)
        \/ DropGuard(s)
    \/ Tick

GateSpec == GateInit /\ [][GateNext]_gateVars

\* BufferInner::is_ready, as far as blocked senders decide it.
IsReady ==
    ~ /\ blockedSenders > 0
      /\ blockedSince > 0
      /\ clock - blockedSince >= Stall

-----------------------------------------------------------------------------

\* No sender is between two steps of its guard.
Quiescent == \A s \in Senders : pc[s] \in {"free", "blocked"}

Blocked == {s \in Senders : pc[s] \in {"stamp", "blocked"}}

\* blocked_since_unix_ms is "`0` when unblocked": however the guards of several
\* senders interleave, once they are through and no send waits, no time is left
\* behind.  Nothing would ever clear one that is.
ZeroWhenUnblocked == Quiescent /\ Blocked = {} => blockedSince = 0

\* The shapes of the two atomics, the guards' positions and the clock.
GateTypeOK ==
    /\ blockedSenders \in Nat
    /\ blockedSince \in 0..MaxTime
    /\ pc \in [Senders -> {"free", "stamp", "blocked", "restamp", "recheck", "clear"}]
    /\ nowMs \in [Senders -> 0..MaxTime]
    /\ clock \in 1..MaxTime
    /\ waitingFrom \in [Senders -> 0..MaxTime]

\* docs/buffer.md: /readyz answers 503 "when any buffer has had a `send` blocked
\* continuously for `readiness_stall_sec`".
StallIsReported ==
    /\ Quiescent
    /\ \E s \in Senders : pc[s] = "blocked" /\ clock - waitingFrom[s] >= Stall
    => ~IsReady

=============================================================================
