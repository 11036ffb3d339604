SPECIFICATION GateSpec
CONSTANTS
    Senders = {s1, s2}
    s1 = s1
    s2 = s2
    Stall = 2
    MaxTime = 4
INVARIANTS
    StallIsReported
CHECK_DEADLOCK FALSE
