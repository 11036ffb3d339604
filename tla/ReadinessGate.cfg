SPECIFICATION GateSpec
CONSTANTS
    Senders = {s1, s2, s3}
    s1 = s1
    s2 = s2
    s3 = s3
    Stall = 2
    MaxTime = 3
INVARIANTS
    ZeroWhenUnblocked
CHECK_DEADLOCK FALSE
