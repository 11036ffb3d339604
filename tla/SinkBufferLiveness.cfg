SPECIFICATION FairSpec
CONSTANTS
    Senders = {s1}
    s1 = s1
    Batches <- SmallAndOversized
    Modes <- Blocking
    Budget = 6
    MaxBatchBytes = 2
    MaxBatchRecords = 0
    FlushInterval = TRUE
    MaxInflight = 2
    MaxAttempts = 2
    MaxSeq = 3
    MaxFaults = 1
PROPERTIES
    BlockedSendEnds
    DrainCompletes
CHECK_DEADLOCK FALSE
