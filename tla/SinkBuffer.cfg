SPECIFICATION Spec
CONSTANTS
    Senders = {s1, s2}
    s1 = s1
    s2 = s2
    Batches <- SmallAndOther
    Modes <- AllModes
    Budget = 6
    MaxBatchBytes = 2
    MaxBatchRecords = 2
    FlushInterval = TRUE
    MaxInflight = 2
    MaxAttempts = 2
    MaxSeq = 3
    MaxFaults = 1
SYMMETRY SenderSymmetry
INVARIANTS
    BudgetRespected
    SlotsAgree
    CountersExact
    NoneMeansEmpty
PROPERTIES
    ImplementsLedger
CHECK_DEADLOCK FALSE
