SPECIFICATION Spec
CONSTANTS
    Leases = {l1, l2}
    l1 = l1
    l2 = l2
    Sizes <- TwoSizes
    MaxBytes = 5
    Pids = {2, 3}
    Seqs <- OneRange
    Clock <- RunTimes
    MaxWrites = 4
    MaxCrashes = 1
    MaxFaults = 2
SYMMETRY LeaseSymmetry
INVARIANTS
    UsageExact
    NoStaleTmp
    QuarantinedIsKept
CHECK_DEADLOCK FALSE
