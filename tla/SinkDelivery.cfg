SPECIFICATION Spec
CONSTANTS
    MaxSeq = 3
    MaxAttempts = 2
    MaxFaults = 2
    MaxRestarts = 1
    Workloads <- MCWorkloads
    MaxProbes = 2
    MaxTracked = 1
    LongTable = FALSE
    KeyValues = 2
    ChunkRows = 2
    MaxRetries = 1
    MaxInflight = 2
    Permits = 1
    PartitionOf <- MCPartitionOf
    MaxOpen = 2
    MaxRecords = 3
    MaxUploads = 2
    MemoryLimit = 4
INVARIANTS AckedIsStored OncePerLease StoredInOrder CleanStopStores WriterPoolBounded
PROPERTY EverythingIsResolved
CHECK_DEADLOCK FALSE
