SPECIFICATION PathSpec
CONSTANTS
    Concurrency = 2
    ChannelCapacity = 1
    MaxBatches = 3
    Scenarios <- MCScenarios
    RejuvenateBatches = 2
    Reloaders = {sighup, rest}
    Versions = 2
    Unfit = {2}
    FaultKinds = 1
    Guests = {"g1", "g2"}
    MaxEntries = 2
    U64Max = 8
    GuestPrograms <- MCGuestPrograms
    Endpoints = 2
    Documents = 3
    BulkRetries = 2
    Immutable = {"timestamp", "trace_id"}
    ComplianceKeys = {"verified", "profile"}
    GuestBatchLimit = 2
    OutputLimit = 3
    LinearScanThreshold = 2
    LatestTimestamp = 3
    Base = 4
    ShortString = 4
    Spacing = 4
    Scale = 2
    HourSeconds = 2
    DayHours = 2
    I64Limit = 40
    CalendarLimit = 30
    Null = Null
    WordMax = 63
    DefaultBuffer <- MCDefaultBuffer
    IcebergBatch = 4
    WasmConcurrency = 8
    DecodeJobs <- MCDecodeJobs
    VariantJobs <- MCVariantJobs
    GuestJobs <- MCGuestJobs
    LayoutJobs <- MCLayoutJobs
    DocumentJobs <- MCDocumentJobs
    StartJobs <- MCStartJobs
INVARIANTS OutcomesAreHonoured RunsPublishedModule BulkAnswersMatch MetricsAreExact
    ReadsAsSent GuestIsContained RowsKeepTheirPlace StartIsSafe
PROPERTY RunReturns
CHECK_DEADLOCK FALSE
