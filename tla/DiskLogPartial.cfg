SPECIFICATION Spec
CONSTANTS
    FrameSize <- TwoSignals
    SegmentSize = 3
    Scenarios <- PartialWrite
INVARIANTS
    CrashSafe
CHECK_DEADLOCK FALSE
