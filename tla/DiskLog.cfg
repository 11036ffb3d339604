SPECIFICATION Spec
CONSTANTS
    FrameSize <- TwoSignals
    SegmentSize = 3
    Scenarios <- AllScenarios
INVARIANTS
    CrashSafe
    AckDurable
    SegmentsMatchRings
    SeqSurvivesCrash
CHECK_DEADLOCK FALSE
