SPECIFICATION Spec
CONSTANTS
    MaxSeq = 5
    MaxInflight = 2
INVARIANTS
    WatermarkSafe
    WatermarkExact
    LeasesOwnInFlight
PROPERTIES
    FateIsFinal
CHECK_DEADLOCK FALSE
