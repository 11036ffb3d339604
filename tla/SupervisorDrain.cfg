CONSTANTS
    SignalOrder <- Order
    Loads <- SomeLoads
    ChannelCapacity = 1
    RingCapacity = 1
    Modes <- AllModes
    MaxFaults = 1
SPECIFICATION Spec
INVARIANT AckedSurvivesDrain
CHECK_DEADLOCK FALSE
